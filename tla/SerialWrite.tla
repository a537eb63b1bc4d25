---------------------------- MODULE SerialWrite -----------------------------
(***************************************************************************)
(* The transmit side of components/drivers/tty/serial.c: threads in        *)
(* rt_serial_write, the transmit FIFO, the wait queue of the writers and   *)
(* the transmit interrupt.  The FIFO is the number of characters in it     *)
(* (module RingBuffer has its contents); a text is a sequence of           *)
(*   "chr"  a character,   "nl"  a line feed,   "tab"  a tabulator.        *)
(*                                                                         *)
(* Nothing locks a device: rt_ringbuffer_put of two writers, or of one and *)
(* a rt_ringbuffer_reset, that overlap leave the FIFO corrupt.             *)
(*                                                                         *)
(* pc of a writer:                                                         *)
(*   "wr_add"      before rt_wqueue_add                                    *)
(*   "wr_put"      before rt_ringbuffer_put                                *)
(*   "wr_commit"   has copied moved[t] characters, not set write_index     *)
(*   "wr_char"     before process_output (with OPOST only)                 *)
(*   "wr_flush", "wr_set", "wr_txstart"   in flush_char: before the test   *)
(*                 of tx_started, setting it, starting the transmitter     *)
(*   "wr_wait"     before rt_wqueue_wait                                   *)
(*   "wr_sched", "wr_unlink"   in it, before rt_schedule and after it      *)
(*   "wr_out"      at break_out                                            *)
(***************************************************************************)
EXTENDS Ipc, WaitQueue

CONSTANTS
    Text,        \* [Writers -> Seq({"chr", "nl", "tab"})], what a writer writes
    Writers,
    Nonblock,    \* the writers with O_NONBLOCK
    Discards,    \* the writers that also discard the output
    TXFIFO       \* the size of the transmit FIFO, at least 2

VARIABLES
    opost,       \* OPOST of the terminal: output is processed; ONLCR is set
    todo,        \* [Writers -> Seq], what rt_serial_write has still to put
    moved,       \* [Writers -> Nat], the characters a put in progress copied
    fifo,        \* the number of characters in txfifo
    queue,       \* writer_queue
    tx_started,
    hw,          \* the transmitter is on and will interrupt; external
    out          \* the number of characters that went to putc

serialVars == <<opost, todo, moved, fifo, queue, tx_started, hw, out>>
vars == <<ipcVars, serialVars>>

WriteInit ==
    /\ opost \in BOOLEAN
    /\ todo = Text /\ moved = [t \in Writers |-> 0]
    /\ fifo = 0 /\ queue = EmptyQueue
    /\ tx_started = FALSE /\ hw = FALSE /\ out = 0

Init == IpcInit /\ WriteInit

Space == TXFIFO - fifo

\* A writer goes on in its call.
At(t, label) == Runs(t, label) /\ t \in Writers
To(t, label) == Goes(t, label, NoObject)

-----------------------------------------------------------------------------
(* rt_serial_write *)

\* A text that is all written is not written again; a writer that does not
\* block calls again with the rest.
WriteCall(t) ==
    /\ At(t, "run") /\ todo[t] # <<>> /\ To(t, "wr_add")
    /\ UNCHANGED <<k, open, corrupt, serialVars>>

WriteAdd(t) ==
    /\ At(t, "wr_add")
    /\ queue' = rt_wqueue_add(queue, t)
    /\ To(t, "wr_put")
    /\ UNCHANGED <<k, open, corrupt, opost, todo, moved, fifo, tx_started, hw, out>>

\* What one call of rt_ringbuffer_put takes: with OPOST the characters up to one
\* that is processed; never more than there is space.
Plain(s) == IF opost THEN Min({i \in 1 .. Len(s) + 1 : i > Len(s) \/ s[i] # "chr"}) - 1
            ELSE Len(s)
Fits(s) == Min({Plain(s), Space})

\* The end of an attempt to put characters: all is put, or there is no space.
AfterPut(t) ==
    IF todo[t] = <<>> \/ t \in Nonblock THEN "wr_out" ELSE "wr_wait"

WritePut(t) ==
    /\ At(t, "wr_put")
    /\ moved' = [moved EXCEPT ![t] = Fits(todo[t])]
    /\ IF Fits(todo[t]) > 0 THEN To(t, "wr_commit")
       ELSE To(t, IF opost THEN "wr_char" ELSE AfterPut(t))
    /\ UNCHANGED <<k, open, corrupt, opost, todo, fifo, queue, tx_started, hw, out>>

\* write_index is advanced; somebody else's put in the meantime would have
\* copied to the same place.
WriteCommit(t) ==
    /\ At(t, "wr_commit")
    /\ fifo' = fifo + moved[t]
    /\ todo' = [todo EXCEPT ![t] = SubSeq(@, moved[t] + 1, Len(@))]
    /\ moved' = [moved EXCEPT ![t] = 0]
    /\ corrupt' = \E u \in Writers \ {t} : pc[u] = "wr_commit"
    /\ To(t, IF opost /\ todo'[t] # <<>> THEN "wr_char" ELSE "wr_flush")
    /\ UNCHANGED <<k, open, opost, queue, tx_started, hw, out>>

\* process_output: a line feed is put as two characters when there is space for
\* both; every other character is taken from the text and not put.
WriteChar(t) ==
    /\ At(t, "wr_char")
    /\ LET need == IF Head(todo[t]) = "nl" THEN 2 ELSE 1
       IN  IF Space < need THEN To(t, "wr_flush") /\ UNCHANGED <<todo, fifo, corrupt>>
           ELSE /\ todo' = [todo EXCEPT ![t] = Tail(@)]
                /\ fifo' = IF Head(todo[t]) = "nl" THEN fifo + 2 ELSE fifo
                /\ corrupt' = (fifo' # fifo /\ \E u \in Writers : pc[u] = "wr_commit")
                /\ To(t, IF todo'[t] = <<>> THEN "wr_flush" ELSE "wr_put")
    /\ UNCHANGED <<k, open, opost, moved, queue, tx_started, hw, out>>

\* flush_char.  Afterwards raw output is tried again.
AfterFlush(t) == IF ~opost /\ todo[t] # <<>> THEN "wr_put" ELSE AfterPut(t)

FlushTest(t) ==
    /\ At(t, "wr_flush")
    /\ To(t, IF tx_started THEN AfterFlush(t) ELSE "wr_set")
    /\ UNCHANGED <<k, open, corrupt, serialVars>>

FlushSet(t) ==
    /\ At(t, "wr_set")
    /\ tx_started' = TRUE
    /\ To(t, "wr_txstart")
    /\ UNCHANGED <<k, open, corrupt, opost, todo, moved, fifo, queue, hw, out>>

FlushStart(t) ==
    /\ At(t, "wr_txstart")
    /\ hw' = TRUE
    /\ To(t, AfterFlush(t))
    /\ UNCHANGED <<k, open, corrupt, opost, todo, moved, fifo, queue, tx_started, out>>

\* Slip: rt_wqueue_wait does not look whether its node was taken off the list.
WaitBlindly(t) ==
    /\ At(t, "wr_wait")
    /\ k' = rt_thread_suspend(k, t) /\ To(t, "wr_sched")
    /\ UNCHANGED <<open, corrupt, serialVars>>

\* rt_wqueue_wait: a node that is no longer linked was woken since it was added.
WriteWait(t) ==
    /\ At(t, "wr_wait")
    /\ IF Linked(queue, t) THEN k' = rt_thread_suspend(k, t) /\ To(t, "wr_sched")
       ELSE To(t, "wr_add") /\ UNCHANGED k
    /\ UNCHANGED <<open, corrupt, serialVars>>

WriteSchedule(t) ==
    /\ At(t, "wr_sched")
    /\ k' = rt_schedule(k)
    /\ To(t, "wr_unlink")
    /\ UNCHANGED <<open, corrupt, serialVars>>

WriteUnlink(t) ==
    /\ At(t, "wr_unlink") \/ At(t, "wr_out")
    /\ queue' = rt_wqueue_remove(queue, t)
    /\ To(t, IF pc[t] = "wr_out" THEN "run" ELSE "wr_add")
    /\ UNCHANGED <<k, open, corrupt, opost, todo, moved, fifo, tx_started, hw, out>>

\* TCOFLUSH of rt_serial_control, by a writer between its calls
DiscardOutput(t) ==
    /\ At(t, "run") /\ t \in Discards
    /\ fifo' = 0 /\ out' = out + fifo
    /\ corrupt' = \E u \in Writers : pc[u] = "wr_commit"
    /\ UNCHANGED <<k, open, pc, on, opost, todo, moved, queue, tx_started, hw>>

-----------------------------------------------------------------------------
(* RT_SERIAL_EVENT_TX_DONE of rt_hw_serial_isr *)

Transmits(empty) ==
    IF empty THEN tx_started' = FALSE /\ hw' = FALSE ELSE UNCHANGED <<tx_started, hw>>

TxDone ==
    /\ Interruptible /\ hw
    /\ Transmits(fifo = 0)
    /\ fifo' = IF fifo = 0 THEN 0 ELSE fifo - 1
    /\ out' = out + fifo - fifo'
    /\ \E w \in {rt_wqueue_wakeup(k, queue)} :
         /\ queue' = w.q
         /\ IF queue.head # <<>> THEN Rescheduled(w.k) ELSE UNCHANGED k
    /\ UNCHANGED <<open, pc, on, corrupt, opost, todo, moved>>

Step(t) ==
    \/ WriteCall(t) \/ WriteAdd(t) \/ WritePut(t) \/ WriteCommit(t) \/ WriteChar(t)
    \/ FlushTest(t) \/ FlushSet(t) \/ FlushStart(t)
    \/ WriteWait(t) \/ WriteSchedule(t) \/ WriteUnlink(t) \/ DiscardOutput(t)
    \/ (Sleep(t) \/ SleepSchedule(t) \/ SleepReturn(t)) /\ UNCHANGED serialVars

Next == TxDone \/ (Tick /\ UNCHANGED serialVars) \/ \E t \in Writers : Step(t)

Spec == Init /\ [][Next]_vars

-----------------------------------------------------------------------------
\* The places from which a writer comes to flush_char before it waits or returns.
WillFlush == {"wr_commit", "wr_char", "wr_flush", "wr_set", "wr_txstart"}
                \cup IF opost THEN {"wr_put"} ELSE {}

\* Output never stalls: whatever writers and interrupts interleave, characters in
\* the FIFO are on their way out, or a writer is about to start the transmitter.
TxFlows ==
    ~corrupt /\ fifo > 0 =>
        (tx_started /\ hw) \/ \E t \in Writers : pc[t] \in WillFlush

Asleep == {t \in Writers : pc[t] \in {"wr_sched", "wr_unlink"} /\ k.stat[t] = "SUSPEND"}

\* No writer sleeps for good: one that is suspended still has its node in the
\* queue, and the transmitter will interrupt or another writer is awake that will
\* start it.
SleepersAwaited ==
    ~corrupt => \A t \in Asleep :
        /\ Linked(queue, t)
        /\ hw \/ \E u \in Writers \ Asleep :
                  pc[u] \in WillFlush \cup {"wr_add", "wr_put", "wr_wait", "wr_sched", "wr_unlink"}

\* Without output processing every character that rt_serial_write has counted is
\* in the FIFO or went out, for every interleaving of puts with the interrupt.
NoCharacterLost ==
    ~corrupt /\ ~opost =>
        fifo + out = MapThenSumSet(LAMBDA t : Len(Text[t]) - Len(todo[t]), Writers)
=============================================================================
