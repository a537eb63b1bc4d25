----------------------------- MODULE SerialRead -----------------------------
(***************************************************************************)
(* The receive side of components/drivers/tty/serial.c: one thread in      *)
(* rt_serial_read, which waits with rt_wqueue_uwait, and the receive       *)
(* interrupt.  The node of rt_wqueue_uwait is in its stack frame.          *)
(*                                                                         *)
(* The function returns, when it finds the flag raised, without taking its *)
(* node off the list: the list then holds a dead stack frame (corrupt).    *)
(* It looks at the flag with interrupts enabled and suspends itself        *)
(* later: a wake-up in between is spent on a thread that is ready.         *)
(*                                                                         *)
(* pc of the reader:                                                       *)
(*   "rd_get"      before rt_ringbuffer_get                                *)
(*   "rd_add", "rd_test", "rd_suspend", "rd_sched", "rd_remove"   in       *)
(*                 rt_wqueue_uwait, before rt_wqueue_add, the test of the  *)
(*                 flag, rt_thread_suspend, rt_schedule, rt_wqueue_remove  *)
(***************************************************************************)
EXTENDS Ipc, WaitQueue

CONSTANTS
    Reader,      \* the thread that reads, in blocking mode
    RXFIFO,      \* the size of the receive FIFO
    BURST        \* the most characters one interrupt receives

VARIABLES
    rx,          \* the number of characters in rxfifo
    queue        \* reader_queue

readVars == <<rx, queue>>
vars == <<ipcVars, readVars>>

ReadInit == rx = 0 /\ queue = EmptyQueue

Init == IpcInit /\ ReadInit

At(label) == Runs(Reader, label)
To(label) == Goes(Reader, label, NoObject)

-----------------------------------------------------------------------------
ReadCall ==
    /\ At("run") /\ To("rd_get")
    /\ UNCHANGED <<k, open, corrupt, readVars>>

\* rt_ringbuffer_get for n characters
ReadGet(n) ==
    /\ At("rd_get")
    /\ rx' = IF rx < n THEN 0 ELSE rx - n
    /\ To(IF rx > 0 THEN "run" ELSE "rd_add")
    /\ UNCHANGED <<k, open, corrupt, queue>>

UwaitAdd ==
    /\ At("rd_add")
    /\ queue' = rt_wqueue_add(queue, Reader)
    /\ To("rd_test")
    /\ UNCHANGED <<k, open, corrupt, rx>>

\* Slip: the flag is not looked at.
UwaitUntested ==
    /\ At("rd_test") /\ To("rd_suspend")
    /\ UNCHANGED <<k, open, corrupt, readVars>>

UwaitTest ==
    /\ At("rd_test")
    /\ IF queue.flag = 0 THEN To("rd_suspend") /\ UNCHANGED corrupt
       ELSE To("rd_get") /\ corrupt' = Linked(queue, Reader)
    /\ UNCHANGED <<k, open, readVars>>

UwaitSuspend ==
    /\ At("rd_suspend")
    /\ k' = rt_thread_suspend(k, Reader)
    /\ To("rd_sched")
    /\ UNCHANGED <<open, corrupt, readVars>>

UwaitSchedule ==
    /\ At("rd_sched")
    /\ k' = rt_schedule(k)
    /\ To("rd_remove")
    /\ UNCHANGED <<open, corrupt, readVars>>

UwaitRemove ==
    /\ At("rd_remove")
    /\ queue' = rt_wqueue_remove(queue, Reader)
    /\ To("rd_get")
    /\ UNCHANGED <<k, open, corrupt, rx>>

\* TCIFLUSH of rt_serial_control
DiscardInput(t) ==
    /\ Runs(t, "run")
    /\ rx' = 0
    /\ UNCHANGED <<ipcVars, queue>>

-----------------------------------------------------------------------------
\* RT_SERIAL_EVENT_RX_IND of rt_hw_serial_isr with n characters; those that find
\* the FIFO full are dropped.
RxInd(n) ==
    /\ Interruptible
    /\ rx' = Min({rx + n, RXFIFO})
    /\ \E w \in {rt_wqueue_wakeup(k, queue)} :
         /\ queue' = w.q
         /\ IF queue.head # <<>> THEN Rescheduled(w.k) ELSE UNCHANGED k
    /\ UNCHANGED <<open, pc, on, corrupt>>

Next ==
    \/ ReadCall \/ UwaitAdd \/ UwaitTest \/ UwaitSuspend \/ UwaitSchedule \/ UwaitRemove
    \/ \E n \in 1 .. RXFIFO : ReadGet(n)
    \/ \E t \in App : \/ DiscardInput(t)
                      \/ (Sleep(t) \/ SleepSchedule(t) \/ SleepReturn(t)) /\ UNCHANGED readVars
    \/ \E n \in 1 .. BURST : RxInd(n)
    \/ Tick /\ UNCHANGED readVars

Spec == Init /\ [][Next]_vars

-----------------------------------------------------------------------------
\* A reader that sleeps with its node in the queue has missed nothing: no
\* character has come since rt_ringbuffer_get found none.  The flag is what tells
\* the reader of one that came before its node was in the queue.
NoMissedInput ==
    ~corrupt /\ k.stat[Reader] = "SUSPEND" /\ Linked(queue, Reader)
             /\ pc[Reader] \in {"rd_sched", "rd_remove"} => rx = 0
=============================================================================
