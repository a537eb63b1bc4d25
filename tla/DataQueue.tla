----------------------------- MODULE DataQueue ------------------------------
(***************************************************************************)
(* The data queue of components/drivers/src/dataqueue.c: a ring of data    *)
(* pointers between threads, or between a thread and an interrupt handler. *)
(* A push that finds the queue full raises waiting_lwm, and the pop that   *)
(* brings the queue down to its low water mark lowers it and resumes one   *)
(* of the waiting threads.                                                 *)
(*                                                                         *)
(* corrupt is also set where rt_data_queue_pop returns with interrupts     *)
(* disabled: it does when waiting_lwm is raised and no thread waits, which *)
(* happens after a push that did not wait or that timed out.               *)
(*                                                                         *)
(* pc has these values besides those of Ipc: "rs_test" and "rs_one", in    *)
(* rt_data_queue_reset at the test of the loop over the list on[t], and in *)
(* that loop before interrupts are disabled.                               *)
(***************************************************************************)
EXTENDS Ipc

CONSTANTS
    PushList, PopList,   \* suspended_push_list, suspended_pop_list
    Pushers,             \* the threads that push
    SIZE, LWM,           \* size, a power of two, and lwm, less than size
    INDEX_MAX            \* bound on the indices, before they wrap at 16 bits

VARIABLES
    put_index, get_index,
    waiting_lwm,
    slot,                \* [0 .. SIZE - 1 -> Nat], the data; the n-th push puts n
    limit                \* the threads whose call has a time limit

dataVars == <<put_index, get_index, waiting_lwm, slot>>
vars == <<ipcVars, dataVars, limit>>

\* rt_data_queue_init
DataInit ==
    /\ put_index = 0 /\ get_index = 0 /\ waiting_lwm = FALSE
    /\ slot = [i \in 0 .. SIZE - 1 |-> 0] /\ limit = {}

Init == IpcInit /\ DataInit

Full == put_index - get_index = SIZE
Empty == put_index = get_index

-----------------------------------------------------------------------------
(* rt_data_queue_push *)

Store ==
    /\ put_index < INDEX_MAX
    /\ slot' = [slot EXCEPT ![put_index % SIZE] = put_index]
    /\ put_index' = put_index + 1
    /\ UNCHANGED <<get_index, waiting_lwm>>

\* The thread is, or stays, in a call and is put to sleep on list l.
Blocks(t, l, timed) ==
    /\ k' = Wait([k EXCEPT !.error[t] = "EOK"], t, l, timed)
    /\ Goes(t, "wait_sched", l)
    /\ limit' = IF timed THEN limit \cup {t} ELSE limit
    /\ UNCHANGED <<open, corrupt>>

\* A call of t, or the rest of one that slept on list l.
Begins(t) == Runs(t, "run")
Resumes(t, l) == Runs(t, "wait_ret") /\ on[t] = l /\ k.error[t] = "EOK"

\* Slip: a waiting thread is resumed only by the push that finds the queue empty.
PushWakesOnEmpty(t) ==
    /\ (Begins(t) /\ t \in Pushers) \/ Resumes(t, PushList)
    /\ ~Full /\ Store
    /\ IF Empty THEN ResumesOne(t, PopList) ELSE Returns(t) /\ UNCHANGED k
    /\ limit' = limit \ {t}
    /\ UNCHANGED <<open, corrupt>>

Push(t) ==
    /\ (Begins(t) /\ t \in Pushers) \/ Resumes(t, PushList)
    /\ ~Full /\ Store
    /\ ResumesOne(t, PopList)
    /\ limit' = limit \ {t}
    /\ UNCHANGED <<open, corrupt>>

PushIsr ==
    /\ Interruptible /\ ~Full /\ Store
    /\ ResumesOneIsr(PopList)
    /\ UNCHANGED <<open, pc, on, corrupt, limit>>

\* The call, or one more turn of its loop; the whole time limit runs again.
PushWait(t, timed) ==
    /\ Full
    /\ \/ Begins(t) /\ t \in Pushers
       \/ Resumes(t, PushList) /\ timed = (t \in limit)
    /\ waiting_lwm' = TRUE
    /\ Blocks(t, PushList, timed)
    /\ UNCHANGED <<put_index, get_index, slot>>

\* timeout 0, from a thread or an interrupt handler
PushFails ==
    /\ Interruptible /\ Full
    /\ waiting_lwm' = TRUE
    /\ UNCHANGED <<ipcVars, put_index, get_index, slot, limit>>

-----------------------------------------------------------------------------
(* rt_data_queue_pop; with timeout 0 nothing is changed on an empty queue, and *)
(* rt_data_queue_peak changes nothing at all.                                  *)

Fetch == get_index' = get_index + 1 /\ UNCHANGED <<put_index, slot>>

\* The pop reaches the low water mark.
Reached == waiting_lwm /\ put_index - get_index' <= LWM

Pop(t) ==
    /\ (Begins(t) /\ t \notin Pushers) \/ Resumes(t, PopList)
    /\ ~Empty /\ Fetch
    /\ waiting_lwm' = (waiting_lwm /\ ~Reached)
    /\ corrupt' = (Reached /\ Waiting(PushList) = {})
    /\ IF Reached THEN ResumesOne(t, PushList) ELSE Returns(t) /\ UNCHANGED k
    /\ limit' = limit \ {t}
    /\ UNCHANGED open

PopIsr ==
    /\ Interruptible /\ ~Empty /\ Fetch
    /\ waiting_lwm' = (waiting_lwm /\ ~Reached)
    /\ corrupt' = (Reached /\ Waiting(PushList) = {})
    /\ IF Reached THEN ResumesOneIsr(PushList) ELSE UNCHANGED k
    /\ UNCHANGED <<open, pc, on, limit>>

PopWait(t, timed) ==
    /\ Empty
    /\ \/ Begins(t) /\ t \notin Pushers
       \/ Resumes(t, PopList) /\ timed = (t \in limit)
    /\ Blocks(t, PopList, timed)
    /\ UNCHANGED dataVars

\* A push or a pop that timed out or was reset.
Fails(t) ==
    /\ Runs(t, "wait_ret") /\ k.error[t] # "EOK"
    /\ Returns(t) /\ limit' = limit \ {t}
    /\ UNCHANGED <<k, open, corrupt, dataVars>>

-----------------------------------------------------------------------------
(* rt_data_queue_reset wakes the waiting threads, with the scheduler locked;  *)
(* it keeps the data and waiting_lwm.                                         *)

Reset(t) ==
    /\ Begins(t)
    /\ k' = [k EXCEPT !.lock = @ + 1]
    /\ Goes(t, "rs_test", PopList)
    /\ UNCHANGED <<open, corrupt, dataVars, limit>>

ResetTest(t) ==
    /\ Runs(t, "rs_test")
    /\ \/ /\ Waiting(on[t]) # {}
          /\ Goes(t, "rs_one", on[t]) /\ UNCHANGED k
       \/ /\ Waiting(on[t]) = {} /\ on[t] = PopList
          /\ Goes(t, "rs_test", PushList) /\ UNCHANGED k
       \/ /\ Waiting(on[t]) = {} /\ on[t] = PushList
          /\ k' = rt_schedule([k EXCEPT !.lock = @ - 1])
          /\ Goes(t, "sched", NoObject)
    /\ UNCHANGED <<open, corrupt, dataVars, limit>>

\* A timeout may have emptied the list since the test.
ResetOne(t) ==
    /\ Runs(t, "rs_one")
    /\ IF k.list[on[t]] # <<>>
       THEN k' = ResumeFirst(on[t]) /\ Goes(t, "rs_test", on[t]) /\ UNCHANGED corrupt
       ELSE corrupt' = TRUE /\ UNCHANGED <<k, pc, on>>
    /\ UNCHANGED <<open, dataVars, limit>>

-----------------------------------------------------------------------------
Step(t) ==
    \/ Push(t) \/ Pop(t) \/ Fails(t) \/ Reset(t) \/ ResetTest(t) \/ ResetOne(t)
    \/ \E timed \in BOOLEAN : PushWait(t, timed) \/ PopWait(t, timed)
    \/ /\ \/ WaitSchedule(t) \/ Schedule(t)
          \/ Sleep(t) \/ SleepSchedule(t) \/ SleepReturn(t)
       /\ UNCHANGED <<dataVars, limit>>

Next ==
    \/ \E t \in App : Step(t)
    \/ PushIsr \/ PopIsr \/ PushFails
    \/ Tick /\ UNCHANGED <<dataVars, limit>>

Spec == Init /\ [][Next]_vars

-----------------------------------------------------------------------------
\* No data is overwritten and none is read twice: the slots between the indices
\* hold the data of the pushes that were not popped, in order.
DataInOrder ==
    /\ put_index - get_index \in 0 .. SIZE
    /\ \A i \in get_index .. put_index - 1 : slot[i % SIZE] = i

\* While a thread waits for data, every item in the queue has a thread that was
\* resumed for it and has not yet looked.
NoLostPop ==
    ~corrupt /\ Waiting(PopList) # {} =>
        put_index - get_index <= Cardinality(Resumed(PopList))

\* One thread that waits for space is not forgotten: waiting_lwm is still raised,
\* so the pop that reaches the low water mark will resume it.
PusherAwaited == ~corrupt /\ Waiting(PushList) # {} => waiting_lwm /\ put_index - get_index > LWM
=============================================================================
