----------------------------- MODULE MCServices -----------------------------
(***************************************************************************)
(* Small instances of the kernel services and drivers besides the IPC      *)
(* objects: memory pools, the life of threads, hard and soft timers,       *)
(* completions, the serial driver, the work queue, the data queue, the     *)
(* ring buffer, the heap, and the reader-writer lock and the barrier of    *)
(* the pthreads library.  They do not interact; Init chooses one of them   *)
(* (part), its steps are the steps of the behaviour, and the variables of  *)
(* the others keep their values.  The parts over module Ipc share its      *)
(* variables.                                                              *)
(***************************************************************************)
EXTENDS MemPool, Completion, Libraries

CONSTANTS
    a, b, c,                       \* application threads
    pool, waiters, defunct, done, pushers, poppers,     \* lists
    b1, b2, w1, w2,                \* blocks, work items
    h1, h2, h3, s1, s2, caller,    \* timers, and who controls them
    NIL

VARIABLES
    type, freed, target, detached, botched,
    opost, todo, moved, fifo, queue, tx_started, hw, out, rx,
    work_list, item, running, wakes,
    put_index, get_index, waiting_lwm, slot,
    tick, s, tpc, arg, isr, tt, tcorrupt

lifeVars   == <<type, freed, target, detached, botched>>
writeVars  == <<opost, todo, moved, fifo, tx_started, hw, out>>
workVars   == <<work_list, item, running, wakes>>
dataVars   == <<put_index, get_index, waiting_lwm, slot>>
timerVars  == <<tick, s, tpc, arg, isr, tt, tcorrupt>>
allVars == <<part, ipcVars, poolVars, limit, lifeVars, completed, writeVars, queue, rx,
             workVars, dataVars, timerVars, libraryVars>>

-----------------------------------------------------------------------------
(* The instances.  a has the highest priority, b and c share the next.  All    *)
(* of them have the threads, priorities and lists of the configuration.        *)

Prios == [t \in Thread |-> IF t = Idle THEN 2 ELSE IF t = a THEN 0 ELSE 1]
Fifo  == [l \in List |-> "FIFO"]
OnlyA == [x \in {done} |-> a]

\* a is static and without cleanup, c static with one, b dynamic with one.
TL == INSTANCE ThreadLife WITH
        WaitList <- waiters, Defunct <- defunct, Static <- {a, c}, HasCleanup <- {b, c},
        Kills <- {<<a, b>>, <<b, a>>, <<b, c>>, <<b, b>>}, NoThread <- NIL,
        LOCK_MAX <- 2

\* b does not block; a discards output.
SW == INSTANCE SerialWrite WITH
        Writers <- {a, b}, Nonblock <- {b}, Discards <- {a}, TXFIFO <- 2,
        Text <- [t \in {a, b} |-> IF t = a THEN <<"chr", "nl", "chr">>
                                  ELSE <<"chr", "tab", "nl">>]

SR == INSTANCE SerialRead WITH Reader <- a, RXFIFO <- 3, BURST <- 2

WQ == INSTANCE WorkQueue WITH
        Worker <- a, Work <- {w1, w2}, NoWork <- NIL, Cancels <- {b, c}

\* b pushes, a and c pop.
DQ == INSTANCE DataQueue WITH
        PushList <- pushers, PopList <- poppers, Pushers <- {b},
        SIZE <- 2, LWM <- 1, INDEX_MAX <- 3

\* Three hard timers; h1 is periodic and its timeout function controls h1 and h2.
HT == INSTANCE Timer WITH
        Timers <- {h1, h2, h3}, Soft <- {}, Periodic <- {h1}, TICK_MAX <- 7,
        Ticks <- (h1 :> {1, 2} @@ h2 :> {2} @@ h3 :> {1}),
        Caller <- {caller}, Controls <- [x \in {caller} |-> {h1, h3}],
        CallbackControls <- [t \in {h1, h2, h3} |-> IF t = h1 THEN {h1, h2} ELSE {}],
        Handled <- {}, DELAY_MAX <- 0, pc <- tpc, corrupt <- tcorrupt

\* Two soft timers.  s1 is periodic, a thread controls it; an interrupt handler starts
\* and stops s2, whose timeout function controls both.
ST == INSTANCE Timer WITH
        Timers <- {s1, s2}, Soft <- {s1, s2}, Periodic <- {s1}, TICK_MAX <- 7,
        Ticks <- (s1 :> {1} @@ s2 :> {2}),
        Caller <- {caller}, Controls <- [x \in {caller} |-> {s1}],
        CallbackControls <- [t \in {s1, s2} |-> IF t = s1 THEN {} ELSE {s1, s2}],
        Handled <- {s2}, DELAY_MAX <- 0, pc <- tpc, corrupt <- tcorrupt

-----------------------------------------------------------------------------
(* The composition *)

\* The parts that do not use the kernel, and the kernel's state in them.
Library == {"ring", "rwlock", "barrier", "heap"}
NoKernel == {"hard", "soft"} \cup Library

IpcRests ==
    /\ k = CHOOSE kk \in KernelInits(Thread) : TRUE
    /\ open = Object /\ corrupt = FALSE
    /\ pc = [t \in Thread |-> "run"] /\ on = [t \in Thread |-> NoObject]

Init ==
    /\ part \in {"pool", "threads", "completion", "write", "read", "work", "data",
                 "hard", "soft", "ring", "heap", "rwlock", "barrier"}
    /\ CASE part = "pool"       -> MpInit
         [] part = "threads"    -> TL!Init
         [] part = "completion" -> CpInit
         [] part = "write"      -> SW!Init
         [] part = "read"       -> SR!Init
         [] part = "work"       -> WQ!Init
         [] part = "data"       -> DQ!Init
         [] OTHER               -> IpcRests
    /\ PoolInit /\ TL!LifeInit /\ completed = {} /\ WQ!WorkInit /\ DQ!DataInit
    /\ SR!ReadInit /\ SW!WriteInit /\ (part # "write" => opost)
    /\ IF part = "hard" THEN HT!Init
       ELSE ST!Init
    /\ LibrariesInit /\ (part # "ring" => role = "alone")
    /\ part # "barrier" => total = COUNT

\* The variables v belong to other parts only.
Rest(parts, v) == IF part \in parts THEN TRUE ELSE UNCHANGED v

Next ==
    /\ \/ part = "pool"       /\ MpNext
       \/ part = "threads"    /\ TL!Next
       \/ part = "completion" /\ CpNext
       \/ part = "write"      /\ SW!Next
       \/ part = "read"       /\ SR!Next
       \/ part = "work"       /\ WQ!Next
       \/ part = "data"       /\ DQ!Next
       \/ part = "hard"       /\ HT!Next
       \/ part = "soft"       /\ ST!Next
       \/ part \in Library    /\ LibrariesNext
    /\ UNCHANGED part
    /\ IF part \in NoKernel THEN UNCHANGED ipcVars ELSE TRUE
    /\ Rest({"pool"}, poolVars) /\ Rest({"pool", "data"}, limit)
    /\ Rest({"threads"}, lifeVars) /\ Rest({"completion"}, completed)
    /\ Rest({"write"}, writeVars) /\ Rest({"read"}, rx)
    /\ Rest({"write", "read"}, queue)
    /\ Rest({"work"}, workVars) /\ Rest({"data"}, dataVars)
    /\ Rest({"hard", "soft"}, timerVars) /\ Rest(Library, libraryVars)

Spec == Init /\ [][Next]_allVars

\* What tells two states apart: the variables of the part; of the timers, only the
\* timeout_tick and left that will still be read; of the kernel, thread->error only in
\* a wait, before which it is set and after which it is read.
Read == [t \in Thread |-> IF pc[t] \in {"wait_sched", "wait_ret"} THEN k.error[t] ELSE "EOK"]
Due == IF part = "hard" THEN HT!Pending ELSE ST!Pending
View ==
    IF part \in {"hard", "soft"}
    THEN <<part, tick, tpc, arg, isr.at, isr.t, tcorrupt,
           [tt EXCEPT !.now = IF tt.at = "loop" THEN @ ELSE 0],
           [s EXCEPT !.timeout_tick = [t \in DOMAIN @ |-> IF t \in Due \cup {tt.n} THEN @[t] ELSE 0],
                     !.left = [t \in DOMAIN @ |-> IF t \in Due THEN @[t] ELSE 0]]>>
    ELSE IF part \in NoKernel THEN <<part, libraryVars>>
    ELSE <<part, [k EXCEPT !.error = Read], open, pc, on, corrupt, poolVars, limit, lifeVars,
           completed, writeVars, queue, rx, workVars, dataVars>>

-----------------------------------------------------------------------------
(* The properties of the parts *)

\* Threads: one that was deleted, detached or has exited never runs again and
\* leaves exact ready lists behind; the idle thread frees each dead dynamic thread
\* once and loses none but one that was interrupted in its own deletion
\* (thread.c:448); it frees a static one only when that has a cleanup function and
\* was detached (idle.c:194, against the comment of idle.c:193).  Threads that are
\* botched are excepted: their timer expired between the first two steps of their
\* deletion (thread.c:341-345, 441-445), or their killer was killed.
DeadStaysDead ==
    part = "threads" =>
        TL!DeadStaysDead /\ TL!ReadyComplete /\ TL!NoLeak /\ TL!StaticNeverFreed

\* rt_enter_critical and rt_exit_critical: no switch happens while the scheduler
\* is locked, and the ones held back are made up for when it is unlocked, so that the
\* highest priority runs (unless a botched thread does, see DeadStaysDead).
LockRespected == [](part = "threads" => TL!PreemptiveUnlocked) /\ TL!LockHolds

\* Timers, as long as no two start the same one at once (rt_timer_start computes
\* timeout_tick between two sections, timer.c:315-329): the lists are sorted by real
\* time although ticks wrap; the flag that rt_timer_stop trusts is right for every
\* timer that nobody is working on and that was not in a list when its flag was
\* cleared (FlagAgrees); and the timer thread does not sleep past a soft timer,
\* unless the first one is due at the tick RT_TICK_MAX or an interrupt or a thread
\* started one between its look at the list and its sleep (TimerThreadSees).
TimersInOrder ==
    /\ part = "hard" /\ ~tcorrupt => HT!Sorted /\ HT!FlagAgrees
    /\ part = "soft" /\ ~tcorrupt => ST!Sorted /\ ST!FlagAgrees /\ ST!TimerThreadSees

\* Timers: none fires early; none fires without being started, but for the soft timer
\* whose node the timer thread saved before it called a timeout function, and which
\* was stopped or started again meanwhile (timer.c:597); no hard timer that is due is
\* left when the tick interrupt ends; and those of one tick fire in the order in
\* which they were started.
TimersFireInTime ==
    /\ HT!NeverEarly /\ HT!NoneOverdue /\ HT!StableOrder
    /\ ST!NeverEarly /\ ST!StableOrder

\* Serial driver: characters in the transmit FIFO are on their way out, no writer
\* sleeps for good, raw output loses no character, and a reader whose node is
\* queued and who sleeps has missed no character of the receive interrupt.
SerialServed ==
    /\ part = "write" => SW!TxFlows /\ SW!SleepersAwaited /\ SW!NoCharacterLost
    /\ part = "read"  => SR!NoMissedInput

\* Work queue: no work is left in the list while the work thread sleeps and
\* nobody is on the way to resume it.
NoWorkForgotten == part = "work" => WQ!NoWorkForgotten

\* Data queue: data stay in order and are not overwritten, and no wake-up of a
\* waiting reader or of the waiting writer is lost.
DataQueueSound ==
    part = "data" => DQ!DataInOrder /\ DQ!NoLostPop /\ DQ!PusherAwaited
=============================================================================
