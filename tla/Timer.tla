------------------------------- MODULE Timer -------------------------------
(***************************************************************************)
(* The timers of src/timer.c and the tick of src/clock.c.  Hard timers are *)
(* checked by the tick interrupt, soft timers by the timer thread.  The    *)
(* two lists are sorted by timeout_tick, a counter that wraps; order and   *)
(* expiry are decided by differences modulo the word (one skip-list level, *)
(* RT_TIMER_SKIP_LIST_LEVEL = 1).                                          *)
(*                                                                         *)
(* rt_timer_start and rt_timer_stop are several steps with interrupts      *)
(* enabled between them; a caller is a thread, or an interrupt handler,    *)
(* that is at one of these places:                                         *)
(*   "run"           in no call                                            *)
(*   "start_calc"    removed the timer, has not yet computed timeout_tick  *)
(*   "start_insert"  has not yet inserted it                               *)
(*   "start_resume"  has not yet looked at the timer thread                *)
(*   "stop_remove"   found the timer active, has not yet removed it        *)
(*   "stop_flag"     has not yet cleared RT_TIMER_FLAG_ACTIVATED           *)
(* The tick interrupt is at "off", "check" (its loop), "call" (a timeout   *)
(* function) or "after" (back from it).  The timer thread is at            *)
(*   "next"          before rt_timer_list_next_timeout                     *)
(*   "suspend", "suspended"    about to suspend itself, suspended          *)
(*   "sleep", "asleep"         about to sleep, asleep for tt.wake ticks    *)
(*   "start", "loop", "call", "after"    in rt_soft_timer_check            *)
(***************************************************************************)
EXTENDS Integers, Sequences, FiniteSets, SequencesExt

CONSTANTS
    Timers,
    Soft,              \* RT_TIMER_FLAG_SOFT_TIMER
    Periodic,          \* RT_TIMER_FLAG_PERIODIC when the timer is initialised
    TICK_MAX,          \* RT_TICK_MAX, one less than a power of two
    Ticks,             \* [Timers -> SUBSET Nat], the values of init_tick
    Caller,
    Controls,          \* [Caller -> SUBSET Timers], the timers a caller controls
    CallbackControls,  \* [Timers -> SUBSET Timers], likewise a timeout function
    Handled,           \* the timers that other interrupt handlers start and stop
    DELAY_MAX,         \* how many ticks a caller or the timer thread may be late
    NIL

VARIABLES
    tick,      \* rt_tick
    s,         \* the timers
    pc, arg,   \* where a caller is, and with which timer
    isr,       \* the tick interrupt: [at, t, now], now its current_tick
    tt,        \* the timer thread: [at, t, n, now, wake, lag, blind, lost]
    corrupt    \* a timer that was in a list got another timeout_tick, or was linked
               \* into a list again

vars == <<tick, s, pc, arg, isr, tt, corrupt>>

(***************************************************************************)
(* s.list          rt_timer_list and rt_soft_timer_list                    *)
(* s.timeout_tick, s.init_tick, s.periodic, s.active    of every timer;    *)
(*                 active is RT_TIMER_FLAG_ACTIVATED                       *)
(* tt.t, tt.n, tt.now   t, n and current_tick of rt_soft_timer_check       *)
(* tt.wake         the ticks the timer thread is going to sleep            *)
(*                                                                         *)
(* No part of the code, but of what the properties say:                    *)
(* s.left          the ticks until a started timer is due, not wrapped     *)
(* s.unflagged     the timers that were in a list when their flag was      *)
(*                 cleared, and have not left it since                     *)
(* tt.lag          the ticks that passed since tt.wake was computed        *)
(* tt.blind        the thread goes to sleep, or sleeps, without knowing of *)
(*                 a soft timer: it took a timeout_tick of RT_TICK_MAX for *)
(*                 an empty list, or a timer was started after it looked   *)
(*                 and found it ready                                      *)
(* tt.lost         somebody took tt.n out of the list                      *)
(***************************************************************************)
HALF == TICK_MAX \div 2

Minus(x, y) == (x - y) % (TICK_MAX + 1)

ListOf(t) == IF t \in Soft THEN "soft" ELSE "hard"

Started(ss) == ToSet(ss.list["hard"]) \cup ToSet(ss.list["soft"])

Init ==
    /\ tick = 0
    /\ s \in [list : {[l \in {"hard", "soft"} |-> <<>>]},
              timeout_tick : {[t \in Timers |-> 0]},
              init_tick : {n \in [Timers -> UNION Range(Ticks)] : \A t \in Timers : n[t] \in Ticks[t]},
              periodic : {Periodic}, active : {{}},
              left : {[t \in Timers |-> 0]}, unflagged : {{}}]
    /\ pc = [c \in Caller |-> "run"]
    /\ arg = [c \in Caller |-> NIL]
    /\ isr = [at |-> "off", t |-> NIL, now |-> 0]
    /\ tt = [at |-> "next", t |-> NIL, n |-> NIL, now |-> 0, wake |-> 0, lag |-> 0,
             blind |-> FALSE, lost |-> FALSE]
    /\ corrupt = FALSE

-----------------------------------------------------------------------------
(* The sections of rt_timer_start and rt_timer_stop *)

_rt_timer_remove(ss, t) ==
    [ss EXCEPT !.list = [l \in DOMAIN @ |-> RemoveFirst(@[l], t)], !.unflagged = @ \ {t}]

Deactivate(ss, t) ==
    [ss EXCEPT !.active = @ \ {t}, !.unflagged = @ \cup ({t} \cap Started(ss))]

Compute(ss, t) ==
    [ss EXCEPT !.timeout_tick[t] = (tick + ss.init_tick[t]) % (TICK_MAX + 1),
               !.left[t] = ss.init_tick[t]]

\* Slip: a timer of the same tick is passed over.
BeforeEqual(ss, t, u) == Minus(ss.timeout_tick[u], ss.timeout_tick[t]) < HALF

\* t comes before u in the list: u's timeout is later and not the same.
Before(ss, t, u) ==
    LET d == Minus(ss.timeout_tick[u], ss.timeout_tick[t]) IN d # 0 /\ d < HALF

Insert(ss, t) ==
    LET q == ss.list[ListOf(t)]
        i == SelectInSeq(q, LAMBDA u : Before(ss, t, u))
    IN  [ss EXCEPT !.list[ListOf(t)] = IF i = 0 THEN Append(q, t) ELSE InsertAt(q, i, t),
                   !.active = @ \cup {t}]

\* The whole of rt_timer_start, where nothing comes in between.
rt_timer_start(ss, t) == Insert(Compute(Deactivate(_rt_timer_remove(ss, t), t), t), t)

rt_timer_stop(ss, t) ==
    IF t \in ss.active THEN Deactivate(_rt_timer_remove(ss, t), t) ELSE ss

Wakes(th) == [th EXCEPT !.at = "start", !.wake = 0, !.lag = 0, !.blind = FALSE]

\* Slip: the timer thread is resumed only when it waits for a soft timer.
ResumesSleeper(th, t) == IF t \in Soft /\ th.at = "asleep" THEN Wakes(th) ELSE th

\* The end of rt_timer_start: the timer thread is resumed unless it is ready.
ResumesTimerThread(th, t) ==
    IF t \in Soft /\ th.at \in {"asleep", "suspended"} THEN Wakes(th)
    ELSE IF t \in Soft /\ th.at \in {"sleep", "suspend"} THEN [th EXCEPT !.blind = TRUE]
    ELSE th

\* The timer thread th, when the timers change from s to ss behind its back.
Notes(th, ss) ==
    IF th.n \in ToSet(s.list["soft"]) \ ToSet(ss.list["soft"])
    THEN [th EXCEPT !.lost = TRUE] ELSE th

-----------------------------------------------------------------------------
(* Callers *)

\* c executes: no interrupt handler runs, and the timer thread has not locked the
\* scheduler.
Runs(c, label) ==
    /\ ~corrupt /\ isr.at = "off" /\ pc[c] = label
    /\ tt.at \notin {"loop", "after"}

Goes(c, label, t) == pc' = [pc EXCEPT ![c] = label] /\ arg' = [arg EXCEPT ![c] = t]

StartRemove(c, t) ==
    /\ Runs(c, "run") /\ t \in Controls[c]
    /\ s' = Deactivate(_rt_timer_remove(s, t), t)
    /\ tt' = Notes(tt, s')
    /\ Goes(c, "start_calc", t)
    /\ UNCHANGED <<tick, isr, corrupt>>

StartCalc(c) ==
    /\ Runs(c, "start_calc")
    /\ corrupt' = (arg[c] \in Started(s))
    /\ s' = Compute(s, arg[c])
    /\ Goes(c, "start_insert", arg[c])
    /\ UNCHANGED <<tick, isr, tt>>

StartInsert(c) ==
    /\ Runs(c, "start_insert")
    /\ corrupt' = (arg[c] \in Started(s))
    /\ s' = Insert(s, arg[c])
    /\ IF arg[c] \in Soft THEN Goes(c, "start_resume", arg[c]) ELSE Goes(c, "run", NIL)
    /\ UNCHANGED <<tick, isr, tt>>

StartResume(c) ==
    /\ Runs(c, "start_resume")
    /\ tt' = ResumesTimerThread(tt, arg[c])
    /\ Goes(c, "run", NIL)
    /\ UNCHANGED <<tick, s, isr, corrupt>>

\* -RT_ERROR, without a change, when the timer is not active
StopTest(c, t) ==
    /\ Runs(c, "run") /\ t \in Controls[c] /\ t \in s.active
    /\ Goes(c, "stop_remove", t)
    /\ UNCHANGED <<tick, s, isr, tt, corrupt>>

StopRemove(c) ==
    /\ Runs(c, "stop_remove")
    /\ s' = _rt_timer_remove(s, arg[c])
    /\ tt' = Notes(tt, s')
    /\ Goes(c, "stop_flag", arg[c])
    /\ UNCHANGED <<tick, isr, corrupt>>

StopFlag(c) ==
    /\ Runs(c, "stop_flag")
    /\ s' = Deactivate(s, arg[c])
    /\ Goes(c, "run", NIL)
    /\ UNCHANGED <<tick, isr, tt, corrupt>>

\* rt_timer_control: SET_TIME, SET_ONESHOT and SET_PERIODIC
Controlled(ss, t) ==
    {[ss EXCEPT !.init_tick[t] = n] : n \in Ticks[t]}
      \cup {[ss EXCEPT !.periodic = @ \cup {t}], [ss EXCEPT !.periodic = @ \ {t}]}

Control(c, t) ==
    /\ Runs(c, "run") /\ t \in Controls[c]
    /\ s' \in Controlled(s, t)
    /\ UNCHANGED <<tick, pc, arg, isr, tt, corrupt>>

\* rt_timer_detach or rt_timer_delete, and the timer initialised again
Reinit(c, t) ==
    /\ Runs(c, "run") /\ t \in Controls[c]
    /\ \E n \in Ticks[t] :
         s' = [Deactivate(_rt_timer_remove(s, t), t) EXCEPT
                 !.timeout_tick[t] = 0, !.init_tick[t] = n,
                 !.periodic = IF t \in Periodic THEN @ \cup {t} ELSE @ \ {t}]
    /\ tt' = Notes(tt, s')
    /\ UNCHANGED <<tick, pc, arg, isr, corrupt>>

-----------------------------------------------------------------------------
(* The tick interrupt: rt_tick_increase and rt_timer_check *)

\* The timers whose timeout_tick was computed.
Pending == Started(s) \cup {arg[c] : c \in {d \in Caller : pc[d] = "start_insert"}}

\* A caller between its steps, and the timer thread, are not too late.
InTime ==
    /\ \A t \in Pending : s.left[t] > -DELAY_MAX
    /\ tt.at = "sleep" => tt.lag < DELAY_MAX
    /\ tt.at = "loop" => Minus(tick, tt.now) <= DELAY_MAX

Tick ==
    /\ ~corrupt /\ isr.at = "off" /\ InTime
    /\ tick' = Minus(tick + 1, 0)
    /\ s' = [s EXCEPT !.left = [t \in Timers |-> IF t \in Pending THEN @[t] - 1 ELSE @[t]]]
    /\ isr' = [at |-> "check", t |-> NIL, now |-> tick']
    \* rt_thread_timeout of the timer thread's own timer
    /\ tt' = IF tt.at = "sleep" THEN [tt EXCEPT !.lag = @ + 1]
             ELSE IF tt.at # "asleep" THEN tt
             ELSE IF tt.wake <= 1 THEN Wakes(tt)
             ELSE [tt EXCEPT !.wake = @ - 1]
    /\ UNCHANGED <<pc, arg, corrupt>>

Expired(now, t) == Minus(now, s.timeout_tick[t]) < HALF

CheckExpire ==
    /\ isr.at = "check" /\ s.list["hard"] # <<>>
    /\ LET t == Head(s.list["hard"])
       IN  /\ Expired(isr.now, t)
           /\ s' = _rt_timer_remove(s, t)
           /\ isr' = [isr EXCEPT !.at = "call", !.t = t]
    /\ UNCHANGED <<tick, pc, arg, tt, corrupt>>

CheckDone ==
    /\ isr.at = "check"
    /\ s.list["hard"] # <<>> => ~Expired(isr.now, Head(s.list["hard"]))
    /\ isr' = [at |-> "off", t |-> NIL, now |-> 0]
    /\ UNCHANGED <<tick, s, pc, arg, tt, corrupt>>

\* What the timeout function of t can make of the timers and the timer thread.
Callback(t) ==
    {[s |-> s, tt |-> tt]} \cup
    UNION {{[s |-> rt_timer_stop(s, u), tt |-> tt],
            [s |-> rt_timer_start(s, u), tt |-> ResumesTimerThread(tt, u)]}
             \cup {[s |-> c, tt |-> tt] : c \in Controlled(s, u)} :
           u \in CallbackControls[t]}

IsrCallback ==
    /\ isr.at = "call"
    /\ \E r \in Callback(isr.t) : s' = r.s /\ tt' = Notes(r.tt, r.s)
    /\ isr' = [isr EXCEPT !.at = "after"]
    /\ UNCHANGED <<tick, pc, arg, corrupt>>

\* A periodic timer that was not stopped is started again; the flag of the
\* others is cleared, also when they were started again.
Afterwards(ss, t) ==
    IF t \in ss.periodic /\ t \in ss.active THEN rt_timer_start(ss, t)
    ELSE Deactivate(ss, t)

IsrAfter ==
    /\ isr.at = "after"
    /\ s' = Afterwards(s, isr.t)
    /\ isr' = [at |-> "check", t |-> NIL, now |-> tick]
    /\ UNCHANGED <<tick, pc, arg, tt, corrupt>>

\* Another interrupt handler starts or stops a timer.
HandlerStart(t) ==
    /\ ~corrupt /\ isr.at = "off" /\ t \in Handled
    /\ s' = rt_timer_start(s, t)
    /\ tt' = Notes(ResumesTimerThread(tt, t), s')
    /\ UNCHANGED <<tick, pc, arg, isr, corrupt>>

HandlerStop(t) ==
    /\ ~corrupt /\ isr.at = "off" /\ t \in Handled
    /\ s' = rt_timer_stop(s, t)
    /\ tt' = Notes(tt, s')
    /\ UNCHANGED <<tick, pc, arg, isr, corrupt>>

-----------------------------------------------------------------------------
(* The timer thread: rt_thread_timer_entry and rt_soft_timer_check.  It runs  *)
(* whenever it is ready and no interrupt handler does; which of it and a      *)
(* caller runs is left open.                                                  *)

\* Without RT_USING_TIMER_SOFT there are no soft timers and no timer thread.
TimerThread(label) == Soft # {} /\ ~corrupt /\ isr.at = "off" /\ tt.at = label

\* rt_timer_list_next_timeout: RT_TICK_MAX stands for an empty list.
rt_timer_list_next_timeout(l) ==
    IF s.list[l] = <<>> THEN TICK_MAX ELSE s.timeout_tick[Head(s.list[l])]

\* The head is read and the delay computed; the thread sleeps at least one tick.
NextTimeout ==
    LET next == rt_timer_list_next_timeout("soft")
        d == Minus(next, tick)
    IN  /\ TimerThread("next")
        /\ tt' = IF next = TICK_MAX
                 THEN [tt EXCEPT !.at = "suspend", !.blind = s.list["soft"] # <<>>]
                 ELSE IF d < HALF THEN [tt EXCEPT !.at = "sleep", !.wake = d]
                 ELSE [tt EXCEPT !.at = "start"]
        /\ UNCHANGED <<tick, s, pc, arg, isr, corrupt>>

FallsAsleep ==
    /\ TimerThread("sleep") \/ TimerThread("suspend")
    /\ tt' = [tt EXCEPT !.at = IF @ = "sleep" THEN "asleep" ELSE "suspended"]
    /\ UNCHANGED <<tick, s, pc, arg, isr, corrupt>>

\* The node that follows t; one that was removed is linked to itself.
NextNode(t) ==
    LET q == s.list["soft"]
        i == IndexFirstSubSeq(<<t>>, q)
    IN  IF t \notin ToSet(q) THEN t ELSE IF i = Len(q) THEN NIL ELSE q[i + 1]

SoftStart ==
    /\ TimerThread("start")
    /\ tt' = [tt EXCEPT !.at = "loop", !.now = tick, !.lost = FALSE,
                        !.n = IF s.list["soft"] = <<>> THEN NIL ELSE Head(s.list["soft"])]
    /\ UNCHANGED <<tick, s, pc, arg, isr, corrupt>>

SoftExpire ==
    /\ TimerThread("loop") /\ tt.n # NIL
    /\ Expired(tt.now, tt.n)
    /\ tt' = [tt EXCEPT !.at = "call", !.t = tt.n, !.n = NextNode(tt.n)]
    /\ s' = _rt_timer_remove(s, tt.n)
    /\ UNCHANGED <<tick, pc, arg, isr, corrupt>>

SoftDone ==
    /\ TimerThread("loop")
    /\ tt.n # NIL => ~Expired(tt.now, tt.n)
    /\ tt' = [tt EXCEPT !.at = "next", !.n = NIL, !.now = 0, !.lost = FALSE]
    /\ UNCHANGED <<tick, s, pc, arg, isr, corrupt>>

SoftCallback ==
    /\ TimerThread("call")
    /\ \E r \in Callback(tt.t) : s' = r.s /\ tt' = [Notes(tt, r.s) EXCEPT !.at = "after"]
    /\ UNCHANGED <<tick, pc, arg, isr, corrupt>>

SoftAfter ==
    /\ TimerThread("after")
    /\ s' = Afterwards(s, tt.t)
    /\ tt' = [tt EXCEPT !.at = "loop", !.t = NIL, !.now = tick]
    /\ UNCHANGED <<tick, pc, arg, isr, corrupt>>

-----------------------------------------------------------------------------
Call(c) ==
    \/ \E t \in Timers : StartRemove(c, t) \/ StopTest(c, t) \/ Control(c, t) \/ Reinit(c, t)
    \/ StartCalc(c) \/ StartInsert(c) \/ StartResume(c) \/ StopRemove(c) \/ StopFlag(c)

Interrupt ==
    \/ Tick \/ CheckExpire \/ CheckDone \/ IsrCallback \/ IsrAfter
    \/ \E t \in Timers : HandlerStart(t) \/ HandlerStop(t)

SoftThread ==
    \/ NextTimeout \/ FallsAsleep \/ SoftStart \/ SoftExpire \/ SoftDone
    \/ SoftCallback \/ SoftAfter

Next == Interrupt \/ SoftThread \/ \E c \in Caller : Call(c)

Spec == Init /\ [][Next]_vars

-----------------------------------------------------------------------------
\* Both lists are sorted by the real time of expiry, although the order is
\* decided by differences of a counter that wraps.
Sorted ==
    \A l \in {"hard", "soft"} : \A i, j \in 1 .. Len(s.list[l]) :
        i < j => s.left[s.list[l][i]] <= s.left[s.list[l][j]]

\* The timer whose timeout function a step calls.
Fires(t) ==
    \/ isr.at = "check" /\ isr'.at = "call" /\ isr'.t = t
    \/ tt.at = "loop" /\ tt'.at = "call" /\ tt'.t = t

\* Only a timer that is started fires, and not before its time, but for the node that
\* the timer thread keeps while it calls a timeout function: it fires although
\* somebody stopped it in the meantime (timer.c:597).
NeverEarly ==
    [][\A t \in Timers : Fires(t) =>
         IF t \in Started(s) THEN s.left[t] <= 0 ELSE tt.n = t /\ tt.lost]_vars

\* When the tick interrupt ends no hard timer is overdue: one that is due is
\* found whatever was started, stopped or restarted in the timeout functions.
NoneOverdue ==
    [][isr.at = "check" /\ isr'.at = "off" =>
         \A i \in 1 .. Len(s.list["hard"]) : s.left[s.list["hard"][i]] > 0]_vars

\* "it's preferred that the timer inserted early get called early": a timer is
\* inserted behind those that are due at the same time.
StableOrder ==
    [][\A l \in {"hard", "soft"}, t \in Timers :
         t \in ToSet(s'.list[l]) /\ t \notin ToSet(s.list[l]) =>
            \A i, j \in 1 .. Len(s'.list[l]) :
               s'.list[l][i] = t /\ j > i => s'.left[s'.list[l][j]] > s'.left[t]]_vars

\* The timers whose state some caller, or the end of a check, is about to change.
Busy == {arg[c] : c \in Caller} \cup {isr.t, tt.t}

\* RT_TIMER_FLAG_ACTIVATED says of every timer whether it is in a list, so that
\* rt_timer_stop, which trusts the flag, can stop every timer that will fire, but
\* for one that was started again before its flag was cleared: a one-shot timer while
\* its timeout function ran (timer.c:542, 626), or any timer by an interrupt or the
\* timer thread while rt_timer_stop had removed it only (timer.c:437-444).
FlagAgrees ==
    \A t \in Timers \ Busy : t \in s.active <=> t \in Started(s) /\ t \notin s.unflagged

\* The timer thread does not sleep past a soft timer: while it is suspended
\* there is none, and while it sleeps none is due before it wakes but for the
\* ticks that passed before it fell asleep, unless the one who started the timer
\* has yet to resume it.  It may when tt.blind: the first timer was due at the tick
\* RT_TICK_MAX, which stands for an empty list (timer.c:113, 647), or one was started
\* between its look at the list and its sleep, when it is ready (timer.c:402, 646-650).
TimerThreadSees ==
    tt.blind \/ \A t \in ToSet(s.list["soft"]) :
        \/ \E c \in Caller : pc[c] = "start_resume"
        \/ tt.at # "suspended" /\ (tt.at = "asleep" => tt.wake <= 1 \/ tt.wake <= s.left[t] + tt.lag)
=============================================================================
