--------------------------- MODULE SemaphoreSpec ---------------------------
(***************************************************************************)
(* What a semaphore promises to the threads that use it, without the       *)
(* kernel that implements it: a token goes to the thread that is next in   *)
(* line or, when nobody is in line, stays available; a thread that waits   *)
(* is given exactly one token or is refused, never both.                   *)
(*                                                                         *)
(* A RT_IPC_FLAG_FIFO semaphore has one line; a RT_IPC_FLAG_PRIO semaphore *)
(* has one per priority and serves the highest that is not empty.          *)
(***************************************************************************)
EXTENDS Integers, Sequences, SequencesExt

CONSTANTS Thread, Sem, Flag, Prio, PrioOf, InitValue,
    Resets     \* the values a reset or a new creation may give a semaphore

VARIABLES
    avail,     \* [Sem -> Nat], the tokens nobody has taken
    line,      \* [Sem -> [Prio -> Seq(Thread)]]
    given,     \* [Sem -> SUBSET Thread], out of line with a token
    refused    \* [Sem -> SUBSET Thread], out of line without one

vars == <<avail, line, given, refused>>

Init ==
    /\ avail = [s \in Sem |-> InitValue]
    /\ line = [s \in Sem |-> [p \in Prio |-> <<>>]]
    /\ given = [s \in Sem |-> {}]
    /\ refused = [s \in Sem |-> {}]

LineOf(s, t) == IF Flag[s] = "FIFO" THEN 0 ELSE PrioOf[t]

Lines(s) == {p \in Prio : line[s][p] # <<>>}

InUse(t) ==
    \E s \in Sem :
        t \in given[s] \cup refused[s] \cup UNION {ToSet(line[s][p]) : p \in Prio}

Take(s) ==
    /\ avail[s] > 0
    /\ avail' = [avail EXCEPT ![s] = @ - 1]
    /\ UNCHANGED <<line, given, refused>>

Wait(t, s) ==
    /\ avail[s] = 0 /\ ~InUse(t)
    /\ line' = [line EXCEPT ![s][LineOf(s, t)] = Append(@, t)]
    /\ UNCHANGED <<avail, given, refused>>

Release(s) ==
    /\ UNCHANGED refused
    /\ IF Lines(s) = {}
       THEN avail' = [avail EXCEPT ![s] = @ + 1] /\ UNCHANGED <<line, given>>
       ELSE LET p == Min(Lines(s))
            IN  /\ given' = [given EXCEPT ![s] = @ \cup {Head(line[s][p])}]
                /\ line' = [line EXCEPT ![s][p] = Tail(@)]
                /\ UNCHANGED avail

\* A timeout, a reset or a deletion.
Refuse(t, s, p) ==
    /\ t \in ToSet(line[s][p])
    /\ line' = [line EXCEPT ![s][p] = RemoveFirst(@, t)]
    /\ refused' = [refused EXCEPT ![s] = @ \cup {t}]
    /\ UNCHANGED <<avail, given>>

Return(t, s) ==
    /\ t \in given[s] \cup refused[s]
    /\ given' = [given EXCEPT ![s] = @ \ {t}]
    /\ refused' = [refused EXCEPT ![s] = @ \ {t}]
    /\ UNCHANGED <<avail, line>>

\* A reset, or a deletion followed by a new creation.
Reset(s, v) ==
    /\ Lines(s) = {}
    /\ avail' = [avail EXCEPT ![s] = v]
    /\ UNCHANGED <<line, given, refused>>

Next ==
    \E s \in Sem :
        \/ Take(s) \/ Release(s)
        \/ \E t \in Thread : Wait(t, s) \/ Return(t, s)
        \/ \E t \in Thread, p \in Prio : Refuse(t, s, p)
        \/ \E v \in Resets : Reset(s, v)

Spec == Init /\ [][Next]_vars
=============================================================================
