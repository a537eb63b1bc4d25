------------------------------ MODULE MemPool ------------------------------
(***************************************************************************)
(* The memory pools of src/mempool.c: a pool is a list of free blocks of   *)
(* one size, a count of them, a list of threads that wait for a block and  *)
(* a count of those.  The two counts are kept apart from the lists they    *)
(* count, and the code trusts the counts.  A waiting thread is put at the  *)
(* head of its list, so the thread that came last is served first.         *)
(*                                                                         *)
(* A thread that times out leaves the list and not suspend_thread_count;   *)
(* rt_mp_free may then find the count positive and the list empty, and     *)
(* take the list head for a thread.                                        *)
(***************************************************************************)
EXTENDS Ipc

CONSTANTS
    Pool,            \* the pools
    Block,           \* the blocks of a pool
    COUNT_MAX        \* bound on suspend_thread_count

ASSUME MemPoolAssumption ==
    Pool \subseteq Object /\ IsFiniteSet(Block) /\ COUNT_MAX \in Nat

VARIABLES
    block_list,             \* [Pool -> Seq(Block)], the free blocks
    block_free_count,
    suspend_thread_count,
    limit,                  \* the threads whose call has a time limit
    held                    \* the blocks that somebody has allocated

blocks == <<block_list, block_free_count, held>>
poolVars == <<blocks, suspend_thread_count>>
mpVars == <<poolVars, limit>>

\* The free list that rt_mp_init builds, for some order of the blocks.
FreshBlocks == CHOOSE s \in [1 .. Cardinality(Block) -> Block] : IsInjective(s)

PoolInit ==
    /\ block_list = [mp \in Pool |-> FreshBlocks]
    /\ block_free_count = [mp \in Pool |-> Cardinality(Block)]
    /\ suspend_thread_count = [mp \in Pool |-> 0]
    /\ limit = {}
    /\ held = [mp \in Pool |-> {}]

MpInit == IpcInit /\ PoolInit

-----------------------------------------------------------------------------
(* rt_mp_alloc.  With waiting time 0 it returns RT_NULL when there is no    *)
(* block, and changes nothing but errno.                                    *)

\* The part after the loop: the first free block is taken.
TakeBlock(mp) ==
    /\ block_free_count' = [block_free_count EXCEPT ![mp] = @ - 1]
    /\ block_list' = [block_list EXCEPT ![mp] = Tail(@)]
    /\ held' = [held EXCEPT ![mp] = @ \cup {Head(block_list[mp])}]

Available(mp) == block_free_count[mp] # 0

\* One turn of the loop: rt_list_insert_after puts the thread first.
WaitForBlock(t, mp, timed) ==
    LET r == rt_thread_suspend([k EXCEPT !.error[t] = "EOK"], t)
        q == [r EXCEPT !.list[mp] = <<t>> \o @]
    IN  /\ suspend_thread_count[mp] < COUNT_MAX
        /\ k' = IF timed THEN rt_timer_start(q, t) ELSE q
        /\ suspend_thread_count' = [suspend_thread_count EXCEPT ![mp] = @ + 1]
        /\ Goes(t, "wait_sched", mp)
        /\ UNCHANGED <<blocks, open, corrupt>>

Alloc(t, mp) ==
    /\ Runs(t, "run") /\ Usable(mp) /\ Available(mp)
    /\ TakeBlock(mp)
    /\ UNCHANGED <<ipcVars, suspend_thread_count, limit>>

AllocIsr(mp) ==
    /\ Interruptible /\ Usable(mp) /\ Available(mp)
    /\ TakeBlock(mp)
    /\ UNCHANGED <<ipcVars, suspend_thread_count, limit>>

AllocBlock(t, mp, timed) ==
    /\ Runs(t, "run") /\ Usable(mp) /\ ~Available(mp)
    /\ WaitForBlock(t, mp, timed)
    /\ limit' = IF timed THEN limit \cup {t} ELSE limit

\* The thread runs again: it takes a block or, overtaken, waits for the rest of
\* its time.
AllocRetry(t) ==
    /\ Runs(t, "wait_ret") /\ on[t] \in open /\ k.error[t] = "EOK"
    /\ \/ /\ Available(on[t])
          /\ TakeBlock(on[t])
          /\ Returns(t) /\ limit' = limit \ {t}
          /\ UNCHANGED <<k, open, corrupt, suspend_thread_count>>
       \/ /\ ~Available(on[t])
          /\ WaitForBlock(t, on[t], t \in limit)
          /\ UNCHANGED limit

\* It was overtaken and its time is over.
AllocExpires(t) ==
    /\ Runs(t, "wait_ret") /\ on[t] \in open /\ k.error[t] = "EOK"
    /\ ~Available(on[t]) /\ t \in limit
    /\ k' = [k EXCEPT !.error[t] = "ETIMEOUT"]
    /\ Returns(t) /\ limit' = limit \ {t}
    /\ UNCHANGED <<open, corrupt, blocks, suspend_thread_count>>

\* It timed out, or the pool was deleted while it waited.
AllocError(t) ==
    /\ Runs(t, "wait_ret") /\ k.error[t] # "EOK"
    /\ Returns(t) /\ limit' = limit \ {t}
    /\ UNCHANGED <<k, open, corrupt, blocks, suspend_thread_count>>

\* Resumed to be served, it finds that the pool has been deleted since.
ReadsDeleted(t) ==
    /\ Runs(t, "wait_ret") /\ on[t] \notin open /\ k.error[t] = "EOK"
    /\ corrupt' = TRUE
    /\ UNCHANGED <<k, open, pc, on, mpVars>>

-----------------------------------------------------------------------------
(* rt_mp_free *)

\* The block goes to the head of the free list; corrupt when the count says
\* that a thread waits and none does.
PutBlock(mp, b) ==
    /\ block_free_count' = [block_free_count EXCEPT ![mp] = @ + 1]
    /\ block_list' = [block_list EXCEPT ![mp] = <<b>> \o @]
    /\ held' = [held EXCEPT ![mp] = @ \ {b}]
    /\ suspend_thread_count' =
         [suspend_thread_count EXCEPT ![mp] = IF @ > 0 THEN @ - 1 ELSE @]
    /\ corrupt' = (suspend_thread_count[mp] > 0 /\ k.list[mp] = <<>>)

\* The thread that is resumed, the one that came last.
Served(mp) ==
    LET t == Head(k.list[mp]) IN rt_thread_resume([k EXCEPT !.error[t] = "EOK"], t)

\* Slip: a thread is resumed only when there was no free block before.
WakesFirst(mp) ==
    suspend_thread_count[mp] > 0 /\ k.list[mp] # <<>> /\ block_free_count[mp] = 0

Wakes(mp) == suspend_thread_count[mp] > 0 /\ k.list[mp] # <<>>

Free(t, mp, b) ==
    /\ Runs(t, "run") /\ Usable(mp) /\ b \in held[mp]
    /\ PutBlock(mp, b)
    /\ IF Wakes(mp) THEN k' = Served(mp) /\ Goes(t, "sched", NoObject)
       ELSE UNCHANGED <<k, pc, on>>
    /\ UNCHANGED <<open, limit>>

FreeIsr(mp, b) ==
    /\ Interruptible /\ Usable(mp) /\ b \in held[mp]
    /\ PutBlock(mp, b)
    /\ IF Wakes(mp) THEN Rescheduled(Served(mp)) ELSE UNCHANGED k
    /\ UNCHANGED <<open, pc, on, limit>>

-----------------------------------------------------------------------------
(* rt_mp_detach and rt_mp_delete wake the waiting threads as the IPC objects *)
(* do and keep the count; rt_mp_init and rt_mp_create.                       *)

MpDeleteOne(t) ==
    /\ DeleteOne(t)
    /\ suspend_thread_count' =
         [suspend_thread_count EXCEPT ![on[t]] = IF corrupt' THEN @ ELSE @ - 1]
    /\ UNCHANGED <<blocks, limit>>

MpCreate(t, mp) ==
    /\ Create(t, mp)
    /\ block_list' = [block_list EXCEPT ![mp] = FreshBlocks]
    /\ block_free_count' = [block_free_count EXCEPT ![mp] = Cardinality(Block)]
    /\ suspend_thread_count' = [suspend_thread_count EXCEPT ![mp] = 0]
    /\ held' = [held EXCEPT ![mp] = {}]
    /\ UNCHANGED limit

-----------------------------------------------------------------------------
MpInCall(t) ==
    \/ AllocRetry(t) \/ AllocExpires(t) \/ AllocError(t) \/ ReadsDeleted(t)
    \/ MpDeleteOne(t)
    \/ /\ \/ WaitSchedule(t) \/ Schedule(t) \/ DeleteTest(t)
          \/ SleepSchedule(t) \/ SleepReturn(t)
       /\ UNCHANGED mpVars

MpCall(t) ==
    \/ \E mp \in Pool :
        \/ Alloc(t, mp)
        \/ \E timed \in BOOLEAN : AllocBlock(t, mp, timed)
        \/ \E b \in Block : Free(t, mp, b)
        \/ Delete(t, mp) /\ UNCHANGED mpVars
        \/ MpCreate(t, mp)
    \/ Sleep(t) /\ UNCHANGED mpVars

MpInterrupt ==
    \/ \E mp \in Pool : AllocIsr(mp) \/ \E b \in Block : FreeIsr(mp, b)
    \/ Tick /\ UNCHANGED mpVars

MpNext == MpInterrupt \/ \E t \in App : MpInCall(t) \/ MpCall(t)

MpSpec == MpInit /\ [][MpNext]_<<ipcVars, mpVars>>

-----------------------------------------------------------------------------
\* Every block of a pool is either free or allocated, the free list holds no
\* block twice and block_free_count is its length: rt_mp_alloc, which looks at
\* the count, never runs off the list and never hands a block out twice.
BlocksAccounted ==
    \A mp \in Pool :
        /\ IsInjective(block_list[mp])
        /\ ToSet(block_list[mp]) = Block \ held[mp]
        /\ block_free_count[mp] = Len(block_list[mp])

\* No wake-up is lost: while a thread waits for a block, every free block has a
\* thread that rt_mp_free resumed for it and that has not looked yet, although
\* others overtake, time out and wait again.
NoLostWakeup ==
    \A mp \in Pool \cap open : ~corrupt /\ Waiting(mp) # {} =>
        block_free_count[mp] <= Cardinality(Resumed(mp))

\* suspend_thread_count may be too large, after timeouts, but never too small:
\* rt_mp_free, which trusts it, forgets no waiting thread.
CountCovers ==
    \A mp \in Pool : Cardinality(Waiting(mp)) <= suspend_thread_count[mp]

\* Memory pools: no block is lost or handed out twice whatever overtakes, times
\* out or waits again, no wake-up of rt_mp_free is lost, and the count of waiting
\* threads it trusts is never too small.
PoolsSound == BlocksAccounted /\ NoLostWakeup /\ CountCovers
=============================================================================
