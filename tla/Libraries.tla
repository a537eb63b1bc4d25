------------------------------ MODULE Libraries -----------------------------
(***************************************************************************)
(* The heap, the ring buffer, the reader-writer lock and the barrier:      *)
(* services that use no list of the kernel themselves.  They do not        *)
(* interact; part says which of them is at work, and the variables of the  *)
(* others keep their values.  part may also name a service that is not     *)
(* among them.                                                             *)
(***************************************************************************)
EXTENDS Integers, FiniteSets

CONSTANTS
    Clients,                       \* the threads at the lock and at the barrier
    TOKEN_MAX,                     \* of the reader-writer lock
    COUNT,                         \* of the barrier
    BUFFER_SIZE, Value,            \* of the ring buffer
    Users, HEADER, MIN_SIZE, HEAP_SIZE, Sizes, None     \* of the heap

ASSUME LibrariesAssumption ==
    /\ IsFiniteSet(Clients)
    /\ TOKEN_MAX \in Nat /\ COUNT \in Nat \ {0}
    /\ BUFFER_SIZE \in Nat \ {0} /\ IsFiniteSet(Value) /\ Value # {}
    /\ HEADER \in Nat \ {0} /\ MIN_SIZE \in Nat /\ HEAP_SIZE \in Nat /\ Sizes \subseteq Nat
    /\ None \notin Nat /\ None \notin [old : Nat, size : Nat, new : Nat \cup {None}]

VARIABLES
    part,
    role, buffer, rd, wr, rpc, len, hits, torn, content, next, got, due,
    ppc, rw_refcount, rw_nwait, rw_cond, mode, timed, holds, missed,
    count, cond, total, late,
    mem, lfree, used_mem, asked, moving, shrunk

ringVars    == <<role, buffer, rd, wr, rpc, len, hits, torn, content, next, got, due>>
rwVars      == <<rw_refcount, rw_nwait, rw_cond, mode, timed, holds, missed>>
barVars     == <<count, cond, total, late>>
heapVars    == <<mem, lfree, used_mem, asked, moving, shrunk>>
libraryVars == <<ringVars, rwVars, barVars, ppc, heapVars>>

RB == INSTANCE RingBuffer WITH pc <- rpc
RW == INSTANCE Rwlock WITH Threads <- Clients, pc <- ppc
BA == INSTANCE Barrier WITH Threads <- Clients, pc <- ppc
HP == INSTANCE Heap WITH SIZE <- HEAP_SIZE

LibrariesInit == RB!Init /\ RW!Init /\ BA!Init /\ HP!Init

LibrariesNext ==
    \/ part = "ring"    /\ RB!Next /\ UNCHANGED <<rwVars, barVars, ppc, heapVars>>
    \/ part = "rwlock"  /\ RW!Next /\ UNCHANGED <<ringVars, barVars, heapVars>>
    \/ part = "barrier" /\ BA!Next /\ UNCHANGED <<ringVars, rwVars, heapVars>>
    \/ part = "heap"    /\ HP!Next /\ UNCHANGED <<ringVars, rwVars, barVars, ppc>>

LibrariesSpec == LibrariesInit /\ [][LibrariesNext /\ UNCHANGED part]_<<part, libraryVars>>

-----------------------------------------------------------------------------
\* Ring buffer: a get returns the oldest characters, and the two ends describe
\* the contents exactly, with interrupts between the steps of the thread's calls.
\* Two things may break it, and end the promise: the interrupt handler passes the
\* end of the buffer while the thread reads the two ends (ringbuffer.c:32-34 and
\* 312-315), or it moves more characters than the thread does between the thread's
\* two stores.
RingExact == part = "ring" => RB!FirstInFirstOut /\ RB!ContentsExact

\* Reader-writer lock and barrier: a writer is alone, and nobody sleeps while the
\* lock is free and no other thread is on its way to it, until an unlock signals a
\* writer and all that wait have timed out (pthread_rwlock.c:231).  The threads of a
\* barrier pass together or not at all, but of those on their way to sleep at the
\* broadcast only one does (pthread_barrier.c:114).
PthreadsSound ==
    /\ part = "rwlock"  => RW!Exclusion /\ RW!NobodyForgotten
    /\ part = "barrier" => BA!TogetherOrNotAtAll

\* Heap: the blocks tile it, holes are merged, each block in use has room for what
\* was asked, also while rt_realloc moves it, the statistics are exact, and
\* rt_malloc overlooks no free block unless rt_realloc has shrunk one.
HeapSound == part = "heap" => HP!Tiled /\ HP!BlocksHeld /\ HP!LowestFree
=============================================================================
