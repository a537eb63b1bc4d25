-------------------------------- MODULE Heap --------------------------------
(***************************************************************************)
(* The small-memory heap of src/mem.c.  The heap is tiled by blocks: a     *)
(* header with the offsets of the next and of the previous block and the   *)
(* flag used, followed by the data.  The semaphore heap_sem is held from   *)
(* the first to the last access of a call, so a call is one action; only   *)
(* rt_realloc lets go of it when it has to move the block, and then        *)
(* allocates, copies and frees (ReallocMoves, ReallocMalloc, ReallocFree). *)
(*                                                                         *)
(* Offsets and sizes are multiples of RT_ALIGN_SIZE and counted in it.  A  *)
(* header that was merged into another block is no block any more.  The    *)
(* loops over mem->next go from a block to those behind it, which are the  *)
(* ones of a larger offset.                                                *)
(***************************************************************************)
EXTENDS Integers, FiniteSets, FiniteSetsExt, Functions

CONSTANTS
    Users,         \* threads that use the heap
    HEADER,        \* SIZEOF_STRUCT_MEM
    MIN_SIZE,
    SIZE,          \* mem_size_aligned
    Sizes,         \* the sizes that are asked for
    None

VARIABLES
    mem,           \* the headers, by offset, but for heap_end: [used, next, prev]
    lfree, used_mem,
    asked,         \* what was asked for each block in the application's hands
    moving,        \* the block a thread moves in rt_realloc: [old, size, new], or None
    shrunk         \* rt_realloc has split a block

heapVars == <<mem, lfree, used_mem, asked, moving, shrunk>>

heap_end == SIZE + HEADER

\* rt_system_heap_init
Init ==
    /\ mem = [p \in {0} |-> [used |-> FALSE, next |-> heap_end, prev |-> 0]]
    /\ lfree = 0 /\ used_mem = 0
    /\ asked = [p \in {} |-> 0]
    /\ moving = [u \in Users |-> None]
    /\ shrunk = FALSE

-----------------------------------------------------------------------------
(* Operations on the headers *)

\* Sets a field of a header; what is stored in heap_end is never read.
SetPrev(m, p, q) == IF p = heap_end THEN m ELSE [m EXCEPT ![p].prev = q]

\* The free space behind the header p of m.
Room(m, p) == m[p].next - (p + HEADER)

\* Block p keeps size of its room; a free block is made of the rest.
Split(m, p, size) ==
    LET q == p + HEADER + size
        n == m[p].next
        header == [used |-> FALSE, next |-> n, prev |-> p]
    IN  SetPrev([x \in DOMAIN m \cup {q} |->
                    IF x = q THEN header ELSE IF x = p THEN [m[p] EXCEPT !.next = q] ELSE m[x]],
                n, q)

\* Block q is merged into p, which lies before it.
Merge(m, p, q) ==
    SetPrev(Restrict([m EXCEPT ![p].next = m[q].next], DOMAIN m \ {q}), m[q].next, p)

\* The first and the second half of plug_holes, on [mem, lfree]
PlugForward(h, p) ==
    LET n == h.mem[p].next
    IN  IF n = heap_end \/ h.mem[n].used THEN h
        ELSE [mem |-> Merge(h.mem, p, n), lfree |-> IF h.lfree = n THEN p ELSE h.lfree]

\* Slip: lfree is left pointing at a header that is merged away.
PlugBackwardKeeps(h, p) ==
    LET q == h.mem[p].prev
    IN  IF q = p \/ h.mem[q].used THEN h ELSE [h EXCEPT !.mem = Merge(h.mem, q, p)]

PlugBackward(h, p) ==
    LET q == h.mem[p].prev
    IN  IF q = p \/ h.mem[q].used THEN h
        ELSE [mem |-> Merge(h.mem, q, p), lfree |-> IF h.lfree = p THEN q ELSE h.lfree]

plug_holes(h, p) == PlugBackward(PlugForward(h, p), p)

-----------------------------------------------------------------------------
(* rt_malloc *)

\* The size that is allocated for n.
Padded(n) == Max({n, MIN_SIZE})

\* The blocks from lfree on that the loop of rt_malloc accepts.
Fits(size) ==
    {p \in DOMAIN mem : lfree <= p /\ p < SIZE - size /\ ~mem[p].used /\ Room(mem, p) >= size}

\* The headers after p was given away: a rest that can hold data is split off.
Taken(p, size) ==
    LET m == [mem EXCEPT ![p].used = TRUE]
    IN  IF Room(m, p) >= size + HEADER + MIN_SIZE THEN Split(m, p, size) ELSE m

\* The first free block of m from p on.
FreeFrom(m, p) == Min({q \in DOMAIN m : q >= p /\ ~m[q].used} \cup {heap_end})

\* rt_malloc(n) returns block p.
Allocates(p, n) ==
    /\ n <= SIZE
    /\ Fits(Padded(n)) # {} /\ p = Min(Fits(Padded(n)))
    /\ mem' = Taken(p, Padded(n))
    /\ lfree' = IF p = lfree THEN FreeFrom(mem', lfree) ELSE lfree
    /\ used_mem' = used_mem + mem'[p].next - p

\* rt_malloc(n) returns RT_NULL.
Refused(n) == n > SIZE \/ Fits(Padded(n)) = {}

\* A thread is moving a block; the blocks that no thread is moving.
Busy(u) == moving[u] # None
Settled == DOMAIN asked \ {moving[u].old : u \in {v \in Users : Busy(v)}}

rt_malloc(u, n) ==
    /\ ~Busy(u)
    /\ \E p \in DOMAIN mem :
          /\ Allocates(p, n)
          /\ asked' = [q \in DOMAIN asked \cup {p} |-> IF q = p THEN n ELSE asked[q]]
    /\ UNCHANGED <<moving, shrunk>>

-----------------------------------------------------------------------------
(* rt_free *)

\* Block p is free again.
Frees(p) ==
    LET h == plug_holes([mem   |-> [mem EXCEPT ![p].used = FALSE],
                         lfree |-> IF p < lfree THEN p ELSE lfree], p)
    IN  /\ mem' = h.mem /\ lfree' = h.lfree
        /\ used_mem' = used_mem - (mem[p].next - p)

rt_free(u, p) ==
    /\ ~Busy(u) /\ p \in Settled
    /\ Frees(p)
    /\ asked' = Restrict(asked, DOMAIN asked \ {p})
    /\ UNCHANGED <<moving, shrunk>>

-----------------------------------------------------------------------------
(* rt_realloc(p, n), n not 0 and p not RT_NULL: those are rt_free, rt_malloc  *)

Splits(p, n) == n + HEADER + MIN_SIZE < Room(mem, p)

ReallocSame(u, p, n) ==
    /\ ~Busy(u) /\ p \in Settled
    /\ n <= SIZE /\ n = Room(mem, p)
    /\ asked' = [asked EXCEPT ![p] = n]
    /\ UNCHANGED <<mem, lfree, used_mem, moving, shrunk>>

ReallocSplit(u, p, n) ==
    /\ ~Busy(u) /\ p \in Settled
    /\ n <= SIZE /\ n # Room(mem, p) /\ Splits(p, n)
    /\ LET m == Split(mem, p, n)
           h == plug_holes([mem |-> m, lfree |-> lfree], m[p].next)
       IN  mem' = h.mem /\ lfree' = h.lfree
    /\ used_mem' = used_mem - (Room(mem, p) - n)
    /\ asked' = [asked EXCEPT ![p] = n]
    /\ shrunk' = TRUE
    /\ UNCHANGED moving

\* The block has to move; heap_sem is released.
ReallocMoves(u, p, n) ==
    /\ ~Busy(u) /\ p \in Settled
    /\ n <= SIZE /\ n # Room(mem, p) /\ ~Splits(p, n)
    /\ moving' = [moving EXCEPT ![u] = [old |-> p, size |-> n, new |-> None]]
    /\ UNCHANGED <<mem, lfree, used_mem, asked, shrunk>>

\* ... the rt_malloc in it: without memory the old block stays as it was,
ReallocMalloc(u) ==
    /\ Busy(u) /\ moving[u].new = None
    /\ \/ /\ Refused(moving[u].size)
          /\ moving' = [moving EXCEPT ![u] = None]
          /\ UNCHANGED <<mem, lfree, used_mem>>
       \/ \E p \in DOMAIN mem :
             /\ Allocates(p, moving[u].size)
             /\ moving' = [moving EXCEPT ![u].new = p]
    /\ UNCHANGED <<asked, shrunk>>

\* ... and, after the copy, the rt_free.
ReallocFree(u) ==
    /\ Busy(u) /\ moving[u].new # None
    /\ Frees(moving[u].old)
    /\ asked' = [q \in (DOMAIN asked \ {moving[u].old}) \cup {moving[u].new} |->
                    IF q = moving[u].new THEN moving[u].size ELSE asked[q]]
    /\ moving' = [moving EXCEPT ![u] = None]
    /\ UNCHANGED shrunk

Next ==
    \E u \in Users :
        \/ \E n \in Sizes : rt_malloc(u, n)
        \/ \E p \in DOMAIN asked : rt_free(u, p)
        \/ \E p \in DOMAIN asked, n \in Sizes :
              ReallocSame(u, p, n) \/ ReallocSplit(u, p, n) \/ ReallocMoves(u, p, n)
        \/ ReallocMalloc(u) \/ ReallocFree(u)

Spec == Init /\ [][Next]_heapVars

-----------------------------------------------------------------------------
\* Every byte of the heap belongs to one block: the blocks follow each other from
\* the first to heap_end, forward and backward, and no two free ones are
\* neighbours, whatever is split and merged in which order.
Tiled ==
    /\ 0 \in DOMAIN mem /\ mem[0].prev = 0
    /\ \A p \in DOMAIN mem :
          LET n == mem[p].next
          IN  /\ n >= p + HEADER
              /\ n = heap_end \/ (n \in DOMAIN mem /\ mem[n].prev = p)
              /\ \A q \in DOMAIN mem : ~(p < q /\ q < n)
              /\ ~mem[p].used /\ n # heap_end => mem[n].used

\* The used blocks are those in somebody's hands, each with the room that was
\* asked for, also while a block is moved; and used_mem is what they take.
Handed == DOMAIN asked \cup ({moving[u].new : u \in {v \in Users : Busy(v)}} \ {None})

BlocksHeld ==
    /\ {p \in DOMAIN mem : mem[p].used} = Handed
    /\ \A p \in DOMAIN asked : Room(mem, p) >= asked[p]
    /\ \A u \in Users : Busy(u) /\ moving[u].new # None =>
          Room(mem, moving[u].new) >= moving[u].size
    /\ used_mem = MapThenSumSet(LAMBDA p : mem[p].next - p, Handed)

\* lfree is a free block or heap_end, and as long as no block was shrunk no free
\* block lies below it: rt_malloc overlooks none.
LowestFree ==
    /\ lfree = heap_end \/ (lfree \in DOMAIN mem /\ ~mem[lfree].used)
    /\ ~shrunk => lfree = FreeFrom(mem, 0)
=============================================================================
