----------------------------- MODULE RingBuffer -----------------------------
(***************************************************************************)
(* The ring buffer of components/drivers/src/ringbuffer.c.  Each end has   *)
(* an index and a mirror bit, in one half-word; equal indices mean empty   *)
(* when the mirror bits agree and full when they differ.                   *)
(*                                                                         *)
(* Nothing locks the buffer.  Drivers have a thread at one end and an      *)
(* interrupt handler at the other: the handler's calls are atomic, those   *)
(* of the thread are not.  The thread reads the fields of the other end    *)
(* one after the other, and a call that passes the end of the buffer turns *)
(* the mirror bit in one step and sets the index in another; a build that  *)
(* reads or writes both at once does so without a step in between.  pc of  *)
(* the thread:                                                             *)
(*   "idle"     in no call                                                 *)
(*   "mirror"   found the two indices equal, has not compared the mirrors  *)
(*   "compare"  found them different, has not compared them again          *)
(*   "above", "below"  the write index was above the read index, or not;   *)
(*              has not subtracted them                                    *)
(*   "copy"     knows how much it puts or gets (len), has not copied it    *)
(*   "flip"     has copied it past the end, has not turned the mirror bit  *)
(*   "index"    has not set the index                                      *)
(* Two things between these steps can give a side a wrong length: the      *)
(* handler passes the end of the buffer while the thread reads it, or it   *)
(* moves more than the thread does between the thread's two stores.  torn  *)
(* records it, and the model stops.                                        *)
(***************************************************************************)
EXTENDS Integers, Sequences, FiniteSets, SequencesExt

CONSTANTS
    BUFFER_SIZE,
    Value          \* 0 .. n, the characters; they are put in cyclic order

VARIABLES
    role,          \* which end the thread is at: "put", "get", or both ("alone")
    buffer,        \* [0 .. BUFFER_SIZE - 1 -> Value]
    rd, wr,        \* the read end and the write end: [mirror, index]
    pc,
    len,           \* what the thread asked for; from "copy" on what it moves
    hits,          \* the characters the handler moved since the thread turned its
                   \* mirror bit
    torn,          \* one of the two things happened
    content,       \* the characters that were put and not got, oldest first
    next,          \* the next character to put
    got, due       \* what the last get returned, and what it should have

vars == <<role, buffer, rd, wr, pc, len, hits, torn, content, next, got, due>>

Pos == 0 .. BUFFER_SIZE - 1

\* rt_ringbuffer_init
Init ==
    /\ role \in {"put", "get", "alone"}
    /\ buffer = [i \in Pos |-> 0]
    /\ rd = [mirror |-> 0, index |-> 0] /\ wr = rd
    /\ pc = "idle" /\ len = 0 /\ hits = 0 /\ torn = FALSE
    /\ content = <<>> /\ next = 0 /\ got = <<>> /\ due = <<>>

-----------------------------------------------------------------------------
\* rt_ringbuffer_status and rt_ringbuffer_data_len
rt_ringbuffer_data_len(r, w) ==
    IF r.index = w.index THEN IF r.mirror = w.mirror THEN 0 ELSE BUFFER_SIZE
    ELSE IF w.index > r.index THEN w.index - r.index
    ELSE BUFFER_SIZE - (r.index - w.index)

rt_ringbuffer_space_len(r, w) == BUFFER_SIZE - rt_ringbuffer_data_len(r, w)

\* A call of length n passes the end of the buffer, or comes to it.
Wraps(e, n) == BUFFER_SIZE - e.index <= n

Flip(e) == [e EXCEPT !.mirror = 1 - @]
Move(e, n) == [e EXCEPT !.index = (@ + n) % BUFFER_SIZE]

\* Slip: a call that ends at the end of the buffer does not turn the mirror bit.
AdvanceLate(e, n) ==
    IF e.index + n > BUFFER_SIZE THEN Move(Flip(e), n) ELSE Move(e, n)

Advance(e, n) == IF Wraps(e, n) THEN Move(Flip(e), n) ELSE Move(e, n)

\* The characters that are put next, and the buffer after they were copied.
Chars(n) == [j \in 1 .. n |-> (next + j - 1) % Cardinality(Value)]
Copied(w, n) ==
    [i \in Pos |-> LET j == (i - w.index) % BUFFER_SIZE
                   IN  IF j < n THEN Chars(n)[j + 1] ELSE buffer[i]]
Read(r, n) == [j \in 1 .. n |-> buffer[(r.index + j - 1) % BUFFER_SIZE]]

\* n characters were put, or got.
Puts(n) ==
    /\ buffer' = Copied(wr, n)
    /\ content' = content \o Chars(n)
    /\ next' = (next + n) % Cardinality(Value)
    /\ UNCHANGED <<got, due>>

Gets(n) ==
    /\ got' = Read(rd, n)
    /\ due' = SubSeq(content, 1, Min({n, Len(content)}))
    /\ content' = SubSeq(content, n + 1, Len(content))
    /\ UNCHANGED <<buffer, next>>

-----------------------------------------------------------------------------
(* rt_ringbuffer_put and rt_ringbuffer_get of the thread *)

\* rt_ringbuffer_status compares the indices.
ThreadCall(n) ==
    /\ pc = "idle" /\ role # "alone"
    /\ len' = n
    /\ pc' = IF rd.index = wr.index THEN "mirror" ELSE "compare"
    /\ UNCHANGED <<role, buffer, rd, wr, hits, torn, content, next, got, due>>

\* rt_ringbuffer_data_len returns d.
Finds(d) ==
    LET available == IF role = "put" THEN BUFFER_SIZE - d ELSE d
    IN  /\ len' = Min({len, available})
        /\ pc' = IF available = 0 THEN "idle" ELSE "copy"
        /\ UNCHANGED <<role, buffer, rd, wr, hits, torn, content, next, got, due>>

ThreadMirror ==
    /\ pc = "mirror"
    /\ Finds(IF rd.mirror = wr.mirror THEN 0 ELSE BUFFER_SIZE)

ThreadCompare ==
    /\ pc = "compare"
    /\ pc' = IF wr.index > rd.index THEN "above" ELSE "below"
    /\ UNCHANGED <<role, buffer, rd, wr, len, hits, torn, content, next, got, due>>

ThreadSubtract ==
    \/ pc = "above" /\ Finds(wr.index - rd.index)
    \/ pc = "below" /\ Finds(BUFFER_SIZE - (rd.index - wr.index))

ThreadCopy ==
    /\ pc = "copy"
    /\ IF role = "put" THEN Puts(len) ELSE Gets(len)
    /\ pc' = IF Wraps(IF role = "put" THEN wr ELSE rd, len) THEN "flip" ELSE "index"
    /\ UNCHANGED <<role, rd, wr, len, hits, torn>>

ThreadFlip ==
    /\ pc = "flip"
    /\ IF role = "put" THEN wr' = Flip(wr) /\ UNCHANGED rd ELSE rd' = Flip(rd) /\ UNCHANGED wr
    /\ pc' = "index" /\ hits' = 0
    /\ UNCHANGED <<role, buffer, len, torn, content, next, got, due>>

ThreadIndex ==
    /\ pc = "index"
    /\ IF role = "put" THEN wr' = Move(wr, len) /\ UNCHANGED rd
       ELSE rd' = Move(rd, len) /\ UNCHANGED wr
    /\ pc' = "idle" /\ len' = 0 /\ hits' = 0
    /\ UNCHANGED <<role, buffer, torn, content, next, got, due>>

-----------------------------------------------------------------------------
(* Calls that nothing interrupts: those of the handler, and of a thread that  *)
(* has the buffer for itself.  rt_ringbuffer_putchar and rt_ringbuffer_getchar *)
(* are the calls with n = 1.                                                  *)

\* The thread has turned its mirror bit and not yet set the index.
Turned == pc = "index" /\ Wraps(IF role = "put" THEN wr ELSE rd, len)

\* The thread has begun to read the other end and not finished.
Reading == pc \in {"mirror", "compare", "above", "below"}

\* The handler moves its end e by n.
HandlerMoves(e, n) ==
    /\ hits' = IF Turned THEN hits + n ELSE hits
    /\ torn' = ((Reading /\ Wraps(e, n)) \/ (Turned /\ hits + n > len))

AtomicPut(n) ==
    LET l == Min({n, rt_ringbuffer_space_len(rd, wr)})
    IN  /\ Puts(l) /\ wr' = Advance(wr, l)
        /\ \/ role = "get" /\ HandlerMoves(wr, l)
           \/ role = "alone" /\ UNCHANGED <<hits, torn>>
        /\ UNCHANGED <<role, rd, pc, len>>

AtomicGet(n) ==
    LET l == Min({n, rt_ringbuffer_data_len(rd, wr)})
    IN  /\ l > 0 /\ Gets(l) /\ rd' = Advance(rd, l)
        /\ \/ role = "put" /\ HandlerMoves(rd, l)
           \/ role = "alone" /\ UNCHANGED <<hits, torn>>
        /\ UNCHANGED <<role, wr, pc, len>>

\* The read end follows the write end w of a buffer that was full.
Forced(r, w) == [mirror |-> IF w.index = 0 THEN 1 - r.mirror ELSE r.mirror, index |-> w.index]

PutcharForce ==
    /\ role = "alone"
    /\ buffer' = Copied(wr, 1)
    /\ wr' = Advance(wr, 1)
    /\ IF rt_ringbuffer_space_len(rd, wr) = 0
       THEN rd' = Forced(rd, wr') /\ content' = Tail(content) \o Chars(1)
       ELSE content' = content \o Chars(1) /\ UNCHANGED rd
    /\ next' = (next + 1) % Cardinality(Value)
    /\ UNCHANGED <<role, pc, len, hits, torn, got, due>>

rt_ringbuffer_reset ==
    /\ role = "alone"
    /\ rd' = [mirror |-> 0, index |-> 0] /\ wr' = rd'
    /\ content' = <<>>
    /\ UNCHANGED <<role, buffer, pc, len, hits, torn, next, got, due>>

Next ==
    /\ ~torn
    /\ \/ \E n \in 1 .. BUFFER_SIZE + 1 : ThreadCall(n) \/ AtomicPut(n) \/ AtomicGet(n)
       \/ ThreadMirror \/ ThreadCompare \/ ThreadSubtract
       \/ ThreadCopy \/ ThreadFlip \/ ThreadIndex
       \/ PutcharForce \/ rt_ringbuffer_reset

Spec == Init /\ [][Next]_vars

-----------------------------------------------------------------------------
\* Each get returns the oldest characters that were put and not got before, whatever
\* the handler does between the steps of the thread, except the two things of torn.
FirstInFirstOut == ~torn => got = due

\* On the same condition the two ends describe the contents exactly between the
\* calls of the thread: no character was lost, overwritten or made up, across the
\* end of the buffer and when it is empty or full.
ContentsExact ==
    pc = "idle" /\ ~torn =>
        /\ rt_ringbuffer_data_len(rd, wr) = Len(content)
        /\ Read(rd, Len(content)) = content
=============================================================================
