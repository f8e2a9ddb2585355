---------------------------- MODULE RtRingbuffer ----------------------------
(***************************************************************************)
(* The ring buffer of RT-Thread (ringbuffer.c) as the console of the debug *)
(* port uses it.  The buffer is a record: the pool, and an index and a     *)
(* mirror bit for the reader and for the writer; with equal indexes, equal *)
(* mirrors mean empty and different mirrors mean full.  The 15-bit index   *)
(* fields keep their width.                                                *)
(***************************************************************************)
EXTENDS Integers, Sequences

CONSTANT RbSize       \* buffer_size, RB_LEN

ASSUME RbSizeAssumption == RbSize \in 1..32767

Index(n) == n % 32768     \* a store into read_index or write_index

\* rt_ringbuffer_init: the pool keeps its bytes.
RewindRead(rb) == [rb EXCEPT !.rm = FALSE, !.ri = 0]
RewindWrite(rb) == [rb EXCEPT !.wm = FALSE, !.wi = 0]

\* rt_ringbuffer_status and rt_ringbuffer_data_len.
Empty(rb) == rb.ri = rb.wi /\ rb.rm = rb.wm
Full(rb) == rb.ri = rb.wi /\ rb.rm # rb.wm
DataLen(rb) ==
    IF Empty(rb) THEN 0
    ELSE IF Full(rb) THEN RbSize
    ELSE IF rb.wi > rb.ri THEN rb.wi - rb.ri
    ELSE RbSize - (rb.ri - rb.wi)

\* rt_ringbuffer_space_len, in the 16 bits put_force keeps of it.
SpaceLen(rb) == (RbSize - DataLen(rb)) % 65536

\* What a reader would get now, the oldest byte first.
Contents(rb) == [k \in 1..DataLen(rb) |-> rb.pool[(rb.ri + k - 1) % RbSize]]

\* The newest bytes of s that fit.
Newest(s) == IF Len(s) <= RbSize THEN s ELSE SubSeq(s, Len(s) - RbSize + 1, Len(s))

----------------------------------------------------------------------------
(* rt_ringbuffer_put_force(rb, data), data no longer than the buffer *)

Wraps(rb, len) == RbSize - rb.wi <= len

\* Both memcpy calls: from write_index on, and round the end.
CopyIn(rb, data) ==
    [rb EXCEPT !.pool = [i \in 0..RbSize - 1 |->
        IF (i - rb.wi) % RbSize < Len(data) THEN data[((i - rb.wi) % RbSize) + 1]
        ELSE rb.pool[i]]]

FlipWrite(rb) == [rb EXCEPT !.wm = ~rb.wm]
AdvanceWrite(rb, len, wraps) ==
    [rb EXCEPT !.wi = Index(IF wraps THEN len - (RbSize - rb.wi) ELSE rb.wi + len)]

\* The reader is moved up to the writer; its mirror is turned whenever the
\* writer wrapped, on whichever side the reader was.
PushRead(rb, wraps) ==
    [rb EXCEPT !.rm = IF wraps THEN ~rb.rm ELSE rb.rm, !.ri = rb.wi]

----------------------------------------------------------------------------
(* rt_ringbuffer_get(rb, len), len no longer than the data *)

ReadWraps(rb, len) == RbSize - rb.ri <= len
CopyOut(rb, len) == [k \in 1..len |-> rb.pool[(rb.ri + k - 1) % RbSize]]
AdvanceRead(rb, len, wraps) ==
    [rb EXCEPT !.rm = IF wraps THEN ~rb.rm ELSE rb.rm,
               !.ri = Index(IF wraps THEN len - (RbSize - rb.ri) ELSE rb.ri + len)]
=============================================================================
