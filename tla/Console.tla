------------------------------ MODULE Console ------------------------------
(***************************************************************************)
(* The console of the debug port (rt_thread_dbg.c): print output of the    *)
(* OpenMV thread goes into a ring buffer with rt_ringbuffer_put_force, the *)
(* debug thread takes it out with rt_ringbuffer_get when the IDE asks.     *)
(* Nothing locks the buffer, so every store of one thread that the other   *)
(* reads is a step.  A byte is the number under which it was printed; the  *)
(* printing code in MicroPython is external.                               *)
(***************************************************************************)
EXTENDS RtRingbuffer

CONSTANT MaxPut        \* the longest write: 1 is a plain character, 2 a line end

ASSUME ConsoleAssumption == MaxPut \in Nat \ {0}

VARIABLES
    rb,          \* tx_rb
    put,         \* the write the OpenMV thread is in
    fault,       \* a copy of negative length: the firmware has stopped
    printed,     \* bytes printed
    newest,      \* history: the newest unread bytes, what the buffer should hold
    overlap,     \* history: calls of the two threads overlapped
    wide         \* history: a write of several bytes was forced into too little space

consoleHist == <<printed, newest, overlap, wide>>
consoleVars == <<rb, put, fault, consoleHist>>

NoPut == [pc |-> "run", data |-> <<>>, forced |-> FALSE, wraps |-> FALSE]

ConsoleInit ==
    /\ rb = [rm |-> FALSE, ri |-> 0, wm |-> FALSE, wi |-> 0,
             pool |-> [i \in 0..RbSize - 1 |-> 0]]
    /\ put = NoPut /\ fault = FALSE
    /\ printed = 0 /\ newest = <<>> /\ overlap = FALSE /\ wide = FALSE

----------------------------------------------------------------------------
(* serial_tx_buf_write, on the OpenMV thread *)

\* The space is read and the bytes are copied; busy: the other thread is in a
\* call of its own; limit bounds the bytes printed.  An index beyond the pool
\* makes the length negative.
PutCopy(n, busy, limit) ==
    LET data == Newest([k \in 1..n |-> printed + k])
        wraps == Wraps(rb, Len(data))
        forced == Len(data) > SpaceLen(rb)
    IN  /\ put.pc = "run" /\ printed + n <= limit
        /\ fault' = (rb.wi > RbSize)
        /\ rb' = IF rb.wi > RbSize THEN rb ELSE CopyIn(rb, data)
        /\ put' = [pc |-> IF wraps THEN "flip" ELSE "advance",
                   data |-> data, forced |-> forced, wraps |-> wraps]
        /\ printed' = printed + n
        /\ wide' = (wide \/ (forced /\ n > 1))
        /\ overlap' = (overlap \/ busy)
        /\ newest' = newest

PutFlip ==
    /\ put.pc = "flip"
    /\ rb' = FlipWrite(rb)
    /\ put' = [put EXCEPT !.pc = "advance"]
    /\ UNCHANGED <<fault, consoleHist>>

\* Fault: the reader stays where it was although its bytes were overwritten.
PutAdvanceOnly ==
    /\ put.pc = "advance"
    /\ rb' = AdvanceWrite(rb, Len(put.data), put.wraps)
    /\ put' = NoPut
    /\ newest' = Newest(newest \o put.data)
    /\ UNCHANGED <<fault, printed, overlap, wide>>

PutAdvance ==
    /\ put.pc = "advance"
    /\ rb' = AdvanceWrite(rb, Len(put.data), put.wraps)
    /\ put' = IF put.forced THEN [put EXCEPT !.pc = "push"] ELSE NoPut
    /\ newest' = IF put.forced THEN newest ELSE Newest(newest \o put.data)
    /\ UNCHANGED <<fault, printed, overlap, wide>>

PutPush ==
    /\ put.pc = "push"
    /\ rb' = PushRead(rb, put.wraps)
    /\ put' = NoPut
    /\ newest' = Newest(newest \o put.data)
    /\ UNCHANGED <<fault, printed, overlap, wide>>

Putting(busy, limit) ==
    \/ \E n \in 1..MaxPut : PutCopy(n, busy, limit)
    \/ PutFlip
    \/ PutAdvance
    \/ PutPush

----------------------------------------------------------------------------
(* The debug thread's calls, one step for each store; the module that
   extends this one says when they are made. *)

OverlapsPut == overlap' = (overlap \/ put.pc # "run")

\* serial_tx_buf_flush.
FlushRead ==
    /\ rb' = RewindRead(rb)
    /\ OverlapsPut
    /\ UNCHANGED <<put, fault, printed, newest, wide>>

FlushWrite ==
    /\ rb' = RewindWrite(rb)
    /\ newest' = <<>>
    /\ OverlapsPut
    /\ UNCHANGED <<put, fault, printed, wide>>

\* serial_tx_buf_read: the length is read; it is unsigned, one below zero is
\* more than n ...
GetLen(n) == IF DataLen(rb) \in 0..n - 1 THEN DataLen(rb) ELSE n

GetBegin ==
    /\ OverlapsPut
    /\ UNCHANGED <<rb, put, fault, printed, newest, wide>>

\* ... the bytes are copied, without end when the index has left the pool ...
GetCopy ==
    /\ fault' = (rb.ri > RbSize)
    /\ OverlapsPut
    /\ UNCHANGED <<rb, put, printed, newest, wide>>

\* Fault: the mirror of the reader is not turned.
GetStoreNoFlip(len, wraps) ==
    /\ rb' = [AdvanceRead(rb, len, wraps) EXCEPT !.rm = rb.rm]
    /\ newest' = IF Len(newest) < len THEN <<>> ELSE SubSeq(newest, len + 1, Len(newest))
    /\ OverlapsPut
    /\ UNCHANGED <<put, fault, printed, wide>>

\* ... and the index, read again, moves on.
GetStore(len, wraps) ==
    /\ rb' = AdvanceRead(rb, len, wraps)
    /\ newest' = IF Len(newest) < len THEN <<>> ELSE SubSeq(newest, len + 1, Len(newest))
    /\ OverlapsPut
    /\ UNCHANGED <<put, fault, printed, wide>>
=============================================================================
