----------------------------- MODULE SerialDbg -----------------------------
(***************************************************************************)
(* The debug thread (rt_thread_dbg.c): it collects the bytes of a command  *)
(* the receive interrupt left in the FIFO of the serial driver, hands the  *)
(* header to usbdbg_control and moves the data of the command.             *)
(*                                                                         *)
(* The interrupt posts dbg_sem once for all the bytes it found, and the    *)
(* FIFO drops its oldest byte when it is full.  serial_recv_block takes    *)
(* one permit for each read, whatever the read brings, and gives up after  *)
(* a time during which no permit came: then the bytes it had are gone.     *)
(*                                                                         *)
(* The host is external.  It sends commands one after the other; a byte is *)
(* <<i, p>>, the p-th byte of its i-th command.  The first byte of a       *)
(* header is 0x30, and so may be any other byte of a command: a length of  *)
(* 48, a '0' in the text of a script.  A permit may be missing for as long *)
(* as the time-out whenever the semaphore is empty.                        *)
(***************************************************************************)
EXTENDS Console

CONSTANTS Loads,       \* what a behaviour is made of: the commands the host may
                       \* send (op, len, the bytes of the data phase, and
                       \* magic, where it has more bytes that are 0x30), how
                       \* many bytes may arrive before the interrupt runs, and
                       \* the bounds on commands sent and bytes printed
          HdrLen,      \* bytes of a header, 6
          Chunk,       \* BUFFER_SIZE, 64
          RxSize       \* RT_SERIAL_RB_BUFSZ, 64

Ops == {"SCRIPT_EXEC", "FW_VERSION", "TX_BUF_LEN", "TX_BUF", "SENSOR_ID"}

ASSUME SerialDbgAssumption ==
    /\ \A l \in Loads : /\ l.commands \subseteq [op : Ops, len : Nat \ {0}, magic : SUBSET (Nat \ {0, 1})]
                        /\ l.depth \in Nat \ {0}
                        /\ {l.count, l.prints} \subseteq Nat
    /\ {HdrLen, Chunk} \subseteq Nat \ {0}
    /\ RxSize \in Nat \ {0, 1}

VARIABLES
    load,        \* the load of this behaviour
    sent,        \* the commands the host has begun to send
    pos,         \* bytes of the last one on the line
    hw,          \* bytes in the receiver
    fifo,        \* rx_fifo
    sem,         \* dbg_sem
    dbg,         \* where the debug thread is
    buf,         \* what serial_recv_block has so far
    cmd, xfer,   \* usbdbg.c: cmd; xfer_length of serial_dbg_dispatch
    got,         \* a read of the console: its length and whether it wraps
    cur,         \* history: the command in hand, 0 when its header is none
    out,         \* history: what usbdbg_data_out was given for it
    read,        \* history: console bytes the host received
    done,        \* history: commands carried out
    faults       \* history: what went wrong on the line

host == <<load, sent, pos>>
line == <<hw, fifo, sem>>
thread == <<dbg, buf, cmd, xfer, got>>
history == <<cur, out, read, done, faults>>
vars == <<host, line, thread, history, consoleVars>>

NoGet == [len |-> 0, wraps |-> FALSE]

Init ==
    /\ ConsoleInit
    /\ load \in Loads
    /\ sent = <<>> /\ pos = 0
    /\ hw = <<>> /\ fifo = <<>> /\ sem = 0
    /\ dbg = "header" /\ buf = <<>> /\ cmd = "NONE" /\ xfer = 0 /\ got = NoGet
    /\ cur = 0 /\ out = <<>> /\ read = <<>> /\ done = {} /\ faults = {}

----------------------------------------------------------------------------
(* The host and the receive interrupt *)

\* Only commands with a host-to-device data phase bring data.
FromHost(c) == c.op = "SCRIPT_EXEC"
Total(c) == HdrLen + (IF FromHost(c) THEN c.len ELSE 0)
AllSent == sent # <<>> => pos = Total(sent[Len(sent)])

HostBegins(c) ==
    /\ AllSent /\ Len(sent) < load.count
    /\ sent' = Append(sent, c) /\ pos' = 0
    /\ UNCHANGED <<load, line, thread, history, consoleVars>>

HostByte ==
    /\ ~AllSent /\ Len(hw) < load.depth
    /\ pos' = pos + 1
    /\ hw' = Append(hw, <<Len(sent), pos + 1>>)
    /\ UNCHANGED <<load, sent, fifo, sem, thread, history, consoleVars>>

\* rt_hw_serial_isr: the receiver is emptied into the FIFO, the oldest bytes
\* give way.
Pushed == LET all == fifo \o hw
              drop == Len(all) - (RxSize - 1)
          IN  IF drop > 0 THEN SubSeq(all, drop + 1, Len(all)) ELSE all

\* Fault: the driver does not call the receive indication when the FIFO was
\* not empty.
ReceiveSilent ==
    /\ hw # <<>>
    /\ fifo' = Pushed /\ hw' = <<>>
    /\ sem' = IF fifo = <<>> THEN sem + 1 ELSE sem
    /\ faults' = faults \union (IF Len(hw) > 1 THEN {"coalesced"} ELSE {})
                        \union (IF Len(fifo) + Len(hw) > RxSize - 1 THEN {"overrun"} ELSE {})
    /\ UNCHANGED <<host, thread, cur, out, read, done, consoleVars>>

\* dbg_port_rx_ind posts one permit for all of them.
Receive ==
    /\ hw # <<>>
    /\ fifo' = Pushed /\ hw' = <<>>
    /\ sem' = sem + 1
    /\ faults' = faults \union (IF Len(hw) > 1 THEN {"coalesced"} ELSE {})
                        \union (IF Len(fifo) + Len(hw) > RxSize - 1 THEN {"overrun"} ELSE {})
    /\ UNCHANGED <<host, thread, cur, out, read, done, consoleVars>>

----------------------------------------------------------------------------
(* serial_recv_block *)

Least(a, b) == IF a < b THEN a ELSE b
Wanted == IF dbg = "header" THEN HdrLen ELSE Least(xfer, Chunk)
Missing == Wanted - Len(buf)

\* Fault: the read asks for the whole block again.
ReadableWhole == Least(Len(fifo), Wanted)

Readable == Least(Len(fifo), Missing)

\* One permit, then whatever is there; the block is complete or the loop
\* goes on.  A complete header waits ten ticks, complete data goes to usbdbg.
RecvBlock ==
    LET all == buf \o SubSeq(fifo, 1, Readable)
    IN  /\ dbg \in {"header", "out"} /\ sem > 0
        /\ sem' = sem - 1
        /\ fifo' = SubSeq(fifo, Readable + 1, Len(fifo))
        /\ IF Readable < Missing
             THEN buf' = all /\ UNCHANGED <<dbg, xfer, out, done>>
             ELSE IF dbg = "header"
             THEN buf' = all /\ dbg' = "delay" /\ UNCHANGED <<xfer, out, done>>
             ELSE /\ buf' = <<>>
                  /\ out' = out \o all
                  /\ xfer' = xfer - Wanted
                  /\ dbg' = IF xfer' > 0 THEN "out" ELSE "header"
                  /\ done' = IF xfer' > 0 THEN done ELSE done \union {cur}
        /\ UNCHANGED <<host, hw, cmd, got, cur, read, faults, consoleVars>>

\* Fault: the time-out also empties the receiver.
TimeOutPurges ==
    /\ dbg \in {"header", "out"} /\ sem = 0
    /\ dbg' = "header" /\ buf' = <<>> /\ hw' = <<>>
    /\ faults' = faults \union {"cut"} \union (IF Len(fifo) < Missing THEN {"late"} ELSE {})
    /\ UNCHANGED <<host, fifo, sem, cmd, xfer, got, cur, out, read, done, consoleVars>>

\* The time-out: the bytes received so far are dropped with the command, which
\* is "cut".  It is the host's fault ("late") unless all the bytes are there.
TimeOut ==
    /\ dbg \in {"header", "out"} /\ sem = 0
    /\ dbg = "out" \/ buf # <<>>
    /\ dbg' = "header" /\ buf' = <<>>
    /\ faults' = faults \union {"cut"} \union (IF Len(fifo) < Missing THEN {"late"} ELSE {})
    /\ UNCHANGED <<host, line, cmd, xfer, got, cur, out, read, done, consoleVars>>

----------------------------------------------------------------------------
(* serial_dbg_dispatch *)

Delay ==
    /\ dbg = "delay"
    /\ dbg' = "dispatch"
    /\ UNCHANGED <<host, line, buf, cmd, xfer, got, history, consoleVars>>

\* buf[0] == 0x30, and nothing else, makes a header.
IsHeader(b) == b[1][2] = 1 \/ b[1][2] \in sent[b[1][1]].magic
Intact(b) == \A p \in 1..HdrLen : b[p] = <<b[1][1], p>>

\* No header: the bytes are dropped.
NotMagic ==
    /\ dbg = "dispatch" /\ ~IsHeader(buf)
    /\ dbg' = "header" /\ buf' = <<>>
    /\ UNCHANGED <<host, line, cmd, xfer, got, history, consoleVars>>

\* usbdbg_control.  Bytes that only begin like a header are any command.
Control(c) ==
    /\ dbg = "dispatch" /\ IsHeader(buf)
    /\ Intact(buf) => c = sent[buf[1][1]]
    /\ cur' = IF Intact(buf) THEN buf[1][1] ELSE 0
    /\ cmd' = c.op /\ xfer' = c.len
    /\ buf' = <<>> /\ out' = <<>>
    /\ dbg' = IF FromHost(c) THEN "out" ELSE "in"
    /\ UNCHANGED <<host, line, got, read, done, faults, consoleVars>>
----------------------------------------------------------------------------
(* The device-to-host data phase: usbdbg_data_in for each chunk *)

Chunked == Least(xfer, Chunk)

ChunkDone ==
    /\ xfer' = xfer - Chunked
    /\ dbg' = IF xfer' > 0 THEN "in" ELSE "header"
    /\ done' = IF xfer' > 0 THEN done ELSE done \union {cur}

\* FW_VERSION rewinds the console first; the versions are constants.
Flush ==
    /\ dbg = "in" /\ cmd = "FW_VERSION"
    /\ FlushRead
    /\ dbg' = "flush"
    /\ UNCHANGED <<host, line, buf, cmd, xfer, got, history>>

FlushEnds ==
    /\ dbg = "flush"
    /\ FlushWrite
    /\ cmd' = "NONE"
    /\ ChunkDone
    /\ UNCHANGED <<host, line, buf, got, cur, out, read, faults>>

\* TX_BUF_LEN, and whatever is left of a command that is over, change nothing.
Answer ==
    /\ dbg = "in" /\ cmd \in {"TX_BUF_LEN", "NONE"}
    /\ cmd' = "NONE"
    /\ ChunkDone
    /\ UNCHANGED <<host, line, buf, got, cur, out, read, faults, consoleVars>>

\* TX_BUF; SENSOR_ID has no break and goes on into it.
ReadLen ==
    /\ dbg = "in" /\ cmd \in {"TX_BUF", "SENSOR_ID"}
    /\ GetBegin
    /\ IF GetLen(Chunked) = 0
         THEN cmd' = "NONE" /\ ChunkDone /\ UNCHANGED got
         ELSE /\ got' = [len |-> GetLen(Chunked), wraps |-> FALSE]
              /\ cmd' = IF cmd = "SENSOR_ID" THEN "NONE" ELSE cmd
              /\ dbg' = "copy"
              /\ UNCHANGED <<xfer, done>>
    /\ UNCHANGED <<host, line, buf, cur, out, read, faults>>

ReadCopy ==
    /\ dbg = "copy"
    /\ GetCopy
    /\ got' = [got EXCEPT !.wraps = ReadWraps(rb, got.len)]
    /\ read' = IF rb.ri > RbSize THEN read ELSE read \o CopyOut(rb, got.len)
    /\ dbg' = "store"
    /\ UNCHANGED <<host, line, buf, cmd, xfer, cur, out, done, faults>>

ReadStore ==
    /\ dbg = "store"
    /\ GetStore(got.len, got.wraps)
    /\ got' = NoGet
    /\ cmd' = IF xfer = Chunked THEN "NONE" ELSE cmd
    /\ ChunkDone
    /\ UNCHANGED <<host, line, buf, cur, out, read, faults>>

Busy == dbg \in {"flush", "copy", "store"}

Prints ==
    /\ Putting(Busy, load.prints)
    /\ UNCHANGED <<host, line, thread, history>>

DbgStep ==
    \/ RecvBlock \/ TimeOut
    \/ Delay \/ NotMagic \/ (\E c \in load.commands : Control(c))
    \/ Flush \/ FlushEnds \/ Answer \/ ReadLen \/ ReadCopy \/ ReadStore

Next ==
    /\ ~fault
    /\ \/ \E c \in load.commands : HostBegins(c)
       \/ HostByte
       \/ Receive
       \/ DbgStep
       \/ Prints

Spec == Init /\ [][Next]_vars

\* The host finishes what it began to send, interrupts and the debug thread
\* are scheduled, prints finish.
FairSpec ==
    /\ Spec
    /\ WF_vars(~fault /\ HostByte)
    /\ WF_vars(~fault /\ Receive)
    /\ WF_vars(~fault /\ DbgStep)
    /\ WF_vars(~fault /\ put.pc # "run" /\ Prints)

----------------------------------------------------------------------------
(* Properties *)

\* What is left of a cut command is read as headers: it can be told from one
\* only if none of the commands has another byte that is 0x30.
Plain == \A i \in 1..Len(sent) : sent[i].magic = {}
InStep == "overrun" \notin faults /\ ("cut" \notin faults \/ Plain)

(* As long as the receive FIFO did not overrun, what dispatch takes for a   *)
(* header is the header of one command, whole - whatever the data, if no    *)
(* command was cut, and after any number of cuts if no other byte is 0x30:  *)
(* serial_recv_block never joins the bytes of two commands.                 *)
HeadersIntact ==
    dbg = "dispatch" /\ InStep /\ IsHeader(buf) => Intact(buf)

(* Under the same conditions the data usbdbg_data_out gets for a command is *)
(* its data from the first byte on, in order, however the reads of          *)
(* serial_recv_block fell.                                                  *)
DataInOrder ==
    InStep /\ out # <<>> => \A k \in 1..Len(out) : out[k] = <<cur, HdrLen + k>>

(* While the calls of the two threads do not overlap and no write of        *)
(* several bytes has to make room, the console holds exactly the newest     *)
(* unread bytes, through every wrap, read, rewind and forced write.         *)
Quiet == put.pc = "run" /\ ~Busy /\ ~overlap
ConsoleIsNewest == Quiet /\ ~wide => Contents(rb) = newest

(* The host reads console bytes in the order they were printed, none twice, *)
(* and no copy leaves the pool, as long as the calls do not overlap: also   *)
(* after forced writes and although SENSOR_ID reads the console too.        *)
ConsoleInOrder ==
    ~overlap => /\ ~fault
                /\ \A i, j \in 1..Len(read) : i < j => read[i] < read[j]

MaxCount == CHOOSE n \in {l.count : l \in Loads} : \A l \in Loads : l.count <= n

(* When every interrupt brings one byte, the FIFO does not overrun and the  *)
(* host is in time, no command is cut and every one is carried out.         *)
Delivered ==
    [](faults \subseteq {"cut"} /\ ~overlap) =>
        \A i \in 1..MaxCount :
            (Len(sent) > i \/ (Len(sent) = i /\ AllSent)) ~> i \in done
=============================================================================
