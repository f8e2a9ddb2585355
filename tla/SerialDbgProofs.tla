--------------------------- MODULE SerialDbgProofs ---------------------------
(***************************************************************************)
(* The debug port, proved for every set of commands, every length of the   *)
(* header, the chunks, the FIFO and the console, and every burst.          *)
(*                                                                         *)
(* The line: as long as the receive FIFO did not overrun, the bytes from   *)
(* the block serial_recv_block collects through the FIFO to the receiver   *)
(* are an unbroken end of what the host sent, and in the data phase of a   *)
(* command they go on where usbdbg_data_out is.  Until a time-out cuts a   *)
(* command the bytes in flight begin with a header whenever one is read;   *)
(* after a cut they need not, but without another byte 0x30 the rest of    *)
(* the command is not taken for one.  So dispatch never sees a header of   *)
(* two commands, and data arrives in order.                                *)
(*                                                                         *)
(* The console: as long as the calls of the two threads do not overlap,    *)
(* the ring buffer, taken as the call in progress is going to leave it,    *)
(* holds the last bytes printed, and the host has bytes before them.       *)
(***************************************************************************)
EXTENDS SerialDbg, SequenceTheorems, TLAPS

----------------------------------------------------------------------------
(* The serial line: the inductive invariant *)

Bytes == Nat \X Nat
Commands == [op : Ops, len : Nat \ {0}, magic : SUBSET (Nat \ {0, 1})]

LineType ==
    /\ load \in Loads
    /\ sent \in Seq(Commands) /\ pos \in Nat
    /\ hw \in Seq(Bytes) /\ fifo \in Seq(Bytes) /\ buf \in Seq(Bytes) /\ out \in Seq(Bytes)
    /\ dbg \in {"header", "out", "delay", "dispatch", "in", "flush", "copy", "store"}
    /\ xfer \in Nat

\* What serial_recv_block has of the block it is collecting.
BufInv ==
    /\ dbg \in {"header", "out"} => Len(buf) < Wanted
    /\ dbg \in {"delay", "dispatch"} => Len(buf) = HdrLen
    /\ dbg \notin {"header", "out", "delay", "dispatch"} => buf = <<>>

\* The host is inside its last command.
PosInv == sent # <<>> => pos <= Total(sent[Len(sent)])

\* The bytes between the host and usbdbg.c.
InFlight == buf \o (fifo \o hw)

\* They are bytes of commands; from any of them on the bytes of its command follow each
\* other without a gap, and the last one is the last the host sent.
RangeInv ==
    \A k \in 1..Len(InFlight) :
        InFlight[k][1] \in 1..Len(sent) /\ InFlight[k][2] \in 1..Total(sent[InFlight[k][1]])
OrderInv ==
    \A j, k \in 1..Len(InFlight) :
        j <= k /\ InFlight[j][2] + (k - j) <= Total(sent[InFlight[j][1]]) =>
            InFlight[k] = <<InFlight[j][1], InFlight[j][2] + (k - j)>>
EndInv ==
    InFlight # <<>> =>
        LET z == InFlight[Len(InFlight)]
        IN  z = <<Len(sent), pos>> \/ (pos = 0 /\ z[2] = Total(sent[z[1]]))

\* In the data phase of a command the bytes in flight go on where usbdbg_data_out is, and
\* what is not in flight yet of the command the host sends next.
DataInv ==
    dbg = "out" =>
        LET have == HdrLen + Len(out)
        IN  /\ cur \in 1..Len(sent) /\ FromHost(sent[cur]) /\ Len(out) + xfer = sent[cur].len
            /\ xfer > 0
            /\ \A k \in 1..Len(InFlight) :
                 have + k <= Total(sent[cur]) => InFlight[k] = <<cur, have + k>>
            /\ have + Len(InFlight) < Total(sent[cur]) =>
                 cur = Len(sent) /\ pos = have + Len(InFlight)
OutInv == \A k \in 1..Len(out) : out[k] = <<cur, HdrLen + k>>

\* Behind the last byte of a command is the first byte of another.
NextInv ==
    \A k \in 1..Len(InFlight) - 1 :
        InFlight[k][2] = Total(sent[InFlight[k][1]]) => InFlight[k + 1][2] = 1

\* Outside the data phase the bytes in flight begin a command.
StartInv ==
    dbg # "out" =>
        /\ InFlight = <<>> => pos = 0 \/ AllSent
        /\ InFlight # <<>> => InFlight[1][2] = 1

Uncut == "cut" \notin faults
Followed == Uncut \/ Plain

StreamInv ==
    /\ RangeInv /\ OrderInv /\ EndInv /\ NextInv
    /\ Followed => DataInv /\ OutInv
    /\ Uncut => StartInv

LineInv ==
    /\ LineType /\ BufInv /\ PosInv
    /\ dbg = "out" => xfer > 0
    /\ "overrun" \notin faults => StreamInv

----------------------------------------------------------------------------
(* The console: the inductive invariant *)

Rings == [rm : BOOLEAN, ri : 0..RbSize - 1, wm : BOOLEAN, wi : 0..RbSize - 1,
          pool : [0..RbSize - 1 -> Int]]

\* A ring buffer outside the calls: the writer is not behind the reader.
Ring(r) ==
    /\ r \in Rings
    /\ r.rm = r.wm => r.ri <= r.wi
    /\ r.rm # r.wm => r.wi <= r.ri

\* It holds the last bytes printed.
HoldsLast(r) ==
    \A k \in 1..DataLen(r) : r.pool[(r.ri + k - 1) % RbSize] = printed - DataLen(r) + k

\* The ring buffer as the call in progress is going to leave it.
Advanced(r) == AdvanceWrite(r, Len(put.data), put.wraps)
Forced(r) == IF put.forced THEN PushRead(r, put.wraps) ELSE r
Settled ==
    IF put.pc = "flip" THEN Forced(Advanced(FlipWrite(rb)))
    ELSE IF put.pc = "advance" THEN Forced(Advanced(rb))
    ELSE IF put.pc = "push" THEN PushRead(rb, put.wraps)
    ELSE IF dbg = "flush" THEN RewindWrite(rb)
    ELSE IF dbg = "store" THEN AdvanceRead(rb, got.len, got.wraps)
    ELSE rb

\* And the bytes it should hold then.
Behind(s, len) == IF Len(s) < len THEN <<>> ELSE SubSeq(s, len + 1, Len(s))
SettledNewest ==
    IF put.pc # "run" THEN Newest(newest \o put.data)
    ELSE IF dbg = "flush" THEN <<>>
    ELSE IF dbg = "store" THEN Behind(newest, got.len)
    ELSE newest

ConsoleType ==
    /\ printed \in Nat /\ newest \in Seq(Int) /\ read \in Seq(Int)
    /\ put \in [pc : {"run", "flip", "advance", "push"}, data : Seq(Int),
                forced : BOOLEAN, wraps : BOOLEAN]
    /\ got \in [len : Nat, wraps : BOOLEAN]

\* The two threads are not in a call at once; a read takes what is there.
CallInv == ~fault /\ (put.pc = "run" \/ ~Busy)
CopyInv == dbg = "copy" => got.len \in 1..DataLen(rb)

\* The buffer holds the last bytes printed, the host has some of the bytes before them.
RingInv == Ring(Settled) /\ HoldsLast(Settled)
ReadInv ==
    /\ \A i \in 1..Len(read) : read[i] <= printed - DataLen(Settled)
    /\ \A i, j \in 1..Len(read) : i < j => read[i] < read[j]

\* Without a wide write the bytes it should hold are these bytes.
NewestInv ==
    ~wide =>
        /\ Len(SettledNewest) = DataLen(Settled)
        /\ \A k \in 1..Len(SettledNewest) : SettledNewest[k] = printed - Len(SettledNewest) + k

SoundInv == RingInv /\ ReadInv /\ NewestInv

ConsoleInv == ~overlap => ConsoleType /\ CallInv /\ CopyInv /\ SoundInv
----------------------------------------------------------------------------
(* The serial line: helpers *)

\* What three pieces of a sequence put together hold.
LEMMA ThreePieces ==
    ASSUME NEW S, NEW a \in Seq(S), NEW b \in Seq(S), NEW c \in Seq(S)
    PROVE  LET s == a \o (b \o c)
           IN  /\ s \in Seq(S) /\ Len(s) = Len(a) + Len(b) + Len(c)
               /\ Len(a) \in Nat /\ Len(b) \in Nat /\ Len(c) \in Nat
               /\ \A k \in 1..Len(s) :
                    s[k] = IF k <= Len(a) THEN a[k]
                           ELSE IF k <= Len(a) + Len(b) THEN b[k - Len(a)]
                           ELSE c[k - Len(a) - Len(b)]
<1>1. b \o c \in Seq(S) /\ Len(b \o c) = Len(b) + Len(c)
      /\ \A i \in 1..Len(b) + Len(c) :
           (b \o c)[i] = IF i <= Len(b) THEN b[i] ELSE c[i - Len(b)]
  BY ConcatProperties
<1> DEFINE d == b \o c
<1> HIDE DEF d
<1>2. d \in Seq(S) /\ Len(d) = Len(b) + Len(c)
      /\ \A i \in 1..Len(b) + Len(c) : d[i] = IF i <= Len(b) THEN b[i] ELSE c[i - Len(b)]
  BY <1>1 DEF d
<1>3. d \in Seq(S)
  BY <1>1 DEF d
<1>4. a \o d \in Seq(S) /\ Len(a \o d) = Len(a) + Len(d)
      /\ \A i \in 1..Len(a) + Len(d) :
           (a \o d)[i] = IF i <= Len(a) THEN a[i] ELSE d[i - Len(a)]
  BY <1>3, ConcatProperties
<1> DEFINE s == a \o d
<1> HIDE DEF s
<1>5. s \in Seq(S) /\ Len(s) = Len(a) + Len(d)
      /\ \A i \in 1..Len(a) + Len(d) : s[i] = IF i <= Len(a) THEN a[i] ELSE d[i - Len(a)]
  BY <1>4 DEF s
<1>6. Len(a) \in Nat /\ Len(b) \in Nat /\ Len(c) \in Nat
  OBVIOUS
<1>7. ASSUME NEW k \in 1..Len(s)
      PROVE  s[k] = IF k <= Len(a) THEN a[k]
                    ELSE IF k <= Len(a) + Len(b) THEN b[k - Len(a)]
                    ELSE c[k - Len(a) - Len(b)]
  <2>1. CASE k <= Len(a)
    BY <1>2, <1>5, <1>6, <2>1
  <2>2. CASE ~(k <= Len(a))
    <3>1. k - Len(a) \in 1..Len(b) + Len(c) /\ s[k] = d[k - Len(a)]
      BY <1>2, <1>5, <1>6, <2>2
    <3>2. d[k - Len(a)] = IF k - Len(a) <= Len(b) THEN b[k - Len(a)] ELSE c[(k - Len(a)) - Len(b)]
      BY <1>2, <3>1
    <3> QED BY <1>6, <2>2, <3>1, <3>2
  <2> QED BY <2>1, <2>2
<1> QED BY <1>2, <1>5, <1>6, <1>7 DEF s, d

\* The bytes in flight, by where they are.
LEMMA FlightParts ==
    ASSUME LineType
    PROVE  /\ InFlight \in Seq(Bytes) /\ Len(InFlight) = Len(buf) + Len(fifo) + Len(hw)
           /\ Len(buf) \in Nat /\ Len(fifo) \in Nat /\ Len(hw) \in Nat
           /\ \A k \in 1..Len(InFlight) :
                InFlight[k] = IF k <= Len(buf) THEN buf[k]
                              ELSE IF k <= Len(buf) + Len(fifo) THEN fifo[k - Len(buf)]
                              ELSE hw[k - Len(buf) - Len(fifo)]
  BY ThreePieces DEF LineType, InFlight

\* A command has its header at least, and its data when the host sends it.
LEMMA CommandTotal ==
    ASSUME NEW c \in Commands
    PROVE  /\ Total(c) \in Nat /\ Total(c) >= HdrLen /\ Total(c) >= 1
           /\ FromHost(c) => Total(c) = HdrLen + c.len
  BY SerialDbgAssumption DEF SerialDbgAssumption, Commands, Total

\* A byte is a command and a place in it.
LEMMA ByteIsPair ==
    ASSUME NEW x \in Bytes
    PROVE  x[1] \in Nat /\ x[2] \in Nat /\ x = <<x[1], x[2]>>
  BY DEF Bytes

\* The first n bytes in flight are gone, the others are still there.
Shifted(n) ==
    /\ n \in 0..Len(InFlight)
    /\ Len(InFlight') = Len(InFlight) - n
    /\ \A k \in 1..Len(InFlight') : InFlight'[k] = InFlight[k + n]

\* Bytes taken from the front leave the others in order.
LEMMA ShiftKeeps ==
    ASSUME LineType, LineType', RangeInv, OrderInv, EndInv, NextInv, NEW n, Shifted(n),
           UNCHANGED <<sent, pos>>
    PROVE  RangeInv' /\ OrderInv' /\ EndInv' /\ NextInv'
<1>1. Len(InFlight) \in Nat /\ Len(InFlight') \in Nat /\ InFlight \in Seq(Bytes) /\ n \in Nat
  BY FlightParts DEF Shifted
<1>2. InFlight' \in Seq(Bytes) /\ Len(InFlight') = Len(InFlight) - n
      /\ \A k \in 1..Len(InFlight') : k + n \in 1..Len(InFlight) /\ InFlight'[k] = InFlight[k + n]
  <2>1. InFlight' \in Seq(Bytes)
    BY ThreePieces DEF LineType, InFlight
  <2> QED BY <1>1, <2>1 DEF Shifted
<1>3. RangeInv'
  BY <1>1, <1>2 DEF RangeInv, Total, FromHost
<1>4. OrderInv'
  <2> SUFFICES ASSUME NEW j \in 1..Len(InFlight'), NEW k \in 1..Len(InFlight'), j <= k,
                      InFlight'[j][2] + (k - j) <= Total(sent[InFlight'[j][1]])
               PROVE  InFlight'[k] = <<InFlight'[j][1], InFlight'[j][2] + (k - j)>>
    BY <1>2 DEF OrderInv, Total, FromHost
  <2>1. /\ j + n \in 1..Len(InFlight) /\ k + n \in 1..Len(InFlight)
        /\ InFlight'[j] = InFlight[j + n] /\ InFlight'[k] = InFlight[k + n]
    BY <1>2
  <2>2. j + n <= k + n /\ (k + n) - (j + n) = k - j
    BY <1>1
  <2> QED BY <2>1, <2>2 DEF OrderInv
<1>5. EndInv'
  <2> SUFFICES ASSUME InFlight' # <<>>
               PROVE  LET z == InFlight'[Len(InFlight')]
                      IN  z = <<Len(sent), pos>> \/ (pos = 0 /\ z[2] = Total(sent[z[1]]))
    BY DEF EndInv, Total, FromHost
  <2>1. Len(InFlight') > 0
    BY <1>2, EmptySeq
  <2>2. InFlight'[Len(InFlight')] = InFlight[Len(InFlight)] /\ InFlight # <<>>
    BY <1>1, <1>2, <2>1, EmptySeq
  <2> QED BY <2>2 DEF EndInv
<1>6. NextInv'
  <2> SUFFICES ASSUME NEW k \in 1..Len(InFlight') - 1,
                      InFlight'[k][2] = Total(sent[InFlight'[k][1]])
               PROVE  InFlight'[k + 1][2] = 1
    BY DEF NextInv, Total, FromHost
  <2>1. /\ k \in 1..Len(InFlight') /\ k + 1 \in 1..Len(InFlight')
        /\ k + n \in 1..Len(InFlight) - 1 /\ (k + 1) + n = (k + n) + 1
    <3>1. Len(InFlight) \in Nat /\ n \in Nat /\ Len(InFlight') = Len(InFlight) - n
          /\ Len(InFlight') \in Nat
      BY <1>1, <1>2
    <3> QED BY <3>1
  <2>2. InFlight'[k] = InFlight[k + n] /\ InFlight'[k + 1] = InFlight[(k + n) + 1]
    BY <1>2, <2>1
  <2> QED BY <2>1, <2>2 DEF NextInv
<1> QED BY <1>3, <1>4, <1>5, <1>6

\* When a command has left the line, the next one begins.
LEMMA ShiftStarts ==
    ASSUME LineType, LineType', EndInv, NextInv, NEW n \in Nat \ {0}, Shifted(n),
           UNCHANGED <<sent, pos>>,
           InFlight[n][2] = Total(sent[InFlight[n][1]])
    PROVE  StartInv'
<1>1. InFlight \in Seq(Bytes) /\ InFlight' \in Seq(Bytes) /\ Len(InFlight) \in Nat
  <2>1. InFlight' \in Seq(Bytes)
    BY ThreePieces DEF LineType, InFlight
  <2> QED BY <2>1, FlightParts
<1>2. n \in 1..Len(InFlight) /\ Len(InFlight') = Len(InFlight) - n
  BY <1>1 DEF Shifted
<1>3. CASE Len(InFlight) = n
  <2>1. InFlight # <<>> /\ InFlight' = <<>>
    BY <1>1, <1>2, <1>3, EmptySeq
  <2>2. pos = 0 \/ InFlight[n] = <<Len(sent), pos>>
    BY <1>3, <2>1 DEF EndInv
  <2>3. pos = 0 \/ pos = Total(sent[Len(sent)])
    BY <2>2
  <2> QED BY <2>1, <2>3 DEF StartInv, AllSent, Total, FromHost
<1>4. CASE Len(InFlight) # n
  <2>1. n \in 1..Len(InFlight) - 1 /\ 1 \in 1..Len(InFlight') /\ 1 + n = n + 1
    BY <1>1, <1>2, <1>4
  <2>2. InFlight'[1] = InFlight[n + 1] /\ InFlight' # <<>>
    BY <1>1, <2>1, EmptySeq DEF Shifted
  <2>3. InFlight[n + 1][2] = 1
    BY <2>1 DEF NextInv
  <2> QED BY <2>2, <2>3 DEF StartInv
<1> QED BY <1>3, <1>4

----------------------------------------------------------------------------
(* The serial line: the host and the interrupt *)

\* A new command: what is in flight belongs to the commands before it.
LEMMA HostBeginsLine ==
    ASSUME LineInv, NEW c \in load.commands, HostBegins(c)
    PROVE  LineInv'
<1>1. LineType /\ BufInv /\ PosInv /\ AllSent
      /\ sent' = Append(sent, c) /\ pos' = 0
      /\ UNCHANGED <<load, hw, fifo, buf, out, dbg, xfer, cur, faults>>
  BY DEF LineInv, HostBegins, line, thread, history
<1>2. c \in Commands
  BY <1>1, SerialDbgAssumption DEF SerialDbgAssumption, LineType, Commands
<1>3. /\ sent \in Seq(Commands) /\ sent' \in Seq(Commands)
      /\ Len(sent) \in Nat /\ Len(sent') = Len(sent) + 1
      /\ \A i \in 1..Len(sent) : sent'[i] = sent[i]
  BY <1>1, <1>2, AppendProperties DEF LineType
<1>4. sent'[Len(sent')] = c
  BY <1>1, <1>2, <1>3, AppendProperties
<1>5. LineType' /\ BufInv' /\ PosInv'
  <2>1. LineType'
    BY <1>1, <1>3 DEF LineType
  <2>2. BufInv'
    BY <1>1 DEF BufInv, Wanted, Least
  <2>3. PosInv'
    <3>1. Total(c) \in Nat
      BY <1>2, CommandTotal
    <3> QED BY <1>1, <1>4, <3>1 DEF PosInv, Total, FromHost
  <2> QED BY <2>1, <2>2, <2>3
<1>6. ASSUME "overrun" \notin faults PROVE StreamInv'
  <2>1. /\ InFlight' = InFlight /\ RangeInv /\ OrderInv /\ EndInv /\ NextInv
        /\ Followed => DataInv /\ OutInv
        /\ Uncut => StartInv
        /\ Uncut' = Uncut
    BY <1>1, <1>6 DEF InFlight, LineInv, StreamInv, Uncut
  <2>2. \A i \in 1..Len(sent) : i \in 1..Len(sent') /\ Total(sent'[i]) = Total(sent[i])
                                /\ FromHost(sent'[i]) = FromHost(sent[i])
    BY <1>3
  <2>3. RangeInv' /\ OrderInv' /\ NextInv'
    <3>1. RangeInv' /\ OrderInv'
      BY <2>1, <2>2 DEF RangeInv, OrderInv, Total, FromHost
    <3>2. \A k \in 1..Len(InFlight) - 1 : k \in 1..Len(InFlight)
      BY <1>1, FlightParts
    <3>3. NextInv'
      BY <2>1, <2>2, <3>2 DEF RangeInv, NextInv, Total, FromHost
    <3> QED BY <3>1, <3>3
  <2>4. EndInv'
    <3> SUFFICES ASSUME InFlight # <<>>
                 PROVE  LET z == InFlight[Len(InFlight)]
                        IN  pos' = 0 /\ z[2] = Total(sent'[z[1]])
      BY <2>1 DEF EndInv, Total, FromHost
    <3> DEFINE z == InFlight[Len(InFlight)]
    <3>1. InFlight \in Seq(Bytes) /\ Len(InFlight) \in 1..Len(InFlight)
      BY <1>1, FlightParts, EmptySeq
    <3>2. z[1] \in 1..Len(sent) /\ z[2] \in 1..Total(sent[z[1]])
      BY <2>1, <3>1 DEF RangeInv
    <3>3. sent # <<>> /\ sent[Len(sent)] \in Commands
      BY <1>3, <3>2
    <3>4. pos = Total(sent[Len(sent)]) /\ pos # 0
      BY <1>1, <3>3, CommandTotal DEF AllSent
    <3>5. z = <<Len(sent), pos>>
      BY <2>1, <3>4 DEF EndInv
    <3>6. z[2] = Total(sent[z[1]])
      BY <3>4, <3>5
    <3> QED BY <1>1, <2>2, <3>2, <3>6
  <2>5. ASSUME DataInv PROVE DataInv'
    <3>1. CASE dbg # "out"
      BY <1>1, <3>1 DEF DataInv
    <3>2. CASE dbg = "out"
      <4> DEFINE have == HdrLen + Len(out)
      <4>1. cur \in 1..Len(sent) /\ FromHost(sent[cur]) /\ Len(out) + xfer = sent[cur].len /\ xfer > 0
            /\ (\A k \in 1..Len(InFlight) :
                  have + k <= Total(sent[cur]) => InFlight[k] = <<cur, have + k>>)
            /\ (have + Len(InFlight) < Total(sent[cur]) =>
                  cur = Len(sent) /\ pos = have + Len(InFlight))
        BY <2>5, <3>2 DEF DataInv
      <4>2. sent'[cur] = sent[cur] /\ cur \in 1..Len(sent')
        BY <1>3, <4>1
      <4>3. ~(have + Len(InFlight) < Total(sent[cur]))
        <5> SUFFICES ASSUME have + Len(InFlight) < Total(sent[cur]) PROVE FALSE
          OBVIOUS
        <5>1. cur = Len(sent) /\ pos = have + Len(InFlight)
          BY <4>1
        <5>2. sent # <<>>
          BY <4>1, <1>3
        <5>3. pos = Total(sent[cur])
          BY <1>1, <5>1, <5>2 DEF AllSent
        <5>4. Total(sent[cur]) \in Nat
          BY <1>3, <4>1, CommandTotal
        <5> QED BY <5>1, <5>3, <5>4
      <4> QED BY <1>1, <2>1, <4>1, <4>2, <4>3 DEF DataInv, Total, FromHost
    <3> QED BY <3>1, <3>2
  <2>6. OutInv => OutInv'
    BY <1>1 DEF OutInv
  <2>7. Followed' => Followed
    <3>1. Plain' => Plain
      BY <1>3 DEF Plain
    <3> QED BY <2>1, <3>1 DEF Followed
  <2>8. Uncut => StartInv'
    BY <1>1, <2>1 DEF StartInv
  <2> QED BY <2>1, <2>3, <2>4, <2>5, <2>6, <2>7, <2>8 DEF StreamInv
<1> QED BY <1>1, <1>5, <1>6 DEF LineInv

\* The next byte of the command goes on where the bytes in flight end.
LEMMA HostByteLine ==
    ASSUME LineInv, HostByte
    PROVE  LineInv'
<1> DEFINE b == <<Len(sent), pos + 1>>
           n == Len(InFlight)
<1>1. /\ LineType /\ BufInv /\ PosInv
      /\ sent # <<>> /\ pos # Total(sent[Len(sent)])
      /\ hw' = Append(hw, b) /\ pos' = pos + 1
      /\ UNCHANGED <<load, sent, fifo, buf, out, dbg, xfer, cur, faults>>
  BY DEF LineInv, HostByte, AllSent, thread, history
<1>2. sent \in Seq(Commands) /\ Len(sent) \in Nat /\ Len(sent) \in 1..Len(sent)
      /\ sent[Len(sent)] \in Commands /\ pos \in Nat
  BY <1>1, EmptySeq DEF LineType
<1>3. Total(sent[Len(sent)]) \in Nat /\ pos < Total(sent[Len(sent)])
  BY <1>1, <1>2, CommandTotal DEF PosInv
<1>4. b \in Bytes /\ hw' \in Seq(Bytes)
  <2>1. b \in Bytes
    BY <1>2 DEF Bytes
  <2> QED BY <1>1, <2>1, AppendProperties DEF LineType
<1>5. LineType' /\ BufInv' /\ PosInv'
  <2>1. LineType'
    BY <1>1, <1>2, <1>4 DEF LineType
  <2>2. BufInv'
    BY <1>1 DEF BufInv, Wanted, Least
  <2>3. PosInv'
    BY <1>1, <1>2, <1>3 DEF PosInv, Total, FromHost
  <2> QED BY <2>1, <2>2, <2>3
<1>6. /\ InFlight \in Seq(Bytes) /\ n \in Nat /\ Len(InFlight') = n + 1
      /\ \A k \in 1..n : InFlight'[k] = InFlight[k]
      /\ InFlight'[n + 1] = b
  <2>1. /\ hw \in Seq(Bytes) /\ Len(hw') = Len(hw) + 1 /\ hw'[Len(hw) + 1] = b
        /\ \A k \in 1..Len(hw) : hw'[k] = hw[k]
    BY <1>1, <1>4, AppendProperties DEF LineType
  <2>2. buf' = buf /\ fifo' = fifo
    BY <1>1
  <2>3. /\ InFlight \in Seq(Bytes) /\ n = Len(buf) + Len(fifo) + Len(hw)
        /\ Len(buf) \in Nat /\ Len(fifo) \in Nat /\ Len(hw) \in Nat
        /\ \A k \in 1..n :
             InFlight[k] = IF k <= Len(buf) THEN buf[k]
                           ELSE IF k <= Len(buf) + Len(fifo) THEN fifo[k - Len(buf)]
                           ELSE hw[k - Len(buf) - Len(fifo)]
    BY <1>1, FlightParts
  <2>4. /\ Len(InFlight') = Len(buf) + Len(fifo) + Len(hw')
        /\ \A k \in 1..Len(InFlight') :
             InFlight'[k] = IF k <= Len(buf) THEN buf[k]
                            ELSE IF k <= Len(buf) + Len(fifo) THEN fifo[k - Len(buf)]
                            ELSE hw'[k - Len(buf) - Len(fifo)]
    <3>1. InFlight' = buf \o (fifo \o hw') /\ buf \in Seq(Bytes) /\ fifo \in Seq(Bytes)
      BY <1>1, <2>2 DEF LineType, InFlight
    <3> QED BY <1>4, <3>1, ThreePieces
  <2>5. Len(InFlight') = n + 1
    BY <2>1, <2>3, <2>4
  <2>6. ASSUME NEW k \in 1..n PROVE InFlight'[k] = InFlight[k]
    <3>1. k \in 1..Len(InFlight')
      BY <2>3, <2>5
    <3>2. CASE k <= Len(buf) + Len(fifo)
      BY <2>3, <2>4, <3>1, <3>2
    <3>3. CASE ~(k <= Len(buf) + Len(fifo))
      <4>1. k - Len(buf) - Len(fifo) \in 1..Len(hw) /\ ~(k <= Len(buf))
        BY <2>3, <3>3
      <4>2. InFlight'[k] = hw'[k - Len(buf) - Len(fifo)] /\ InFlight[k] = hw[k - Len(buf) - Len(fifo)]
        BY <2>3, <2>4, <3>1, <3>3, <4>1
      <4> QED BY <2>1, <4>1, <4>2
    <3> QED BY <3>2, <3>3
  <2>7. InFlight'[n + 1] = b
    <3>1. n + 1 \in 1..Len(InFlight') /\ ~(n + 1 <= Len(buf)) /\ ~(n + 1 <= Len(buf) + Len(fifo))
          /\ (n + 1) - Len(buf) - Len(fifo) = Len(hw) + 1
      BY <2>1, <2>3, <2>5
    <3> QED BY <2>1, <2>4, <3>1
  <2> QED BY <2>3, <2>5, <2>6, <2>7
<1>7. ASSUME "overrun" \notin faults PROVE StreamInv'
  <2>1. /\ RangeInv /\ OrderInv /\ EndInv /\ NextInv
        /\ Followed => DataInv /\ OutInv
        /\ Uncut => StartInv
        /\ Uncut' = Uncut /\ Followed' = Followed
    BY <1>1, <1>7 DEF LineInv, StreamInv, Uncut, Followed, Plain
  <2>2. RangeInv'
    <3> SUFFICES ASSUME NEW k \in 1..Len(InFlight')
                 PROVE  InFlight'[k][1] \in 1..Len(sent)
                        /\ InFlight'[k][2] \in 1..Total(sent[InFlight'[k][1]])
      BY <1>1 DEF RangeInv, Total, FromHost
    <3>1. CASE k = n + 1
      BY <1>2, <1>3, <1>6, <3>1
    <3>2. CASE k # n + 1
      <4>1. k \in 1..n
        BY <1>6, <3>2
      <4> QED BY <1>6, <2>1, <4>1 DEF RangeInv
    <3> QED BY <3>1, <3>2
  <2>3. OrderInv'
    <3> SUFFICES ASSUME NEW j \in 1..Len(InFlight'), NEW k \in 1..Len(InFlight'), j <= k,
                        InFlight'[j][2] + (k - j) <= Total(sent[InFlight'[j][1]])
                 PROVE  InFlight'[k] = <<InFlight'[j][1], InFlight'[j][2] + (k - j)>>
      BY <1>1 DEF OrderInv, Total, FromHost
    <3>1. CASE k \in 1..n
      <4>1. j \in 1..n
        BY <1>6, <3>1
      <4> QED BY <1>6, <2>1, <3>1, <4>1 DEF OrderInv
    <3>2. CASE j = n + 1
      <4>1. k = n + 1 /\ k - j = 0
        BY <1>6, <3>2
      <4>2. b[1] = Len(sent) /\ b[2] + 0 = pos + 1
        BY <1>2
      <4> QED BY <1>6, <3>2, <4>1, <4>2
    <3>3. CASE k = n + 1 /\ j # n + 1
      <4>1. j \in 1..n /\ n \in 1..n /\ j <= n /\ k - j = (n - j) + 1
        BY <1>6, <3>3
      <4> DEFINE i == InFlight[j][1]
                 q == InFlight[j][2]
      <4>2. InFlight[j] \in Bytes /\ InFlight'[j] = InFlight[j] /\ InFlight'[k] = b
        BY <1>6, <3>3, <4>1
      <4>3. q \in Nat /\ i \in 1..Len(sent)
        BY <2>1, <4>1, <4>2, ByteIsPair DEF RangeInv
      <4>4. Total(sent[i]) \in Nat
        <5>1. sent[i] \in Commands
          BY <1>2, <4>3
        <5> QED BY <5>1, CommandTotal
      <4>5. q + (n - j) < Total(sent[i]) /\ q + (n - j) <= Total(sent[i])
        BY <1>6, <4>1, <4>2, <4>3, <4>4
      <4>6. InFlight[n] = <<i, q + (n - j)>>
        BY <2>1, <4>1, <4>5 DEF OrderInv
      <4>7. InFlight # <<>>
        BY <1>6, <4>1, EmptySeq
      <4>8. InFlight[n] = <<Len(sent), pos>>
        <5>1. InFlight[n][2] # Total(sent[InFlight[n][1]])
          BY <4>1, <4>3, <4>4, <4>5, <4>6
        <5> QED BY <2>1, <4>7, <5>1 DEF EndInv
      <4>9. i = Len(sent) /\ q + (n - j) = pos
        BY <4>6, <4>8
      <4>10. q + (k - j) = pos + 1
        BY <1>6, <4>1, <4>3, <4>9
      <4> QED BY <4>2, <4>9, <4>10
    <3> QED BY <1>6, <3>1, <3>2, <3>3
  <2>4. EndInv'
    BY <1>1, <1>6 DEF EndInv
  <2>5. ASSUME DataInv PROVE DataInv'
    <3>1. CASE dbg # "out"
      BY <1>1, <3>1 DEF DataInv
    <3>2. CASE dbg = "out"
      <4> DEFINE have == HdrLen + Len(out)
      <4>1. cur \in 1..Len(sent) /\ FromHost(sent[cur]) /\ Len(out) + xfer = sent[cur].len /\ xfer > 0
            /\ (\A k \in 1..n : have + k <= Total(sent[cur]) => InFlight[k] = <<cur, have + k>>)
            /\ (have + n < Total(sent[cur]) => cur = Len(sent) /\ pos = have + n)
        BY <2>5, <3>2 DEF DataInv
      <4>2. Total(sent[cur]) \in Nat /\ have \in Nat
        <5>1. sent[cur] \in Commands /\ Len(out) \in Nat
          BY <1>1, <1>2, <4>1 DEF LineType
        <5> QED BY <5>1, CommandTotal, SerialDbgAssumption DEF SerialDbgAssumption
      <4>3. \A k \in 1..n + 1 : have + k <= Total(sent[cur]) => InFlight'[k] = <<cur, have + k>>
        <5> SUFFICES ASSUME NEW k \in 1..n + 1, have + k <= Total(sent[cur])
                     PROVE  InFlight'[k] = <<cur, have + k>>
          OBVIOUS
        <5>1. CASE k \in 1..n
          BY <1>6, <4>1, <5>1
        <5>2. CASE k = n + 1
          <6>1. cur = Len(sent) /\ pos = have + n
            BY <1>6, <4>1, <4>2, <5>2
          <6>2. have + k = pos + 1
            BY <1>6, <4>2, <5>2, <6>1
          <6> QED BY <1>6, <5>2, <6>1, <6>2
        <5> QED BY <1>6, <5>1, <5>2
      <4>4. have + (n + 1) < Total(sent[cur]) => cur = Len(sent) /\ pos + 1 = have + (n + 1)
        BY <1>2, <1>6, <4>1, <4>2
      <4> HIDE DEF have, n, b
      <4>5. /\ \A k \in 1..Len(InFlight') :
                 have + k <= Total(sent[cur]) => InFlight'[k] = <<cur, have + k>>
            /\ have + Len(InFlight') < Total(sent[cur]) =>
                 cur = Len(sent) /\ pos' = have + Len(InFlight')
        BY <1>1, <1>6, <4>3, <4>4
      <4> QED BY <1>1, <4>1, <4>5 DEF have, DataInv, Total, FromHost
    <3> QED BY <3>1, <3>2
  <2>6. OutInv => OutInv'
    BY <1>1 DEF OutInv
  <2>7. NextInv'
    <3> SUFFICES ASSUME NEW k \in 1..Len(InFlight') - 1,
                        InFlight'[k][2] = Total(sent[InFlight'[k][1]])
                 PROVE  InFlight'[k + 1][2] = 1
      BY <1>1 DEF NextInv, Total, FromHost
    <3>1. k \in 1..n
      BY <1>6
    <3>2. CASE k = n
      <4>1. InFlight # <<>> /\ InFlight'[k] = InFlight[n] /\ InFlight'[k + 1] = b
        BY <1>6, <3>1, <3>2, EmptySeq
      <4>2. InFlight[n] # <<Len(sent), pos>>
        BY <1>2, <1>3, <4>1
      <4>3. pos = 0
        BY <2>1, <4>1, <4>2 DEF EndInv
      <4> QED BY <4>1, <4>3
    <3>3. CASE k # n
      <4>1. k \in 1..n - 1 /\ k + 1 \in 1..n
        BY <1>6, <3>1, <3>3
      <4> QED BY <1>6, <2>1, <3>1, <4>1 DEF NextInv
    <3> QED BY <3>2, <3>3
  <2>8. ASSUME Uncut PROVE StartInv'
    <3> SUFFICES ASSUME dbg # "out" PROVE InFlight' # <<>> /\ InFlight'[1][2] = 1
      BY <1>1 DEF StartInv
    <3>1. InFlight' # <<>>
      BY <1>6, EmptySeq
    <3>2. CASE InFlight = <<>>
      <4>1. n = 0 /\ pos = 0
        BY <1>1, <2>1, <2>8, <3>2, EmptySeq DEF StartInv, AllSent
      <4> QED BY <1>6, <3>1, <4>1
    <3>3. CASE InFlight # <<>>
      <4>1. 1 \in 1..n /\ InFlight[1][2] = 1
        BY <1>6, <2>1, <2>8, <3>3, EmptySeq DEF StartInv
      <4> QED BY <1>6, <3>1, <4>1
    <3> QED BY <3>2, <3>3
  <2> QED BY <2>1, <2>2, <2>3, <2>4, <2>5, <2>6, <2>7, <2>8 DEF StreamInv
<1> QED BY <1>1, <1>5, <1>7 DEF LineInv

\* What is in flight stays, and no data phase begins.
LEMMA StreamSame ==
    ASSUME StreamInv, InFlight' = InFlight, UNCHANGED <<sent, pos, out, cur>>,
           dbg' = "out" => xfer' = xfer,
           (dbg' = "out") = (dbg = "out"),
           "cut" \in faults => "cut" \in faults'
    PROVE  StreamInv'
<1>1. RangeInv' /\ OrderInv' /\ EndInv' /\ NextInv'
  BY DEF StreamInv, RangeInv, OrderInv, EndInv, NextInv, Total, FromHost
<1>2. DataInv => DataInv'
  BY DEF DataInv, Total, FromHost
<1>3. OutInv => OutInv'
  BY DEF OutInv
<1>4. StartInv => StartInv'
  BY DEF StartInv, AllSent, Total, FromHost
<1>5. (Followed' => Followed) /\ (Uncut' => Uncut)
  BY DEF Followed, Uncut, Plain
<1> QED BY <1>1, <1>2, <1>3, <1>4, <1>5 DEF StreamInv

\* The interrupt moves the bytes into the FIFO; unless it overruns, none is lost.
LEMMA ReceiveLine ==
    ASSUME LineInv, Receive
    PROVE  LineInv'
<1> DEFINE all == fifo \o hw
           drop == Len(all) - (RxSize - 1)
<1>1. /\ LineType /\ BufInv /\ PosInv /\ fifo' = Pushed /\ hw' = <<>>
      /\ UNCHANGED <<load, sent, pos, buf, out, dbg, xfer, cur>>
      /\ "overrun" \notin faults' =>
           "overrun" \notin faults /\ ~(Len(fifo) + Len(hw) > RxSize - 1)
      /\ "cut" \in faults => "cut" \in faults'
  BY DEF LineInv, Receive, host, thread
<1>2. /\ fifo \in Seq(Bytes) /\ hw \in Seq(Bytes) /\ RxSize \in Nat
      /\ all \in Seq(Bytes) /\ Len(all) = Len(fifo) + Len(hw) /\ Len(all) \in Nat
  BY <1>1, ConcatProperties, SerialDbgAssumption DEF SerialDbgAssumption, LineType
<1>3. Pushed = IF drop > 0 THEN SubSeq(all, drop + 1, Len(all)) ELSE all
  BY DEF Pushed
<1>4. Pushed \in Seq(Bytes)
  <2> HIDE DEF all
  <2>1. CASE drop > 0
    <3>1. \A i \in drop + 1..Len(all) : all[i] \in Bytes
      BY <1>2, <2>1
    <3>2. drop + 1 \in Int /\ Len(all) \in Int
      BY <1>2
    <3>3. SubSeq(all, drop + 1, Len(all)) \in Seq(Bytes)
      BY <3>1, <3>2, SubSeqProperties
    <3> QED BY <1>3, <2>1, <3>3
  <2> QED BY <1>2, <1>3, <2>1
<1>5. LineType' /\ BufInv' /\ PosInv' /\ (dbg' = "out" => xfer' > 0)
  <2>1. LineType'
    BY <1>1, <1>4, EmptySeq DEF LineType
  <2> QED BY <1>1, <2>1 DEF LineInv, BufInv, Wanted, Least, PosInv, Total, FromHost
<1>6. ASSUME "overrun" \notin faults' PROVE StreamInv'
  <2>1. ~(drop > 0) /\ StreamInv
    BY <1>1, <1>2, <1>6 DEF LineInv
  <2>2. fifo' = all
    BY <1>1, <1>3, <2>1
  <2>3. InFlight' = InFlight
    <3>1. InFlight' = buf \o (all \o <<>>)
      BY <1>1, <2>2 DEF InFlight
    <3>2. all \o <<>> = all
      BY <1>2, ConcatEmptySeq
    <3> QED BY <3>1, <3>2 DEF InFlight
  <2> QED BY <1>1, <2>1, <2>3, StreamSame
<1> QED BY <1>5, <1>6 DEF LineInv

----------------------------------------------------------------------------
(* The serial line: serial_recv_block *)

\* What a read adds to the block, and what it leaves.
LEMMA ReadParts ==
    ASSUME LineType, BufInv, dbg \in {"header", "out"}
    PROVE  LET all == buf \o SubSeq(fifo, 1, Readable)
               rest == SubSeq(fifo, Readable + 1, Len(fifo))
           IN  /\ all \in Seq(Bytes) /\ rest \in Seq(Bytes)
               /\ Wanted \in Nat /\ Missing = Wanted - Len(buf) /\ Missing > 0
               /\ Readable \in 0..Len(fifo) /\ Readable <= Missing
               /\ Len(all) = Len(buf) + Readable /\ Len(rest) = Len(fifo) - Readable
               /\ \A k \in 1..Len(all) : all[k] = IF k <= Len(buf) THEN buf[k] ELSE fifo[k - Len(buf)]
               /\ \A k \in 1..Len(rest) : rest[k] = fifo[k + Readable]
<1> DEFINE r == Readable
           front == SubSeq(fifo, 1, r)
           rest == SubSeq(fifo, r + 1, Len(fifo))
<1>1. /\ fifo \in Seq(Bytes) /\ buf \in Seq(Bytes) /\ Len(fifo) \in Nat /\ Len(buf) \in Nat
      /\ \A i \in 1..Len(fifo) : fifo[i] \in Bytes
  BY DEF LineType
<1>2. Wanted \in Nat /\ Missing = Wanted - Len(buf) /\ Missing > 0 /\ Missing \in Nat
  BY <1>1, SerialDbgAssumption DEF SerialDbgAssumption, LineType, BufInv, Wanted, Missing, Least
<1>3. r \in 0..Len(fifo) /\ r <= Missing
  BY <1>1, <1>2 DEF Readable, Least
<1> HIDE DEF r
<1>4. /\ front \in Seq(Bytes) /\ Len(front) = r
      /\ \A i \in 1..r : front[i] = fifo[i]
  <2>1. \A i \in 1..r : fifo[i] \in Bytes
    BY <1>1, <1>3
  <2>2. 1 \in Int /\ r \in Int
    BY <1>3
  <2>3. /\ front \in Seq(Bytes) /\ Len(front) = IF 1 <= r THEN r - 1 + 1 ELSE 0
        /\ \A i \in 1..r - 1 + 1 : front[i] = fifo[1 + i - 1]
    BY <2>1, <2>2, SubSeqProperties
  <2>4. r - 1 + 1 = r /\ \A i \in 1..r : 1 + i - 1 = i
    BY <1>3
  <2> QED BY <1>3, <2>3, <2>4
<1>5. /\ rest \in Seq(Bytes) /\ Len(rest) = Len(fifo) - r
      /\ \A i \in 1..Len(fifo) - r : rest[i] = fifo[i + r]
  <2>1. \A i \in r + 1..Len(fifo) : fifo[i] \in Bytes
    BY <1>1, <1>3
  <2>2. r + 1 \in Int /\ Len(fifo) \in Int
    BY <1>1, <1>3
  <2>3. /\ rest \in Seq(Bytes)
        /\ Len(rest) = IF r + 1 <= Len(fifo) THEN Len(fifo) - (r + 1) + 1 ELSE 0
        /\ \A i \in 1..Len(fifo) - (r + 1) + 1 : rest[i] = fifo[r + 1 + i - 1]
    BY <2>1, <2>2, SubSeqProperties
  <2>4. /\ Len(fifo) - (r + 1) + 1 = Len(fifo) - r
        /\ r + 1 <= Len(fifo) \/ Len(fifo) - r = 0
        /\ \A i \in 1..Len(fifo) - r : r + 1 + i - 1 = i + r
    BY <1>1, <1>3
  <2> HIDE DEF rest
  <2> QED BY <2>3, <2>4
<1> HIDE DEF front, rest
<1>6. /\ buf \o front \in Seq(Bytes) /\ Len(buf \o front) = Len(buf) + r
      /\ \A k \in 1..Len(buf) + r :
           (buf \o front)[k] = IF k <= Len(buf) THEN buf[k] ELSE front[k - Len(buf)]
  BY <1>1, <1>4, ConcatProperties
<1>7. ASSUME NEW k \in 1..Len(buf) + r
      PROVE  (buf \o front)[k] = IF k <= Len(buf) THEN buf[k] ELSE fifo[k - Len(buf)]
  <2>1. CASE k <= Len(buf)
    BY <1>6, <2>1
  <2>2. CASE ~(k <= Len(buf))
    <3>1. k - Len(buf) \in 1..r
      BY <1>1, <1>3, <2>2
    <3> QED BY <1>4, <1>6, <2>2, <3>1
  <2> QED BY <2>1, <2>2
<1> QED BY <1>2, <1>3, <1>5, <1>6, <1>7 DEF r, front, rest

\* A read moves the bytes in flight on towards the block, and a complete block of data
\* leaves the line as a whole.
LEMMA RecvFlight ==
    ASSUME LineType, LineType', BufInv, RecvBlock
    PROVE  LET all == buf \o SubSeq(fifo, 1, Readable)
           IN  /\ buf' = all => Shifted(0)
               /\ buf' = <<>> => Shifted(Len(all))
               /\ \A k \in 1..Len(all) : k \in 1..Len(InFlight) /\ all[k] = InFlight[k]
<1> DEFINE all == buf \o SubSeq(fifo, 1, Readable)
           rest == SubSeq(fifo, Readable + 1, Len(fifo))
           r == Readable
<1>1. dbg \in {"header", "out"} /\ fifo' = rest /\ hw' = hw
  BY DEF RecvBlock
<1>2. /\ all \in Seq(Bytes) /\ rest \in Seq(Bytes) /\ r \in 0..Len(fifo)
      /\ Len(all) = Len(buf) + r /\ Len(rest) = Len(fifo) - r
      /\ \A k \in 1..Len(all) : all[k] = IF k <= Len(buf) THEN buf[k] ELSE fifo[k - Len(buf)]
      /\ \A k \in 1..Len(rest) : rest[k] = fifo[k + r]
  BY <1>1, ReadParts
<1>3. /\ Len(InFlight) = Len(buf) + Len(fifo) + Len(hw)
      /\ Len(buf) \in Nat /\ Len(fifo) \in Nat /\ Len(hw) \in Nat
      /\ \A k \in 1..Len(InFlight) :
           InFlight[k] = IF k <= Len(buf) THEN buf[k]
                         ELSE IF k <= Len(buf) + Len(fifo) THEN fifo[k - Len(buf)]
                         ELSE hw[k - Len(buf) - Len(fifo)]
  BY FlightParts
<1> HIDE DEF all, rest, r
<1>4. ASSUME NEW k \in 1..Len(all) PROVE k \in 1..Len(InFlight) /\ all[k] = InFlight[k]
  <2>1. k \in 1..Len(InFlight) /\ k <= Len(buf) + Len(fifo)
    BY <1>2, <1>3
  <2>2. all[k] = IF k <= Len(buf) THEN buf[k] ELSE fifo[k - Len(buf)]
    BY <1>2
  <2>3. InFlight[k] = IF k <= Len(buf) THEN buf[k] ELSE fifo[k - Len(buf)]
    BY <1>3, <2>1
  <2> QED BY <2>1, <2>2, <2>3
<1>5. ASSUME buf' = all PROVE Shifted(0)
  <2>1. /\ Len(InFlight') = Len(all) + Len(rest) + Len(hw)
        /\ \A k \in 1..Len(InFlight') :
             InFlight'[k] = IF k <= Len(all) THEN all[k]
                            ELSE IF k <= Len(all) + Len(rest) THEN rest[k - Len(all)]
                            ELSE hw[k - Len(all) - Len(rest)]
    <3>1. InFlight' = all \o (rest \o hw) /\ hw \in Seq(Bytes)
      BY <1>1, <1>5 DEF LineType, InFlight
    <3> DEFINE s == all \o (rest \o hw)
    <3>2. /\ Len(s) = Len(all) + Len(rest) + Len(hw)
          /\ \A k \in 1..Len(s) :
               s[k] = IF k <= Len(all) THEN all[k]
                      ELSE IF k <= Len(all) + Len(rest) THEN rest[k - Len(all)]
                      ELSE hw[k - Len(all) - Len(rest)]
      <4>1. all \in Seq(Bytes) /\ rest \in Seq(Bytes) /\ hw \in Seq(Bytes)
        BY <1>2, <3>1
      <4> QED BY <4>1, ThreePieces
    <3>3. InFlight' = s
      BY <3>1
    <3> HIDE DEF s
    <3> QED BY <3>2, <3>3
  <2>2. Len(InFlight') = Len(InFlight)
    BY <1>2, <1>3, <2>1
  <2>3. ASSUME NEW k \in 1..Len(InFlight') PROVE InFlight'[k] = InFlight[k]
    <3>1. k \in 1..Len(InFlight)
      BY <2>2
    <3>2. CASE k <= Len(all)
      <4>1. k \in 1..Len(all)
        BY <1>2, <1>3, <3>2
      <4> QED BY <1>4, <2>1, <3>2, <4>1
    <3>3. CASE ~(k <= Len(all)) /\ k <= Len(all) + Len(rest)
      <4>1. k - Len(all) \in 1..Len(rest) /\ (k - Len(all)) + r = k - Len(buf)
            /\ ~(k <= Len(buf)) /\ k <= Len(buf) + Len(fifo)
        BY <1>2, <1>3, <3>3
      <4>2. InFlight'[k] = rest[k - Len(all)] /\ InFlight[k] = fifo[k - Len(buf)]
        BY <1>3, <2>1, <3>1, <3>3, <4>1
      <4>3. rest[k - Len(all)] = fifo[(k - Len(all)) + r]
        BY <1>2, <4>1
      <4> QED BY <4>1, <4>2, <4>3
    <3>4. CASE ~(k <= Len(all) + Len(rest))
      <4>1. Len(all) + Len(rest) = Len(buf) + Len(fifo)
            /\ k - Len(all) - Len(rest) = k - Len(buf) - Len(fifo)
            /\ ~(k <= Len(all)) /\ ~(k <= Len(buf))
        BY <1>2, <1>3, <3>4
      <4> QED BY <1>3, <2>1, <3>1, <3>4, <4>1
    <3> QED BY <3>2, <3>3, <3>4
  <2>4. \A k \in 1..Len(InFlight') : k + 0 = k
    BY <1>3, <2>2
  <2> QED BY <1>3, <2>2, <2>3, <2>4 DEF Shifted
<1>6. ASSUME buf' = <<>> PROVE Shifted(Len(all))
  <2>1. /\ Len(InFlight') = Len(rest) + Len(hw)
        /\ \A k \in 1..Len(InFlight') :
             InFlight'[k] = IF k <= Len(rest) THEN rest[k] ELSE hw[k - Len(rest)]
    <3>1. <<>> \o (rest \o hw) = rest \o hw
      <4>1. rest \o hw \in Seq(Bytes)
        BY <1>2, ConcatProperties DEF LineType
      <4> QED BY <4>1, ConcatEmptySeq
    <3>2. InFlight' = rest \o hw
      BY <1>1, <1>6, <3>1 DEF InFlight
    <3>3. rest \in Seq(Bytes) /\ hw \in Seq(Bytes)
      BY <1>2 DEF LineType
    <3>4. /\ Len(rest \o hw) = Len(rest) + Len(hw)
          /\ \A k \in 1..Len(rest) + Len(hw) :
               (rest \o hw)[k] = IF k <= Len(rest) THEN rest[k] ELSE hw[k - Len(rest)]
      BY <3>3, ConcatProperties
    <3> QED BY <3>2, <3>4
  <2>2. Len(InFlight') = Len(InFlight) - Len(all) /\ Len(all) \in 0..Len(InFlight)
    BY <1>2, <1>3, <2>1
  <2>3. ASSUME NEW k \in 1..Len(InFlight') PROVE InFlight'[k] = InFlight[k + Len(all)]
    <3>1. k + Len(all) \in 1..Len(InFlight) /\ ~(k + Len(all) <= Len(buf))
      BY <1>2, <1>3, <2>2
    <3>2. CASE k <= Len(rest)
      <4>1. k \in 1..Len(rest) /\ (k + Len(all)) - Len(buf) = k + r
            /\ k + Len(all) <= Len(buf) + Len(fifo)
        BY <1>2, <1>3, <3>2
      <4> QED BY <1>2, <1>3, <2>1, <3>1, <3>2, <4>1
    <3>3. CASE ~(k <= Len(rest))
      <4>1. (k + Len(all)) - Len(buf) - Len(fifo) = k - Len(rest)
            /\ ~(k + Len(all) <= Len(buf) + Len(fifo))
        BY <1>2, <1>3, <3>3
      <4> QED BY <1>3, <2>1, <3>1, <3>3, <4>1
    <3> QED BY <3>2, <3>3
  <2> QED BY <2>2, <2>3 DEF Shifted
<1> QED BY <1>4, <1>5, <1>6 DEF all

\* A permit taken and a read: the block grows, or is handed on when it is complete.
LEMMA RecvBlockLine ==
    ASSUME LineInv, RecvBlock
    PROVE  LineInv'
<1> DEFINE all == buf \o SubSeq(fifo, 1, Readable)
           rest == SubSeq(fifo, Readable + 1, Len(fifo))
<1>1. /\ LineType /\ BufInv /\ PosInv /\ dbg \in {"header", "out"} /\ fifo' = rest
      /\ UNCHANGED <<load, sent, pos, hw, cur, faults>>
  BY DEF LineInv, RecvBlock, host
<1>2. /\ all \in Seq(Bytes) /\ rest \in Seq(Bytes)
      /\ Wanted \in Nat /\ Missing = Wanted - Len(buf) /\ Missing > 0
      /\ Readable \in 0..Len(fifo) /\ Readable <= Missing
      /\ Len(all) = Len(buf) + Readable
  BY <1>1, ReadParts
<1>3. Len(buf) \in Nat /\ Len(fifo) \in Nat /\ out \in Seq(Bytes) /\ xfer \in Nat /\ Len(out) \in Nat
  BY <1>1 DEF LineType
<1>4. \A k \in 1..Len(all) : k \in 1..Len(InFlight) /\ all[k] = InFlight[k]
  <2> DEFINE b == Len(buf)
             f == Len(fifo)
             h == Len(hw)
             r == Readable
  <2>1. \A k \in 1..Len(all) : all[k] = IF k <= b THEN buf[k] ELSE fifo[k - b]
    BY <1>1, ReadParts
  <2>2. /\ Len(InFlight) = b + f + h /\ b \in Nat /\ f \in Nat /\ h \in Nat
        /\ \A k \in 1..Len(InFlight) :
             InFlight[k] = IF k <= b THEN buf[k]
                           ELSE IF k <= b + f THEN fifo[k - b] ELSE hw[k - b - f]
    BY <1>1, FlightParts
  <2>3. Len(all) = b + r /\ r \in 0..f
    BY <1>2
  <2> HIDE DEF all, b, f, h, r
  <2>4. ASSUME NEW k \in 1..b + r
        PROVE  k \in 1..Len(InFlight) /\ k <= b + f
    BY <2>2, <2>3
  <2>5. ASSUME NEW k \in 1..b + r
        PROVE  all[k] = InFlight[k]
    <3>1. CASE k <= b
      BY <2>1, <2>2, <2>3, <2>4, <3>1
    <3>2. CASE ~(k <= b)
      BY <2>1, <2>2, <2>3, <2>4, <3>2
    <3> QED BY <3>1, <3>2
  <2> QED BY <2>3, <2>4, <2>5
<1> HIDE DEF all, rest
<1>5. PosInv'
  BY <1>1 DEF PosInv, Total, FromHost
<1>6. CASE buf' = all /\ UNCHANGED <<xfer, out>>
           /\ \/ Readable < Missing /\ dbg' = dbg
              \/ Readable = Missing /\ dbg = "header" /\ dbg' = "delay"
  <2>1. LineType'
    BY <1>1, <1>2, <1>6 DEF LineType
  <2>2. BufInv'
    <3>1. CASE dbg' = dbg /\ Readable < Missing
      BY <1>1, <1>2, <1>3, <1>6, <3>1 DEF BufInv, Wanted
    <3>2. CASE dbg = "header" /\ dbg' = "delay" /\ Readable = Missing
      <4>1. Wanted = HdrLen
        BY <3>2 DEF Wanted
      <4>2. Len(all) = HdrLen
        BY <1>2, <1>3, <3>2, <4>1
      <4> QED BY <1>6, <3>2, <4>2 DEF BufInv
    <3> QED BY <1>6, <3>1, <3>2
  <2>3. dbg' = "out" => xfer' > 0
    BY <1>6 DEF LineInv
  <2>4. ASSUME "overrun" \notin faults PROVE StreamInv'
    <3>1. StreamInv /\ Shifted(0)
      BY <1>1, <1>6, <2>1, <2>4, RecvFlight DEF LineInv, all
    <3>2. RangeInv' /\ OrderInv' /\ EndInv' /\ NextInv'
      BY <1>1, <2>1, <3>1, ShiftKeeps DEF StreamInv
    <3>3. OutInv => OutInv'
      BY <1>1, <1>6 DEF OutInv
    <3>4. Len(InFlight) \in Nat /\ Len(InFlight') = Len(InFlight)
          /\ \A k \in 1..Len(InFlight') : InFlight'[k] = InFlight[k]
      <4>1. InFlight \in Seq(Bytes)
        BY <1>1, FlightParts
      <4> QED BY <3>1, <4>1 DEF Shifted
    <3>5. DataInv => DataInv'
      BY <1>1, <1>6, <3>4 DEF DataInv, Total, FromHost
    <3>6. StartInv => StartInv'
      <4>1. InFlight \in Seq(Bytes) /\ InFlight' \in Seq(Bytes)
        BY <1>1, <2>1, ThreePieces DEF LineType, InFlight
      <4>2. (InFlight' = <<>>) = (InFlight = <<>>) /\ (InFlight # <<>> => InFlight'[1] = InFlight[1])
        BY <3>4, <4>1, EmptySeq
      <4>3. dbg' # "out" => dbg # "out"
        BY <1>6
      <4> QED BY <1>1, <4>2, <4>3 DEF StartInv, AllSent, Total, FromHost
    <3>7. Followed' = Followed /\ Uncut' = Uncut
      BY <1>1 DEF Followed, Uncut, Plain
    <3> QED BY <3>1, <3>2, <3>3, <3>5, <3>6, <3>7 DEF StreamInv
  <2> QED BY <1>1, <1>5, <2>1, <2>2, <2>3, <2>4 DEF LineInv
<1>7. CASE /\ dbg = "out" /\ Readable = Missing /\ buf' = <<>> /\ out' = out \o all
           /\ xfer' = xfer - Wanted /\ dbg' = IF xfer' > 0 THEN "out" ELSE "header"
  <2>1. Len(all) = Wanted /\ Wanted = Least(xfer, Chunk) /\ Wanted <= xfer
    <3>1. Wanted = Least(xfer, Chunk)
      BY <1>7 DEF Wanted
    <3>2. Least(xfer, Chunk) <= xfer
      <4>1. xfer \in Nat /\ Chunk \in Nat
        BY <1>3, SerialDbgAssumption DEF SerialDbgAssumption
      <4> QED BY <4>1 DEF Least
    <3>3. Len(all) = Wanted
      BY <1>2, <1>3, <1>7
    <3> QED BY <3>1, <3>2, <3>3
  <2>2. /\ out' \in Seq(Bytes) /\ Len(out') = Len(out) + Len(all)
        /\ \A k \in 1..Len(out) + Len(all) :
             out'[k] = IF k <= Len(out) THEN out[k] ELSE all[k - Len(out)]
    BY <1>2, <1>3, <1>7, ConcatProperties
  <2>3. xfer' \in Nat
    <3>1. Wanted \in Nat /\ Wanted <= xfer /\ xfer \in Nat /\ xfer' = xfer - Wanted
      BY <1>2, <1>3, <1>7, <2>1
    <3> HIDE DEF all, rest
    <3> QED BY <3>1
  <2>4. LineType'
    <3>1. buf' \in Seq(Bytes)
      BY <1>7, EmptySeq
    <3>2. dbg' \in {"out", "header"}
      BY <1>7
    <3> QED BY <1>1, <1>2, <2>2, <2>3, <3>1, <3>2 DEF LineType
  <2>5. BufInv' /\ (dbg' = "out" => xfer' > 0)
    <3>1. Len(buf') = 0
      BY <1>7, EmptySeq
    <3>2. dbg' = "out" => xfer' > 0 /\ Wanted' = Least(xfer', Chunk)
      BY <1>7 DEF Wanted, Least
    <3>3. dbg' = "header" => Wanted' = HdrLen
      BY DEF Wanted
    <3>4. dbg' \in {"out", "header"}
      BY <1>7
    <3>5. Chunk \in Nat \ {0} /\ HdrLen \in Nat \ {0}
      BY SerialDbgAssumption DEF SerialDbgAssumption
    <3> QED BY <2>3, <3>1, <3>2, <3>3, <3>4, <3>5 DEF BufInv, Least
  <2>6. ASSUME "overrun" \notin faults PROVE StreamInv'
    <3>1. StreamInv /\ Shifted(Len(all))
      BY <1>1, <1>7, <2>4, <2>6, RecvFlight DEF LineInv, all
    <3>2. RangeInv' /\ OrderInv' /\ EndInv' /\ NextInv'
      BY <1>1, <2>4, <3>1, ShiftKeeps DEF StreamInv
    <3>0. Followed' = Followed /\ Uncut' = Uncut /\ (Uncut => Followed)
      BY <1>1 DEF Followed, Uncut, Plain
    <3> SUFFICES ASSUME Followed PROVE DataInv' /\ OutInv' /\ (Uncut => StartInv')
      BY <3>0, <3>2 DEF StreamInv
    <3> DEFINE w == Len(all)
               n == Len(InFlight)
               T == Total(sent[cur])
               have == HdrLen + Len(out)
    <3>3. cur \in 1..Len(sent) /\ FromHost(sent[cur]) /\ Len(out) + xfer = sent[cur].len
          /\ (\A k \in 1..n : have + k <= T => InFlight[k] = <<cur, have + k>>)
          /\ (have + n < T => cur = Len(sent) /\ pos = have + n)
      BY <1>7, <3>1 DEF StreamInv, DataInv
    <3>4. sent[cur] \in Commands
      BY <1>1, <3>3 DEF LineType
    <3>5. T \in Nat /\ T = HdrLen + sent[cur].len /\ HdrLen \in Nat
      BY <3>3, <3>4, CommandTotal, SerialDbgAssumption DEF SerialDbgAssumption
    <3>6. T = have + xfer /\ have \in Nat
      <4>1. Len(out) \in Nat /\ xfer \in Nat /\ Len(out) + xfer = sent[cur].len
        BY <1>3, <3>3
      <4>2. HdrLen \in Nat /\ T = HdrLen + sent[cur].len
        BY <3>5
      <4> HIDE DEF T
      <4> QED BY <4>1, <4>2
    <3>7. w \in Nat /\ w <= xfer /\ xfer' = xfer - w
      BY <1>2, <1>7, <2>1
    <3>8. n \in Nat /\ w \in 0..n /\ Len(InFlight') = n - w
          /\ \A k \in 1..n - w : InFlight'[k] = InFlight[k + w]
      <4>1. InFlight \in Seq(Bytes)
        BY <1>1, FlightParts
      <4> QED BY <3>1, <4>1 DEF Shifted
    <3> HIDE DEF w, n, T, have
    <3>9. \A k \in 1..w : all[k] = <<cur, have + k>>
      <4> SUFFICES ASSUME NEW k \in 1..w PROVE all[k] = <<cur, have + k>>
        OBVIOUS
      <4>1. k \in 1..n /\ have + k <= T
        BY <1>3, <3>6, <3>7, <3>8
      <4> QED BY <1>4, <3>3, <4>1 DEF w
    <3>10. OutInv'
      <4> SUFFICES ASSUME NEW k \in 1..Len(out') PROVE out'[k] = <<cur, HdrLen + k>>
        BY <1>1 DEF OutInv
      <4>1. k \in 1..Len(out) + w
        BY <2>2 DEF w
      <4>2. CASE k <= Len(out)
        <5>1. out'[k] = out[k] /\ k \in 1..Len(out)
          BY <1>3, <2>2, <4>1, <4>2 DEF w
        <5> QED BY <3>1, <5>1 DEF StreamInv, OutInv
      <4>3. CASE ~(k <= Len(out))
        <5>1. k - Len(out) \in 1..w /\ have + (k - Len(out)) = HdrLen + k
          BY <1>3, <3>5, <3>7, <4>1, <4>3 DEF have
        <5>2. out'[k] = all[k - Len(out)]
          BY <2>2, <4>1, <4>3 DEF w
        <5> QED BY <3>9, <5>1, <5>2
      <4> QED BY <4>2, <4>3
    <3>11. DataInv'
      <4> DEFINE have2 == HdrLen + Len(out')
      <4>1. have2 = have + w
        BY <1>3, <2>2, <3>5, <3>7 DEF have, w
      <4>2. ASSUME NEW k \in 1..Len(InFlight'), have2 + k <= T
            PROVE  InFlight'[k] = <<cur, have2 + k>>
        <5>1. k \in 1..n - w /\ k + w \in 1..n /\ have + (k + w) = have2 + k
          BY <3>6, <3>7, <3>8, <4>1
        <5> QED BY <3>3, <3>8, <4>2, <5>1
      <4>3. have2 + Len(InFlight') = have + n
        BY <3>6, <3>7, <3>8, <4>1
      <4>4. Len(out') + xfer' = sent[cur].len
        BY <1>3, <2>2, <3>3, <3>7 DEF w
      <4> HIDE DEF have2
      <4>5. have2 + Len(InFlight') < T => cur = Len(sent) /\ pos = have2 + Len(InFlight')
        BY <3>3, <4>3
      <4> QED BY <1>1, <2>5, <3>3, <4>2, <4>4, <4>5 DEF have2, DataInv, T, Total, FromHost
    <3>12. ASSUME dbg' # "out" PROVE StartInv'
      <4>1. xfer' = 0 /\ w = xfer /\ w # 0
        <5>1. xfer > 0
          BY <1>7 DEF LineInv
        <5> QED BY <1>3, <1>7, <2>3, <3>7, <3>12, <5>1
      <4>2. have + w = T /\ w \in 1..n
        BY <3>6, <3>7, <3>8, <4>1
      <4>3. InFlight[w] = <<cur, T>>
        BY <3>3, <3>5, <4>2
      <4>4. InFlight[w][2] = Total(sent[InFlight[w][1]])
        BY <4>3 DEF T
      <4>5. w \in Nat \ {0} /\ Shifted(w)
        BY <3>1, <3>7, <4>1 DEF w
      <4>6. EndInv /\ NextInv /\ LineType /\ UNCHANGED <<sent, pos>>
        BY <1>1, <3>1 DEF StreamInv
      <4> QED BY <2>4, <4>4, <4>5, <4>6, ShiftStarts
    <3>13. dbg' = "out" => StartInv'
      BY DEF StartInv
    <3> QED BY <3>10, <3>11, <3>12, <3>13
  <2> QED BY <1>1, <1>5, <2>4, <2>5, <2>6 DEF LineInv
<1>8. ~(Readable < Missing) => Readable = Missing
  BY <1>2, <1>3
<1> QED BY <1>1, <1>6, <1>7, <1>8 DEF RecvBlock, all

\* The block is dropped: the bytes behind it stay.
LEMMA BlockDropped ==
    ASSUME LineType, LineType', buf' = <<>>, UNCHANGED <<fifo, hw>>
    PROVE  Shifted(Len(buf))
<1>1. /\ Len(InFlight) = Len(buf) + Len(fifo) + Len(hw)
      /\ Len(buf) \in Nat /\ Len(fifo) \in Nat /\ Len(hw) \in Nat
      /\ \A k \in 1..Len(InFlight) :
           InFlight[k] = IF k <= Len(buf) THEN buf[k]
                         ELSE IF k <= Len(buf) + Len(fifo) THEN fifo[k - Len(buf)]
                         ELSE hw[k - Len(buf) - Len(fifo)]
  BY FlightParts
<1>2. /\ Len(InFlight') = Len(fifo) + Len(hw)
      /\ \A k \in 1..Len(InFlight') :
           InFlight'[k] = IF k <= Len(fifo) THEN fifo[k] ELSE hw[k - Len(fifo)]
  <2>1. fifo \in Seq(Bytes) /\ hw \in Seq(Bytes)
    BY DEF LineType
  <2>2. /\ fifo \o hw \in Seq(Bytes) /\ Len(fifo \o hw) = Len(fifo) + Len(hw)
        /\ \A k \in 1..Len(fifo) + Len(hw) :
             (fifo \o hw)[k] = IF k <= Len(fifo) THEN fifo[k] ELSE hw[k - Len(fifo)]
    BY <2>1, ConcatProperties
  <2>3. <<>> \o (fifo \o hw) = fifo \o hw
    BY <2>2, ConcatEmptySeq
  <2>4. InFlight' = fifo \o hw
    BY <2>3 DEF InFlight
  <2> QED BY <2>2, <2>4
<1>3. Len(InFlight') = Len(InFlight) - Len(buf) /\ Len(buf) \in 0..Len(InFlight)
  BY <1>1, <1>2
<1>4. ASSUME NEW k \in 1..Len(InFlight') PROVE InFlight'[k] = InFlight[k + Len(buf)]
  <2>1. /\ k + Len(buf) \in 1..Len(InFlight) /\ ~(k + Len(buf) <= Len(buf))
        /\ (k + Len(buf)) - Len(buf) = k
        /\ (k + Len(buf)) - Len(buf) - Len(fifo) = k - Len(fifo)
        /\ (k + Len(buf) <= Len(buf) + Len(fifo)) = (k <= Len(fifo))
    BY <1>1, <1>2
  <2> QED BY <1>1, <1>2, <2>1
<1> QED BY <1>3, <1>4 DEF Shifted

\* The time-out drops the block and the command with it.
LEMMA TimeOutLine ==
    ASSUME LineInv, TimeOut
    PROVE  LineInv'
<1>1. /\ LineType /\ BufInv /\ PosInv /\ dbg' = "header" /\ buf' = <<>>
      /\ UNCHANGED <<load, sent, pos, hw, fifo, out, xfer, cur>>
      /\ "overrun" \notin faults' => "overrun" \notin faults
      /\ "cut" \in faults'
  BY DEF LineInv, TimeOut, host, line
<1>2. LineType'
  BY <1>1, EmptySeq DEF LineType
<1>3. BufInv' /\ PosInv'
  BY <1>1, EmptySeq, SerialDbgAssumption
     DEF SerialDbgAssumption, BufInv, Wanted, PosInv, Total, FromHost
<1>4. ASSUME "overrun" \notin faults' PROVE StreamInv'
  <2>1. StreamInv
    BY <1>1, <1>4 DEF LineInv
  <2>2. RangeInv' /\ OrderInv' /\ EndInv' /\ NextInv'
    BY <1>1, <1>2, <2>1, BlockDropped, ShiftKeeps DEF StreamInv
  <2>3. Followed' => Followed
    BY <1>1 DEF Followed, Uncut, Plain
  <2>4. OutInv => OutInv'
    BY <1>1 DEF OutInv
  <2>5. DataInv' /\ ~Uncut'
    BY <1>1 DEF DataInv, Uncut
  <2> QED BY <2>1, <2>2, <2>3, <2>4, <2>5 DEF StreamInv
<1> QED BY <1>1, <1>2, <1>3, <1>4 DEF LineInv

\* What dispatch looks at first is the first byte in flight.
LEMMA FirstByte ==
    ASSUME LineType, BufInv, dbg = "dispatch"
    PROVE  /\ Len(InFlight) \in Nat /\ 1 \in 1..Len(InFlight) /\ HdrLen <= Len(InFlight)
           /\ Len(buf) = HdrLen /\ HdrLen \in Nat \ {0} /\ InFlight # <<>>
           /\ \A k \in 1..HdrLen : InFlight[k] = buf[k]
<1>1. Len(buf) = HdrLen /\ HdrLen \in Nat \ {0}
  BY SerialDbgAssumption DEF SerialDbgAssumption, BufInv
<1>2. /\ Len(InFlight) \in Nat /\ HdrLen <= Len(InFlight) /\ InFlight \in Seq(Bytes)
      /\ \A k \in 1..HdrLen : InFlight[k] = buf[k]
  BY <1>1, FlightParts
<1>3. InFlight # <<>> /\ 1 \in 1..Len(InFlight)
  BY <1>1, <1>2, EmptySeq
<1> QED BY <1>1, <1>2, <1>3

\* Where no command was cut, dispatch gets a header.
LEMMA StartsHeader ==
    ASSUME LineType, BufInv, StartInv, dbg = "dispatch"
    PROVE  IsHeader(buf)
<1>1. InFlight # <<>> /\ 1 \in 1..HdrLen /\ InFlight[1] = buf[1]
  BY FirstByte
<1> QED BY <1>1 DEF StartInv, IsHeader

\* Bytes that begin no header are dropped.
LEMMA NotMagicLine ==
    ASSUME LineInv, NotMagic
    PROVE  LineInv'
<1>1. /\ LineType /\ BufInv /\ PosInv /\ dbg' = "header" /\ buf' = <<>>
      /\ UNCHANGED <<load, sent, pos, hw, fifo, out, xfer, cur, faults>>
  BY DEF LineInv, NotMagic, host, line, history
<1>2. LineType'
  BY <1>1, EmptySeq DEF LineType
<1>3. BufInv' /\ PosInv'
  BY <1>1, EmptySeq, SerialDbgAssumption
     DEF SerialDbgAssumption, BufInv, Wanted, PosInv, Total, FromHost
<1>4. ASSUME "overrun" \notin faults PROVE StreamInv'
  <2>1. StreamInv
    BY <1>4 DEF LineInv
  <2>2. RangeInv' /\ OrderInv' /\ EndInv' /\ NextInv'
    BY <1>1, <1>2, <2>1, BlockDropped, ShiftKeeps DEF StreamInv
  <2>3. Followed' = Followed /\ Uncut' = Uncut
    BY <1>1 DEF Followed, Uncut, Plain
  <2>4. OutInv => OutInv'
    BY <1>1 DEF OutInv
  <2>5. DataInv'
    BY <1>1 DEF DataInv
  <2>6. ~Uncut
    BY <1>1, <2>1, StartsHeader DEF StreamInv, NotMagic
  <2> QED BY <2>1, <2>2, <2>3, <2>4, <2>5, <2>6 DEF StreamInv
<1> QED BY <1>1, <1>2, <1>3, <1>4 DEF LineInv

\* Ten ticks pass.
LEMMA DelayLine ==
    ASSUME LineInv, Delay
    PROVE  LineInv'
<1>1. /\ dbg = "delay" /\ dbg' = "dispatch"
      /\ UNCHANGED <<load, sent, pos, hw, fifo, buf, out, xfer, cur, faults>>
  BY DEF Delay, host, line, history
<1>2. LineType' /\ BufInv' /\ PosInv'
  BY <1>1 DEF LineInv, LineType, BufInv, PosInv, Total, FromHost
<1>3. InFlight' = InFlight
  BY <1>1 DEF InFlight
<1>4. ASSUME "overrun" \notin faults PROVE StreamInv'
  BY <1>1, <1>3, <1>4, StreamSame DEF LineInv
<1> QED BY <1>1, <1>2, <1>4 DEF LineInv

----------------------------------------------------------------------------
(* The serial line: serial_dbg_dispatch *)

\* What looks like a header is one, whole, and its command is what follows.
LEMMA HeaderIsWhole ==
    ASSUME LineInv, InStep, dbg = "dispatch", IsHeader(buf)
    PROVE  LET i == buf[1][1]
           IN  /\ i \in 1..Len(sent) /\ Intact(buf)
               /\ \A k \in 1..Len(InFlight) : k <= Total(sent[i]) => InFlight[k] = <<i, k>>
<1>1. LineType /\ BufInv /\ RangeInv /\ OrderInv /\ (Uncut => StartInv) /\ (Uncut \/ Plain)
  BY DEF LineInv, StreamInv, InStep, Uncut
<1>2. Len(buf) = HdrLen /\ HdrLen \in Nat \ {0}
  BY <1>1, FirstByte
<1>3. /\ Len(InFlight) \in Nat /\ HdrLen <= Len(InFlight) /\ InFlight # <<>>
      /\ \A k \in 1..HdrLen : InFlight[k] = buf[k]
  BY <1>1, FirstByte
<1>0. 1 \in 1..Len(InFlight) /\ InFlight[1] = buf[1]
  BY <1>2, <1>3
<1> DEFINE i == buf[1][1]
<1>5. i \in 1..Len(sent)
  BY <1>0, <1>1 DEF RangeInv
<1>4. 1 \in 1..Len(InFlight) /\ InFlight[1] = buf[1] /\ InFlight[1][2] = 1
  <2>1. CASE Uncut
    BY <1>0, <1>1, <1>3, <2>1 DEF StartInv
  <2>2. CASE Plain
    BY <1>0, <1>5, <2>2 DEF Plain, IsHeader
  <2> QED BY <1>0, <1>1, <2>1, <2>2
<1>6. sent[i] \in Commands
  BY <1>1, <1>5 DEF LineType
<1>7. Total(sent[i]) \in Nat /\ Total(sent[i]) >= HdrLen
  BY <1>6, CommandTotal
<1>8. ASSUME NEW k \in 1..Len(InFlight), k <= Total(sent[i]) PROVE InFlight[k] = <<i, k>>
  <2>1. 1 <= k /\ 1 + (k - 1) = k
    BY <1>3
  <2>2. InFlight[1][2] + (k - 1) <= Total(sent[InFlight[1][1]])
    BY <1>4, <1>8, <2>1
  <2>3. InFlight[k] = <<InFlight[1][1], InFlight[1][2] + (k - 1)>>
    BY <1>1, <1>4, <2>1, <2>2 DEF OrderInv
  <2> QED BY <1>4, <2>1, <2>3
<1>9. Intact(buf)
  <2> SUFFICES ASSUME NEW p \in 1..HdrLen PROVE buf[p] = <<i, p>>
    BY DEF Intact
  <2>1. p \in 1..Len(InFlight) /\ p <= Total(sent[i])
    BY <1>2, <1>3, <1>7
  <2> QED BY <1>3, <1>8, <2>1
<1> QED BY <1>5, <1>8, <1>9

\* usbdbg_control: the data phase begins where the header ends.
LEMMA ControlLine ==
    ASSUME LineInv, NEW c \in load.commands, Control(c)
    PROVE  LineInv'
<1>1. /\ LineType /\ BufInv /\ PosInv /\ dbg = "dispatch" /\ IsHeader(buf)
      /\ Intact(buf) => c = sent[buf[1][1]]
      /\ cur' = (IF Intact(buf) THEN buf[1][1] ELSE 0) /\ xfer' = c.len
      /\ buf' = <<>> /\ out' = <<>>
      /\ dbg' = IF FromHost(c) THEN "out" ELSE "in"
      /\ UNCHANGED <<load, sent, pos, hw, fifo, faults>>
  BY DEF LineInv, Control, host, line
<1>2. c \in Commands /\ c.len \in Nat \ {0}
  BY <1>1, SerialDbgAssumption DEF SerialDbgAssumption, LineType, Commands
<1>3. LineType'
  <2>1. dbg' \in {"out", "in"}
    BY <1>1
  <2> QED BY <1>1, <1>2, <2>1, EmptySeq DEF LineType
<1>4. BufInv' /\ PosInv' /\ (dbg' = "out" => xfer' > 0)
  <2>1. dbg' = "out" => Len(buf') = 0 /\ Wanted' = Least(xfer', Chunk)
    BY <1>1, EmptySeq DEF Wanted, Least
  <2>2. BufInv'
    <3>1. dbg' = "out" => Len(buf') < Wanted'
      BY <1>1, <1>2, <2>1, SerialDbgAssumption DEF SerialDbgAssumption, Least
    <3>2. dbg' \in {"out", "in"} /\ buf' = <<>>
      BY <1>1
    <3> QED BY <3>1, <3>2 DEF BufInv
  <2> QED BY <1>1, <1>2, <2>2 DEF PosInv, Total, FromHost
<1>5. ASSUME "overrun" \notin faults PROVE StreamInv'
  <2>3. Shifted(Len(buf)) /\ Len(buf) = HdrLen
    BY <1>1, <1>3, BlockDropped DEF BufInv
  <2>4. RangeInv' /\ OrderInv' /\ EndInv' /\ NextInv'
    BY <1>1, <1>3, <1>5, <2>3, ShiftKeeps DEF LineInv, StreamInv
  <2>0. Followed' = Followed /\ Uncut' = Uncut /\ (Uncut => Followed) /\ (Followed => InStep)
    BY <1>1, <1>5 DEF Followed, Uncut, Plain, InStep
  <2> SUFFICES ASSUME Followed PROVE DataInv' /\ OutInv' /\ (Uncut => StartInv')
    BY <2>0, <2>4 DEF StreamInv
  <2> DEFINE i == buf[1][1]
             T == Total(sent[i])
             n == Len(InFlight)
  <2>1. /\ i \in 1..Len(sent) /\ Intact(buf)
        /\ \A k \in 1..n : k <= T => InFlight[k] = <<i, k>>
    BY <1>1, <2>0, HeaderIsWhole
  <2>2. c = sent[i] /\ cur' = i /\ T \in Nat /\ (FromHost(c) => T = HdrLen + c.len)
        /\ T >= HdrLen
    BY <1>1, <1>2, <2>1, CommandTotal
  <2>5. OutInv' /\ Len(out') = 0
    BY <1>1, EmptySeq DEF OutInv
  <2>6. DataInv'
    <3>1. CASE ~FromHost(c)
      BY <1>1, <3>1 DEF DataInv
    <3>2. CASE FromHost(c)
      <4>1. n \in Nat /\ HdrLen \in 0..n /\ Len(InFlight') = n - HdrLen /\ HdrLen \in Nat \ {0}
            /\ \A k \in 1..n - HdrLen : InFlight'[k] = InFlight[k + HdrLen]
        <5>1. InFlight \in Seq(Bytes)
          BY <1>1, FlightParts
        <5> QED BY <2>3, <5>1, SerialDbgAssumption DEF SerialDbgAssumption, Shifted
      <4>2. n \in 1..n /\ InFlight # <<>>
        BY <4>1, EmptySeq
      <4> HIDE DEF n, T, i
      <4>3. ASSUME NEW k \in 1..Len(InFlight'), HdrLen + 0 + k <= T
            PROVE  InFlight'[k] = <<i, HdrLen + 0 + k>>
        <5>1. k \in 1..n - HdrLen /\ k + HdrLen \in 1..n /\ k + HdrLen <= T
              /\ HdrLen + 0 + k = k + HdrLen
          BY <2>2, <4>1, <4>3
        <5> QED BY <2>1, <4>1, <5>1
      <4>4. HdrLen + 0 + Len(InFlight') = n
        BY <4>1
      <4>5. ASSUME n < T PROVE i = Len(sent) /\ pos = n
        <5>1. InFlight[n] = <<i, n>>
          <6>1. n <= T
            BY <2>2, <4>1, <4>5
          <6> QED BY <2>1, <4>2, <6>1
        <5>2. InFlight[n][2] # Total(sent[InFlight[n][1]])
          BY <2>2, <4>1, <4>5, <5>1 DEF T
        <5>3. InFlight[n] = <<Len(sent), pos>>
          BY <1>5, <4>2, <5>2 DEF LineInv, StreamInv, EndInv, n
        <5> QED BY <5>1, <5>3
      <4>6. Len(out') + xfer' = sent[i].len
        BY <1>1, <1>2, <2>2, <2>5 DEF i
      <4>7. i \in 1..Len(sent) /\ FromHost(sent[i]) /\ xfer' > 0
        BY <1>1, <1>2, <2>1, <2>2, <3>2
      <4>8. /\ \A k \in 1..Len(InFlight') :
                 HdrLen + Len(out') + k <= T => InFlight'[k] = <<i, HdrLen + Len(out') + k>>
            /\ HdrLen + Len(out') + Len(InFlight') < T =>
                 i = Len(sent) /\ pos = HdrLen + Len(out') + Len(InFlight')
        BY <2>5, <4>3, <4>4, <4>5
      <4> QED BY <1>1, <2>2, <4>6, <4>7, <4>8 DEF DataInv, T, Total, FromHost
    <3> QED BY <3>1, <3>2
  <2>7. ASSUME ~FromHost(c) PROVE StartInv'
    <3>1. T = HdrLen
      <4>1. HdrLen \in Nat /\ sent[i] = c
        BY <2>2, SerialDbgAssumption DEF SerialDbgAssumption
      <4>2. Total(c) = HdrLen
        BY <2>7, <4>1 DEF Total
      <4> QED BY <4>1, <4>2
    <3>2. HdrLen \in 1..n /\ HdrLen \in Nat \ {0}
      BY <1>1, FirstByte
    <3>3. InFlight[HdrLen] = <<i, HdrLen>>
      BY <2>1, <3>1, <3>2
    <3>4. InFlight[HdrLen][2] = Total(sent[InFlight[HdrLen][1]])
      BY <3>1, <3>3
    <3>5. EndInv /\ NextInv
      BY <1>5 DEF LineInv, StreamInv
    <3> HIDE DEF i, T, n
    <3> QED BY <1>1, <1>3, <2>3, <3>2, <3>4, <3>5, ShiftStarts
  <2>8. FromHost(c) => StartInv'
    BY <1>1 DEF StartInv
  <2> QED BY <2>5, <2>6, <2>7, <2>8
<1> QED BY <1>1, <1>3, <1>4, <1>5 DEF LineInv

\* The device-to-host data phase does not touch the line.
LEMMA DataInLine ==
    ASSUME LineInv, xfer' \in Nat,
           dbg \in {"in", "flush", "copy", "store"},
           dbg' \in {"in", "flush", "copy", "store", "header"},
           UNCHANGED <<load, sent, pos, hw, fifo, buf, out, cur, faults>>
    PROVE  LineInv'
<1>1. LineType' /\ PosInv'
  BY DEF LineInv, LineType, PosInv, Total, FromHost
<1>2. BufInv'
  <2>1. buf' = <<>> /\ Len(buf') = 0
    BY EmptySeq DEF LineInv, BufInv
  <2> QED BY <2>1, SerialDbgAssumption DEF SerialDbgAssumption, BufInv, Wanted
<1>3. InFlight' = InFlight
  BY DEF InFlight
<1>4. ASSUME "overrun" \notin faults PROVE StreamInv'
  BY <1>3, <1>4, StreamSame DEF LineInv
<1> QED BY <1>1, <1>2, <1>4 DEF LineInv

\* A step that leaves the line and the debug thread where they are.
LEMMA ElsewhereLine ==
    ASSUME LineInv, UNCHANGED <<load, sent, pos, hw, fifo, buf, out, dbg, xfer, cur, faults>>
    PROVE  LineInv'
<1>1. LineType' /\ BufInv' /\ PosInv'
  BY DEF LineInv, LineType, BufInv, Wanted, Least, PosInv, Total, FromHost
<1>2. InFlight' = InFlight
  BY DEF InFlight
<1>3. ASSUME "overrun" \notin faults PROVE StreamInv'
  BY <1>2, <1>3, StreamSame DEF LineInv
<1> QED BY <1>1, <1>3 DEF LineInv

\* One chunk of the device-to-host phase less.
LEMMA ChunkDoneStep ==
    ASSUME xfer \in Nat, ChunkDone
    PROVE  xfer' \in Nat /\ dbg' \in {"in", "header"}
<1>1. Least(xfer, Chunk) \in Nat /\ Least(xfer, Chunk) <= xfer
  BY SerialDbgAssumption DEF SerialDbgAssumption, Least
<1> QED BY <1>1 DEF ChunkDone, Chunked

\* Every step preserves the invariant of the line.
LEMMA LineStep ==
    ASSUME LineInv, [Next]_vars
    PROVE  LineInv'
<1> USE DEF host, line, thread, history
<1>0. CASE UNCHANGED vars
  BY <1>0, ElsewhereLine DEF vars
<1> SUFFICES ASSUME Next PROVE LineInv'
  BY <1>0
<1>1. xfer \in Nat
  BY DEF LineInv, LineType
<1>2. CASE \E c \in load.commands : HostBegins(c)
  BY <1>2, HostBeginsLine
<1>3. CASE HostByte \/ Receive
  BY <1>3, HostByteLine, ReceiveLine
<1>4. CASE RecvBlock \/ TimeOut \/ Delay \/ NotMagic
  BY <1>4, RecvBlockLine, TimeOutLine, DelayLine, NotMagicLine
<1>5. CASE \E c \in load.commands : Control(c)
  BY <1>5, ControlLine
<1>6. CASE Flush
  BY <1>1, <1>6, DataInLine DEF Flush
<1>7. CASE FlushEnds
  BY <1>1, <1>7, ChunkDoneStep, DataInLine DEF FlushEnds
<1>8. CASE Answer
  BY <1>1, <1>8, ChunkDoneStep, DataInLine DEF Answer
<1>9. CASE ReadLen
  <2>1. xfer' \in Nat /\ dbg' \in {"in", "header", "copy"}
    BY <1>1, <1>9, ChunkDoneStep DEF ReadLen
  <2> QED BY <1>9, <2>1, DataInLine DEF ReadLen
<1>10. CASE ReadCopy
  BY <1>1, <1>10, DataInLine DEF ReadCopy
<1>11. CASE ReadStore
  BY <1>1, <1>11, ChunkDoneStep, DataInLine DEF ReadStore
<1>12. CASE Prints
  BY <1>12, ElsewhereLine DEF Prints
<1> QED
  BY <1>2, <1>3, <1>4, <1>5, <1>6, <1>7, <1>8, <1>9, <1>10, <1>11, <1>12 DEF Next, DbgStep

\* The line is quiet at first.
LEMMA InitLine == Init => LineInv
<1> SUFFICES ASSUME Init PROVE LineInv
  OBVIOUS
<1>1. /\ load \in Loads /\ sent = <<>> /\ pos = 0 /\ hw = <<>> /\ fifo = <<>>
      /\ dbg = "header" /\ buf = <<>> /\ xfer = 0 /\ out = <<>>
  BY DEF Init
<1>2. LineType /\ BufInv /\ PosInv
  BY <1>1, EmptySeq, SerialDbgAssumption
     DEF SerialDbgAssumption, LineType, BufInv, Wanted, PosInv
<1>3. InFlight = <<>> /\ Len(InFlight) = 0
  BY <1>1, ConcatEmptySeq, EmptySeq DEF InFlight
<1>4. StreamInv
  <2>1. RangeInv /\ OrderInv /\ EndInv /\ NextInv /\ DataInv /\ OutInv
    BY <1>1, <1>3, EmptySeq DEF RangeInv, OrderInv, EndInv, NextInv, DataInv, OutInv
  <2>2. StartInv
    BY <1>1, <1>3 DEF StartInv
  <2> QED BY <2>1, <2>2 DEF StreamInv
<1> QED BY <1>1, <1>2, <1>4 DEF LineInv

\* The invariant of the line holds in every state.
LEMMA LineInvariant == Spec => []LineInv
  BY InitLine, LineStep, PTL DEF Spec

\* For any header and chunk size, any FIFO and any commands: what dispatch takes for a header
\* is the whole header of one command, as long as the FIFO did not overrun and no command was
\* cut, or the rest of the cut ones does not look like a header.
THEOREM HeadersAreIntact == Spec => []HeadersIntact
<1>1. LineInv => HeadersIntact
  BY HeaderIsWhole DEF HeadersIntact
<1> QED BY LineInvariant, <1>1, PTL

\* For any sizes and commands, and under the same condition: usbdbg_data_out gets the data of
\* the command in hand from the first byte on, in order, however reads, permits and time-outs
\* fell.
THEOREM DataStaysInOrder == Spec => []DataInOrder
<1>1. LineInv => DataInOrder
  BY DEF LineInv, StreamInv, OutInv, DataInOrder, InStep, Followed, Uncut
<1> QED BY LineInvariant, <1>1, PTL

----------------------------------------------------------------------------
(* The console: arithmetic of the ring *)

\* A remainder is an index of the pool.
LEMMA ModRange ==
    ASSUME NEW R \in Nat \ {0}, NEW x \in Int
    PROVE  x % R \in 0..R - 1
  OBVIOUS

\* An index that left the pool once, on either side.
LEMMA ModOnce ==
    ASSUME NEW R \in Nat \ {0}, NEW x \in Int, 0 - R <= x, x < R + R
    PROVE  x % R = IF x < 0 THEN x + R ELSE IF x < R THEN x ELSE x - R
<1> DEFINE q == x \div R
           m == x % R
<1>1. q \in Int /\ m \in Int /\ x = R * q + m /\ 0 <= m /\ m < R
  BY Z3
<1> HIDE DEF q, m
<1>2. CASE x < 0
  <2>1. q = 0 - 1
    BY <1>1, <1>2, Z3
  <2> QED BY <1>1, <1>2, <2>1, Z3 DEF m
<1>3. CASE x >= 0 /\ x < R
  <2>1. q = 0
    BY <1>1, <1>3, Z3
  <2> QED BY <1>1, <1>3, <2>1, Z3 DEF m
<1>4. CASE x >= R
  <2>1. q = 1
    BY <1>1, <1>4, Z3
  <2> QED BY <1>1, <1>4, <2>1, Z3 DEF m
<1> QED BY <1>2, <1>3, <1>4

\* The pool holds something.
LEMMA PoolSize == RbSize \in Nat \ {0}
  BY RbSizeAssumption DEF RbSizeAssumption

\* The 15-bit fields hold every index of the pool.
LEMMA IndexFits ==
    ASSUME NEW x \in 0..RbSize
    PROVE  Index(x) = x
  BY RbSizeAssumption DEF RbSizeAssumption, Index

\* The indexes of a ring buffer and how much it holds.
LEMMA RingLen ==
    ASSUME NEW r, Ring(r)
    PROVE  /\ r.ri \in 0..RbSize - 1 /\ r.wi \in 0..RbSize - 1
           /\ DataLen(r) \in 0..RbSize
           /\ r.rm = r.wm => r.wi = r.ri + DataLen(r)
           /\ r.rm # r.wm => r.wi = r.ri + DataLen(r) - RbSize
<1>1. r.ri \in 0..RbSize - 1 /\ r.wi \in 0..RbSize - 1 /\ RbSize \in Nat
  <2>1. r.ri \in 0..RbSize - 1 /\ r.wi \in 0..RbSize - 1
    BY DEF Ring, Rings
  <2>2. RbSize \in Nat
    BY PoolSize
  <2> QED BY <2>1, <2>2
<1>2. CASE r.rm = r.wm
  <2>1. r.ri <= r.wi
    BY <1>2 DEF Ring
  <2>2. DataLen(r) = r.wi - r.ri
    BY <1>1, <1>2, <2>1 DEF DataLen, Empty, Full
  <2> QED BY <1>1, <1>2, <2>1, <2>2
<1>3. CASE r.rm # r.wm
  <2>1. r.wi <= r.ri
    BY <1>3 DEF Ring
  <2>2. DataLen(r) = RbSize - (r.ri - r.wi)
    BY <1>1, <1>3, <2>1 DEF DataLen, Empty, Full
  <2> QED BY <1>1, <1>3, <2>1, <2>2
<1> QED BY <1>2, <1>3

\* The other way round: the length from the indexes.
LEMMA LenOfRing ==
    ASSUME NEW r, NEW d \in 0..RbSize, r \in Rings,
           \/ r.rm = r.wm /\ r.wi = r.ri + d
           \/ r.rm # r.wm /\ r.wi = r.ri + d - RbSize
    PROVE  Ring(r) /\ DataLen(r) = d
<1>1. r.ri \in 0..RbSize - 1 /\ r.wi \in 0..RbSize - 1 /\ RbSize \in Nat
  BY PoolSize DEF Rings
<1>2. CASE r.rm = r.wm
  BY <1>1, <1>2 DEF Ring, DataLen, Empty, Full
<1>3. CASE r.rm # r.wm
  BY <1>1, <1>3 DEF Ring, DataLen, Empty, Full
<1> QED BY <1>2, <1>3

----------------------------------------------------------------------------
(* The console: rt_ringbuffer_get *)

\* Where the reader stands after len of D bytes, and whether it has turned.
LEMMA GetIndex ==
    ASSUME NEW R \in Nat \ {0}, NEW ri \in 0..R - 1, NEW wi \in 0..R - 1, NEW D \in 0..R,
           NEW len \in 1..D, NEW same \in BOOLEAN,
           same => wi = ri + D, ~same => wi = ri + D - R
    PROVE  LET w == R - ri <= len
               x == IF w THEN len - (R - ri) ELSE ri + len
           IN  /\ x \in 0..R - 1 /\ D - len \in 0..R /\ w \in BOOLEAN
               /\ x = ri + len \/ x = ri + len - R
               /\ w => ~same
               /\ same \/ w => wi = x + (D - len)
               /\ ~same /\ ~w => wi = x + (D - len) - R
  OBVIOUS

\* Reading len bytes takes them from the front.
LEMMA GetRing ==
    ASSUME NEW r, Ring(r), NEW len \in 1..DataLen(r)
    PROVE  LET q == AdvanceRead(r, len, ReadWraps(r, len))
           IN  /\ Ring(q) /\ DataLen(q) = DataLen(r) - len /\ q.pool = r.pool
               /\ \A k \in 1..DataLen(q) : (q.ri + k - 1) % RbSize = (r.ri + (k + len) - 1) % RbSize
<1> DEFINE D == DataLen(r)
           ri == r.ri
           wi == r.wi
           same == r.rm = r.wm
           w == RbSize - ri <= len
           x == IF w THEN len - (RbSize - ri) ELSE ri + len
           q == AdvanceRead(r, len, ReadWraps(r, len))
<1>1. RbSize \in Nat \ {0}
  BY RbSizeAssumption DEF RbSizeAssumption
<1>2. /\ ri \in 0..RbSize - 1 /\ wi \in 0..RbSize - 1 /\ D \in 0..RbSize
      /\ same => wi = ri + D
      /\ ~same => wi = ri + D - RbSize
  BY RingLen, Zenon
<1>3. r \in Rings /\ r.rm \in BOOLEAN /\ r.wm \in BOOLEAN
  BY DEF Ring, Rings
<1>4. len \in 1..D /\ same \in BOOLEAN
  OBVIOUS
<1> HIDE DEF D, ri, wi, same
<1>5. /\ x \in 0..RbSize - 1 /\ D - len \in 0..RbSize /\ w \in BOOLEAN
      /\ x = ri + len \/ x = ri + len - RbSize
      /\ w => ~same
      /\ same \/ w => wi = x + (D - len)
      /\ ~same /\ ~w => wi = x + (D - len) - RbSize
  BY <1>1, <1>2, <1>4, GetIndex
<1> HIDE DEF x
<1>6. Index(x) = x
  <2>1. x \in 0..RbSize
    BY <1>1, <1>5
  <2> QED BY <2>1, IndexFits
<1> HIDE DEF w
<1>7. q = [r EXCEPT !.rm = IF w THEN ~r.rm ELSE r.rm, !.ri = x]
  BY <1>6 DEF AdvanceRead, ReadWraps, x, w, ri
<1>8. /\ q \in Rings /\ q.ri = x /\ q.wi = wi /\ q.wm = r.wm /\ q.pool = r.pool
      /\ q.rm = IF w THEN ~r.rm ELSE r.rm
  BY <1>3, <1>5, <1>7 DEF Rings, wi
<1>9. q.rm = q.wm <=> (same \/ w)
  BY <1>3, <1>5, <1>8, Zenon DEF same
<1> HIDE DEF q
<1>10. Ring(q) /\ DataLen(q) = D - len
  <2>1. CASE q.rm = q.wm
    <3>1. q.wi = q.ri + (D - len)
      BY <1>5, <1>8, <1>9, <2>1
    <3> QED BY <1>5, <1>8, <2>1, <3>1, LenOfRing
  <2>2. CASE q.rm # q.wm
    <3>1. q.wi = q.ri + (D - len) - RbSize
      BY <1>5, <1>8, <1>9, <2>2
    <3> QED BY <1>5, <1>8, <2>2, <3>1, LenOfRing
  <2> QED BY <2>1, <2>2
<1>11. ASSUME NEW k \in 1..D - len
       PROVE  (x + k - 1) % RbSize = (ri + (k + len) - 1) % RbSize
  <2> DEFINE a == x + k - 1
             b == ri + (k + len) - 1
  <2>1. a \in Int /\ b \in Int /\ 0 <= a /\ a < RbSize + RbSize /\ 0 <= b /\ b < RbSize + RbSize
        /\ (a = b \/ a = b - RbSize) /\ 0 - RbSize <= a /\ 0 - RbSize <= b
    BY <1>1, <1>2, <1>4, <1>5
  <2> HIDE DEF a, b
  <2>2. a % RbSize = IF a < 0 THEN a + RbSize ELSE IF a < RbSize THEN a ELSE a - RbSize
    BY <1>1, <2>1, ModOnce
  <2>3. b % RbSize = IF b < 0 THEN b + RbSize ELSE IF b < RbSize THEN b ELSE b - RbSize
    BY <1>1, <2>1, ModOnce
  <2>4. a % RbSize = b % RbSize
    <3>1. CASE a = b
      BY <3>1
    <3>2. CASE a = b - RbSize
      BY <1>1, <2>1, <2>2, <2>3, <3>2
    <3> QED BY <2>1, <3>1, <3>2
  <2> QED BY <2>4 DEF a, b
<1> QED BY <1>8, <1>10, <1>11 DEF q, D, ri


----------------------------------------------------------------------------
(* The console: rt_ringbuffer_put_force *)

\* Where the writer stands after n bytes behind D, whether it has turned and on which
\* side of it the reader is then.
LEMMA PutIndex ==
    ASSUME NEW R \in Nat \ {0}, NEW ri \in 0..R - 1, NEW wi \in 0..R - 1, NEW D \in 0..R,
           NEW n \in 1..R, NEW same \in BOOLEAN,
           same => wi = ri + D, ~same => wi = ri + D - R
    PROVE  LET w == R - wi <= n
               x == IF w THEN n - (R - wi) ELSE wi + n
           IN  /\ x \in 0..R - 1 /\ w \in BOOLEAN
               /\ x = wi + n \/ x = wi + n - R
               /\ D + n <= R => /\ same /\ ~w => x = ri + (D + n)
                                /\ ~(same /\ ~w) => x = ri + (D + n) - R /\ ~(~same /\ w)
               /\ n = 1 /\ D + n > R => ~same
  OBVIOUS

\* The k-th of the E bytes of a ring buffer of size R that is read from y on: D bytes were
\* there between ri and wi, the last n of the E are new.
Place(R, ri, wi, D, n, E, y, k) ==
    /\ R \in Nat \ {0} /\ ri \in 0..R - 1 /\ wi \in 0..R - 1 /\ y \in 0..R - 1
    /\ D \in 0..R /\ n \in 1..R /\ E \in n..R /\ k \in 1..E /\ D + n >= E
    /\ wi = ri + D \/ wi = ri + D - R
    /\ y = wi + n - E \/ y = wi + n - E + R

\* How far its place is from where the writer was, and which of the D old bytes was there.
LEMMA PutPlace ==
    ASSUME NEW R, NEW ri, NEW wi, NEW D, NEW n, NEW E, NEW y, NEW k,
           Place(R, ri, wi, D, n, E, y, k)
    PROVE  LET i == (y + k - 1) % R
           IN  /\ i \in 0..R - 1
               /\ k > E - n => (i - wi) % R = n - E + k - 1
               /\ k <= E - n => /\ (i - wi) % R >= n
                                /\ i = (ri + (D + n - E + k) - 1) % R
<1> USE DEF Place
<1> DEFINE a == y + k - 1
           i == a % R
           b == ri + (D + n - E + k) - 1
           c == i - wi
<1>1. a \in Int /\ 0 - R <= a /\ 0 <= a /\ a < R + R
  OBVIOUS
<1> HIDE DEF a
<1>2. i = IF a < 0 THEN a + R ELSE IF a < R THEN a ELSE a - R
  BY <1>1, ModOnce
<1>3. i \in 0..R - 1 /\ (i = y + k - 1 \/ i = y + k - 1 - R)
  BY <1>1, <1>2 DEF a
<1> HIDE DEF i
<1>4. c \in Int /\ 0 - R <= c /\ c < R + R
  BY <1>3
<1>5. \/ c = n - E + k - 1 \/ c = n - E + k - 1 + R \/ c = n - E + k - 1 - R
  BY <1>3
<1> HIDE DEF c
<1>6. c % R = IF c < 0 THEN c + R ELSE IF c < R THEN c ELSE c - R
  BY <1>4, ModOnce
<1>7. c < R
  BY <1>3 DEF c
<1>8. ASSUME k > E - n
      PROVE  c % R = n - E + k - 1
  BY <1>4, <1>5, <1>6, <1>7, <1>8
<1>9. ASSUME k <= E - n
      PROVE  c % R >= n /\ i = b % R
  <2>1. c % R >= n
    BY <1>4, <1>5, <1>6, <1>7, <1>9
  <2>2. b \in Int /\ 0 - R <= b /\ 0 <= b /\ b < R + R
    BY <1>9
  <2>3. b = i \/ b = i + R \/ b = i - R \/ b = i + R + R \/ b = i - R - R
    BY <1>3, <1>9
  <2> HIDE DEF b
  <2>4. b % R = IF b < 0 THEN b + R ELSE IF b < R THEN b ELSE b - R
    BY <2>2, ModOnce
  <2> QED BY <1>3, <2>1, <2>2, <2>3, <2>4
<1> QED BY <1>3, <1>8, <1>9 DEF c, i, a, b

\* The ring buffer as rt_ringbuffer_put_force leaves it, one call after the other.
Written(r, data) ==
    LET w == Wraps(r, Len(data))
        c == CopyIn(r, data)
    IN  AdvanceWrite(IF w THEN FlipWrite(c) ELSE c, Len(data), w)
Put(r, data) ==
    IF Len(data) > SpaceLen(r) THEN PushRead(Written(r, data), Wraps(r, Len(data)))
    ELSE Written(r, data)

\* The space as put_force keeps it is what is left of the pool.
LEMMA SpaceOfRing ==
    ASSUME NEW r, Ring(r)
    PROVE  SpaceLen(r) = RbSize - DataLen(r)
<1>1. DataLen(r) \in 0..RbSize /\ RbSize \in Nat /\ RbSize < 65536
  <2>1. DataLen(r) \in 0..RbSize
    BY RingLen
  <2>2. RbSize \in Nat /\ RbSize < 65536
    BY RbSizeAssumption DEF RbSizeAssumption
  <2> QED BY <2>1, <2>2
<1> DEFINE d == DataLen(r)
           x == RbSize - d
<1>0. d \in 0..RbSize
  BY <1>1
<1> HIDE DEF d
<1>2. x \in Int /\ 0 - 65536 <= x /\ 0 <= x /\ x < 65536 /\ x < 65536 + 65536
  BY <1>1, <1>0
<1> HIDE DEF x
<1>3. x % 65536 = x
  BY <1>2, ModOnce
<1> QED BY <1>3 DEF SpaceLen, x, d

\* The copy and the step of the writer: the fields.
LEMMA WrittenFields ==
    ASSUME NEW r, Ring(r), NEW data \in Seq(Int), Len(data) \in 1..RbSize
    PROVE  LET n == Len(data)
               w == RbSize - r.wi <= n
               q == Written(r, data)
           IN  /\ q \in Rings /\ q.rm = r.rm /\ q.ri = r.ri
               /\ q.wm = (IF w THEN ~r.wm ELSE r.wm)
               /\ q.wi = (IF w THEN n - (RbSize - r.wi) ELSE r.wi + n)
               /\ \A i \in 0..RbSize - 1 :
                    q.pool[i] = IF (i - r.wi) % RbSize < n THEN data[((i - r.wi) % RbSize) + 1]
                                ELSE r.pool[i]
<1> DEFINE n == Len(data)
           wi == r.wi
           w == RbSize - wi <= n
           x == IF w THEN n - (RbSize - wi) ELSE wi + n
           pool == [i \in 0..RbSize - 1 |->
                      IF (i - wi) % RbSize < n THEN data[((i - wi) % RbSize) + 1]
                      ELSE r.pool[i]]
           q == Written(r, data)
<1>1. RbSize \in Nat \ {0}
  BY RbSizeAssumption DEF RbSizeAssumption
<1>2. r \in Rings /\ wi \in 0..RbSize - 1 /\ r.pool \in [0..RbSize - 1 -> Int]
      /\ r.rm \in BOOLEAN /\ r.wm \in BOOLEAN
  BY DEF Ring, Rings
<1>3. n \in 1..RbSize
  OBVIOUS
<1>4. pool \in [0..RbSize - 1 -> Int]
  <2>1. ASSUME NEW i \in 0..RbSize - 1, (i - wi) % RbSize < n
        PROVE  data[((i - wi) % RbSize) + 1] \in Int
    <3>1. (i - wi) % RbSize \in 0..RbSize - 1
      <4>1. i - wi \in Int
        BY <1>1, <1>2
      <4> QED BY <1>1, <4>1, ModRange
    <3>2. ((i - wi) % RbSize) + 1 \in 1..n
      BY <2>1, <3>1, <1>3
    <3> QED BY <3>2, ElementOfSeq
  <2>2. ASSUME NEW i \in 0..RbSize - 1
        PROVE  r.pool[i] \in Int
    BY <1>2
  <2> HIDE DEF n, wi
  <2>3. ASSUME NEW i \in 0..RbSize - 1
        PROVE  (IF (i - wi) % RbSize < n THEN data[((i - wi) % RbSize) + 1] ELSE r.pool[i]) \in Int
    BY <2>1, <2>2
  <2> QED BY <2>3
<1> HIDE DEF n, wi
<1>5. x \in 0..RbSize - 1 /\ w \in BOOLEAN
  BY <1>1, <1>2, <1>3
<1> HIDE DEF x
<1>6. Index(x) = x
  <2>1. x \in 0..RbSize
    BY <1>1, <1>5
  <2> QED BY <2>1, IndexFits
<1>7. CopyIn(r, data) = [r EXCEPT !.pool = pool]
  BY DEF CopyIn, n, wi
<1> HIDE DEF pool
<1>8. CASE w
  <2>1. q = [[[r EXCEPT !.pool = pool] EXCEPT !.wm = ~r.wm] EXCEPT !.wi = Index(x)]
    BY <1>2, <1>7, <1>8 DEF Written, Wraps, AdvanceWrite, FlipWrite, n, wi, x, Rings
  <2>2. q \in Rings /\ q.rm = r.rm /\ q.ri = r.ri /\ q.wm = ~r.wm /\ q.wi = x /\ q.pool = pool
    BY <1>2, <1>4, <1>5, <1>6, <2>1 DEF Rings
  <2> HIDE DEF q
  <2> QED BY <1>8, <2>2 DEF x, pool, n, wi, q
<1>9. CASE ~w
  <2>1. q = [[r EXCEPT !.pool = pool] EXCEPT !.wi = Index(x)]
    BY <1>2, <1>7, <1>9 DEF Written, Wraps, AdvanceWrite, FlipWrite, n, wi, x, Rings
  <2>2. q \in Rings /\ q.rm = r.rm /\ q.ri = r.ri /\ q.wm = r.wm /\ q.wi = x /\ q.pool = pool
    BY <1>2, <1>4, <1>5, <1>6, <2>1 DEF Rings
  <2> HIDE DEF q
  <2> QED BY <1>9, <2>2 DEF x, pool, n, wi, q
<1> QED BY <1>5, <1>8, <1>9

\* A forced write leaves the buffer full or, when a longer one turned the writer past the
\* reader on its own side, empty; any other adds its bytes.  What it holds are the last of
\* the old bytes and then the new ones.
LEMMA PutRing ==
    ASSUME NEW r, Ring(r), NEW data \in Seq(Int), Len(data) \in 1..RbSize
    PROVE  LET n == Len(data)
               D == DataLen(r)
               q == Put(r, data)
               E == DataLen(q)
           IN  /\ Ring(q)
               /\ n <= SpaceLen(r) => E = D + n
               /\ n > SpaceLen(r) => E \in {0, RbSize} /\ (n = 1 => E = RbSize)
               /\ \A k \in 1..E :
                    q.pool[(q.ri + k - 1) % RbSize] =
                        IF k <= E - n THEN r.pool[(r.ri + (D + n - E + k) - 1) % RbSize]
                        ELSE data[n - E + k]
<1> DEFINE n == Len(data)
           D == DataLen(r)
           ri == r.ri
           wi == r.wi
           same == r.rm = r.wm
           w == RbSize - wi <= n
           x == IF w THEN n - (RbSize - wi) ELSE wi + n
           p == Written(r, data)
           q == Put(r, data)
<1>1. RbSize \in Nat \ {0}
  BY RbSizeAssumption DEF RbSizeAssumption
<1>2. /\ ri \in 0..RbSize - 1 /\ wi \in 0..RbSize - 1 /\ D \in 0..RbSize
      /\ same => wi = ri + D
      /\ ~same => wi = ri + D - RbSize
  BY RingLen, Zenon
<1>3. r.rm \in BOOLEAN /\ r.wm \in BOOLEAN /\ SpaceLen(r) = RbSize - D
  BY SpaceOfRing DEF Ring, Rings
<1>4. n \in 1..RbSize /\ same \in BOOLEAN
  OBVIOUS
<1>5. /\ p \in Rings /\ p.rm = r.rm /\ p.ri = ri /\ p.wi = x
      /\ p.wm = (IF w THEN ~r.wm ELSE r.wm)
      /\ \A i \in 0..RbSize - 1 :
           p.pool[i] = IF (i - wi) % RbSize < n THEN data[((i - wi) % RbSize) + 1] ELSE r.pool[i]
  BY WrittenFields
<1>6. q = IF n > RbSize - D THEN PushRead(p, w) ELSE p
  BY <1>3 DEF Put, Wraps
<1> HIDE DEF n, D, ri, wi, same, p, q
<1>7. /\ x \in 0..RbSize - 1 /\ w \in BOOLEAN
      /\ x = wi + n \/ x = wi + n - RbSize
      /\ D + n <= RbSize => /\ same /\ ~w => x = ri + (D + n)
                            /\ ~(same /\ ~w) => x = ri + (D + n) - RbSize /\ ~(~same /\ w)
      /\ n = 1 /\ D + n > RbSize => ~same
  BY <1>1, <1>2, <1>4, PutIndex
<1> HIDE DEF x, w
<1>8. p.rm = p.wm <=> (same /\ ~w) \/ (~same /\ w)
  BY <1>3, <1>5, <1>7, Zenon DEF same
<1> DEFINE Holds(E) ==
        /\ Ring(q) /\ DataLen(q) = E
        /\ \A k \in 1..E :
             q.pool[(q.ri + k - 1) % RbSize] =
                 IF k <= E - n THEN r.pool[(ri + (D + n - E + k) - 1) % RbSize]
                 ELSE data[n - E + k]
\* The bytes, wherever the reader is.
<1>9. ASSUME NEW E \in n..RbSize, D + n >= E, q.pool = p.pool,
             q.ri \in 0..RbSize - 1, q.ri = wi + n - E \/ q.ri = wi + n - E + RbSize,
             NEW k \in 1..E
      PROVE  q.pool[(q.ri + k - 1) % RbSize] =
                 IF k <= E - n THEN r.pool[(ri + (D + n - E + k) - 1) % RbSize]
                 ELSE data[n - E + k]
  <2> DEFINE y == q.ri
             i == (y + k - 1) % RbSize
  <2>0. y \in 0..RbSize - 1 /\ (y = wi + n - E \/ y = wi + n - E + RbSize)
    BY <1>9
  <2> HIDE DEF y
  <2>1. Place(RbSize, ri, wi, D, n, E, y, k)
    BY <1>1, <1>2, <1>4, <1>9, <2>0 DEF Place
  <2>2. /\ i \in 0..RbSize - 1
        /\ k > E - n => (i - wi) % RbSize = n - E + k - 1
        /\ k <= E - n => /\ (i - wi) % RbSize >= n
                         /\ i = (ri + (D + n - E + k) - 1) % RbSize
    BY <2>1, PutPlace
  <2>3. p.pool[i] = IF (i - wi) % RbSize < n THEN data[((i - wi) % RbSize) + 1] ELSE r.pool[i]
    BY <1>5, <2>2
  <2> HIDE DEF i
  <2>4. CASE k <= E - n
    <3>1. ~((i - wi) % RbSize < n)
      BY <1>1, <1>2, <1>4, <2>2, <2>4
    <3> QED BY <1>9, <2>2, <2>3, <2>4, <3>1 DEF i, y
  <2>5. CASE k > E - n
    <3>1. (i - wi) % RbSize < n /\ ((i - wi) % RbSize) + 1 = n - E + k
      <4> DEFINE g == (i - wi) % RbSize
      <4>1. g = n - E + k - 1 /\ n \in Nat /\ E \in Nat /\ k \in 1..E
        BY <1>1, <1>4, <1>9, <2>2, <2>5
      <4> HIDE DEF g
      <4>2. g < n /\ g + 1 = n - E + k
        BY <4>1
      <4> QED BY <4>2 DEF g
    <3>2. ~(k <= E - n)
      BY <1>4, <1>9, <2>5
    <3> QED BY <1>9, <2>3, <3>1, <3>2 DEF i, y
  <2> QED BY <1>4, <1>9, <2>4, <2>5
<1>10. ASSUME D + n <= RbSize
       PROVE  Holds(D + n)
  <2>1. q = p
    BY <1>1, <1>2, <1>4, <1>6, <1>10
  <2>2. Ring(q) /\ DataLen(q) = D + n
    <3>1. D + n \in 0..RbSize
      BY <1>1, <1>2, <1>4, <1>10
    <3>2. CASE p.rm = p.wm
      <4>1. p.wi = p.ri + (D + n)
        BY <1>5, <1>7, <1>8, <1>10, <3>2
      <4> QED BY <1>5, <2>1, <3>1, <3>2, <4>1, LenOfRing
    <3>3. CASE p.rm # p.wm
      <4>1. p.wi = p.ri + (D + n) - RbSize
        BY <1>5, <1>7, <1>8, <1>10, <3>3
      <4> QED BY <1>5, <2>1, <3>1, <3>3, <4>1, LenOfRing
    <3> QED BY <3>2, <3>3
  <2>3. /\ D + n \in n..RbSize /\ D + n >= D + n /\ q.pool = p.pool /\ q.ri \in 0..RbSize - 1
        /\ q.ri = wi + n - (D + n) \/ q.ri = wi + n - (D + n) + RbSize
    <3>1. q.pool = p.pool /\ q.ri = ri
      BY <1>5, <2>1
    <3>2. /\ D + n \in n..RbSize /\ D + n >= D + n
          /\ ri = wi + n - (D + n) \/ ri = wi + n - (D + n) + RbSize
      BY <1>1, <1>2, <1>4, <1>10
    <3> QED BY <1>2, <3>1, <3>2
  <2> QED BY <1>9, <2>2, <2>3
<1>11. ASSUME D + n > RbSize
       PROVE  IF same THEN Ring(q) /\ DataLen(q) = 0 ELSE Holds(RbSize)
  <2>1. q = PushRead(p, w)
    BY <1>1, <1>2, <1>4, <1>6, <1>11
  <2>2. /\ q \in Rings /\ q.ri = x /\ q.wi = x /\ q.wm = p.wm /\ q.pool = p.pool
        /\ q.rm = IF w THEN ~p.rm ELSE p.rm
    BY <1>5, <1>7, <2>1 DEF PushRead, Rings
  <2>3. q.rm = q.wm <=> same
    BY <1>3, <1>5, <1>7, <2>2, Zenon DEF same
  <2>4. CASE same
    <3>1. 0 \in 0..RbSize /\ q.wi = q.ri + 0
      BY <1>1, <1>7, <2>2
    <3> QED BY <2>2, <2>3, <2>4, <3>1, LenOfRing
  <2>5. CASE ~same
    <3>1. RbSize \in 0..RbSize /\ q.wi = q.ri + RbSize - RbSize
      BY <1>1, <1>7, <2>2
    <3>2. Ring(q) /\ DataLen(q) = RbSize
      BY <2>2, <2>3, <2>5, <3>1, LenOfRing
    <3>3. /\ RbSize \in n..RbSize /\ D + n >= RbSize /\ q.ri \in 0..RbSize - 1
          /\ q.ri = wi + n - RbSize \/ q.ri = wi + n - RbSize + RbSize
      BY <1>1, <1>2, <1>4, <1>7, <1>11, <2>2
    <3> QED BY <1>9, <2>2, <2>5, <3>2, <3>3
  <2> QED BY <2>4, <2>5
<1>12. CASE D + n <= RbSize
  <2>1. ~(n > SpaceLen(r)) /\ DataLen(q) = D + n /\ Ring(q)
    BY <1>1, <1>2, <1>3, <1>4, <1>10, <1>12
  <2> HIDE DEF Holds
  <2>2. Holds(DataLen(q))
    BY <1>10, <1>12, <2>1
  <2> QED BY <2>1, <2>2 DEF Holds, n, D, ri, q
<1>13. CASE D + n > RbSize /\ same
  <2>1. ~(n <= SpaceLen(r)) /\ DataLen(q) = 0 /\ Ring(q) /\ n # 1
    BY <1>1, <1>2, <1>3, <1>4, <1>7, <1>11, <1>13
  <2> QED BY <1>1, <2>1 DEF n, D, ri, q
<1>14. CASE D + n > RbSize /\ ~same
  <2>1. ~(n <= SpaceLen(r)) /\ DataLen(q) = RbSize /\ Ring(q)
    BY <1>1, <1>2, <1>3, <1>4, <1>11, <1>14
  <2> HIDE DEF Holds
  <2>2. Holds(DataLen(q))
    BY <1>11, <1>14, <2>1
  <2> QED BY <2>1, <2>2 DEF Holds, n, D, ri, q
<1> QED BY <1>1, <1>2, <1>4, <1>12, <1>13, <1>14

----------------------------------------------------------------------------
(* The console: steps that only carry a call on *)

\* What matters is the buffer as the call leaves it.
LEMMA SettledSame ==
    ASSUME SoundInv, Settled' = Settled, SettledNewest' = SettledNewest,
           UNCHANGED <<printed, read, wide>>
    PROVE  SoundInv'
<1>1. RingInv'
  BY DEF SoundInv, RingInv, HoldsLast
<1>2. ReadInv'
  BY DEF SoundInv, ReadInv
<1>3. NewestInv'
  BY DEF SoundInv, NewestInv
<1> QED BY <1>1, <1>2, <1>3 DEF SoundInv

\* Steps of the line: no call of the console begins or ends.
LEMMA IdleStep ==
    ASSUME ConsoleInv, UNCHANGED <<consoleVars, read, got>>,
           dbg' = dbg \/ (~Busy /\ ~Busy')
    PROVE  ConsoleInv'
<1> SUFFICES ASSUME ~overlap' PROVE (ConsoleType /\ CallInv /\ CopyInv /\ SoundInv)'
  BY DEF ConsoleInv
<1>1. ConsoleType /\ CallInv /\ CopyInv /\ SoundInv
  BY DEF ConsoleInv, consoleVars, consoleHist
<1>2. UNCHANGED <<rb, put, fault, printed, newest, overlap, wide, read, got>>
  BY DEF consoleVars, consoleHist
<1>3. ConsoleType' /\ CallInv' /\ CopyInv'
  BY <1>1, <1>2 DEF ConsoleType, CallInv, CopyInv, Busy, DataLen, Empty, Full
<1>4. Settled' = Settled /\ SettledNewest' = SettledNewest
  BY <1>2 DEF Settled, SettledNewest, Busy, Forced, Advanced, FlipWrite, AdvanceWrite, PushRead,
              RewindWrite, AdvanceRead, Behind, Newest
<1>5. SoundInv'
  BY <1>1, <1>2, <1>4, SettledSame
<1> QED BY <1>3, <1>5

\* The writer's mirror turns: the store the copy announced.
LEMMA FlipConsole ==
    ASSUME ConsoleInv, PutFlip, UNCHANGED <<host, line, thread, history>>
    PROVE  ConsoleInv'
<1> SUFFICES ASSUME ~overlap' PROVE (ConsoleType /\ CallInv /\ CopyInv /\ SoundInv)'
  BY DEF ConsoleInv
<1>1. ConsoleType /\ CallInv /\ CopyInv /\ SoundInv
  BY DEF ConsoleInv, PutFlip, consoleHist
<1>2. /\ put.pc = "flip" /\ rb' = FlipWrite(rb) /\ put' = [put EXCEPT !.pc = "advance"]
      /\ UNCHANGED <<fault, printed, newest, overlap, wide, read, got, dbg>> /\ ~Busy
  BY <1>1 DEF PutFlip, consoleHist, thread, history, CallInv
<1>3. put'.pc = "advance" /\ put'.data = put.data /\ put'.wraps = put.wraps
      /\ put'.forced = put.forced
  BY <1>1, <1>2 DEF ConsoleType
<1>4. ConsoleType' /\ CallInv' /\ CopyInv'
  BY <1>1, <1>2, <1>3 DEF ConsoleType, CallInv, CopyInv, Busy
<1>5. Settled' = Settled /\ SettledNewest' = SettledNewest
  BY <1>2, <1>3 DEF Settled, SettledNewest, Forced, Advanced
<1>6. SoundInv'
  BY <1>1, <1>2, <1>5, SettledSame
<1> QED BY <1>4, <1>6

\* What newest becomes is a sequence of bytes.
LEMMA NewestType ==
    ASSUME NEW s \in Seq(Int)
    PROVE  Newest(s) \in Seq(Int) /\ Len(Newest(s)) <= RbSize /\ (Len(s) <= RbSize => Newest(s) = s)
<1>1. RbSize \in Nat /\ Len(s) \in Nat
  BY RbSizeAssumption DEF RbSizeAssumption
<1>2. CASE Len(s) <= RbSize
  BY <1>2 DEF Newest
<1>3. CASE Len(s) > RbSize
  <2>1. Len(s) - RbSize + 1 \in 1..Len(s) + 1
    BY <1>1, <1>3
  <2>2. SubSeq(s, Len(s) - RbSize + 1, Len(s)) \in Seq(Int)
        /\ Len(SubSeq(s, Len(s) - RbSize + 1, Len(s))) = RbSize
    BY <1>1, <1>3, <2>1
  <2> QED BY <1>1, <1>3, <2>2 DEF Newest
<1> QED BY <1>1, <1>2, <1>3

\* The writer moves on; unless the write was forced the call is over.
LEMMA AdvanceConsole ==
    ASSUME ConsoleInv, PutAdvance, UNCHANGED <<host, line, thread, history>>
    PROVE  ConsoleInv'
<1> SUFFICES ASSUME ~overlap' PROVE (ConsoleType /\ CallInv /\ CopyInv /\ SoundInv)'
  BY DEF ConsoleInv
<1>1. ConsoleType /\ CallInv /\ CopyInv /\ SoundInv
  BY DEF ConsoleInv, PutAdvance
<1>2. /\ put.pc = "advance" /\ rb' = AdvanceWrite(rb, Len(put.data), put.wraps)
      /\ put' = IF put.forced THEN [put EXCEPT !.pc = "push"] ELSE NoPut
      /\ newest' = IF put.forced THEN newest ELSE Newest(newest \o put.data)
      /\ UNCHANGED <<fault, printed, overlap, wide, read, got, dbg>> /\ ~Busy
  BY <1>1 DEF PutAdvance, thread, history, CallInv
<1>3. put.forced \in BOOLEAN /\ newest \o put.data \in Seq(Int)
  BY <1>1 DEF ConsoleType
<1>4. CASE put.forced
  <2>1. put'.pc = "push" /\ put'.data = put.data /\ put'.wraps = put.wraps /\ newest' = newest
    BY <1>1, <1>2, <1>4 DEF ConsoleType
  <2>2. ConsoleType' /\ CallInv' /\ CopyInv'
    BY <1>1, <1>2, <1>4, <2>1 DEF ConsoleType, CallInv, CopyInv, Busy
  <2>3. Settled' = Settled /\ SettledNewest' = SettledNewest
    BY <1>2, <1>4, <2>1 DEF Settled, SettledNewest, Forced, Advanced
  <2>4. SoundInv'
    BY <1>1, <1>2, <2>3, SettledSame
  <2> QED BY <2>2, <2>4
<1>5. CASE ~put.forced
  <2>1. put' = NoPut /\ put'.pc = "run" /\ newest' = Newest(newest \o put.data)
    BY <1>2, <1>5 DEF NoPut
  <2>2. newest' \in Seq(Int)
    BY <1>3, <2>1, NewestType
  <2>3. ConsoleType' /\ CallInv' /\ CopyInv'
    BY <1>1, <1>2, <2>1, <2>2 DEF ConsoleType, CallInv, CopyInv, Busy, NoPut
  <2>4. Settled' = Settled /\ SettledNewest' = SettledNewest
    BY <1>2, <1>5, <2>1 DEF Settled, SettledNewest, Forced, Advanced, Busy
  <2>5. SoundInv'
    BY <1>1, <1>2, <2>4, SettledSame
  <2> QED BY <2>3, <2>5
<1> QED BY <1>3, <1>4, <1>5

\* The reader is moved up and the call is over.
LEMMA PushConsole ==
    ASSUME ConsoleInv, PutPush, UNCHANGED <<host, line, thread, history>>
    PROVE  ConsoleInv'
<1> SUFFICES ASSUME ~overlap' PROVE (ConsoleType /\ CallInv /\ CopyInv /\ SoundInv)'
  BY DEF ConsoleInv
<1>1. ConsoleType /\ CallInv /\ CopyInv /\ SoundInv
  BY DEF ConsoleInv, PutPush
<1>2. /\ put.pc = "push" /\ rb' = PushRead(rb, put.wraps) /\ put' = NoPut /\ put'.pc = "run"
      /\ newest' = Newest(newest \o put.data)
      /\ UNCHANGED <<fault, printed, overlap, wide, read, got, dbg>> /\ ~Busy
  BY <1>1 DEF PutPush, thread, history, CallInv, NoPut
<1>3. newest' \in Seq(Int)
  <2>1. newest \o put.data \in Seq(Int)
    BY <1>1 DEF ConsoleType
  <2> QED BY <1>2, <2>1, NewestType
<1>4. ConsoleType' /\ CallInv' /\ CopyInv'
  BY <1>1, <1>2, <1>3 DEF ConsoleType, CallInv, CopyInv, Busy, NoPut
<1>5. Settled' = Settled /\ SettledNewest' = SettledNewest
  BY <1>2 DEF Settled, SettledNewest, Busy
<1>6. SoundInv'
  BY <1>1, <1>2, <1>5, SettledSame
<1> QED BY <1>4, <1>6

\* The second half of serial_tx_buf_flush.
LEMMA FlushEndsConsole ==
    ASSUME ConsoleInv, FlushEnds
    PROVE  ConsoleInv'
<1> SUFFICES ASSUME ~overlap' PROVE (ConsoleType /\ CallInv /\ CopyInv /\ SoundInv)'
  BY DEF ConsoleInv
<1>1. ~overlap /\ put.pc = "run"
  BY DEF FlushEnds, FlushWrite, OverlapsPut
<1>2. ConsoleType /\ CallInv /\ CopyInv /\ SoundInv
  BY <1>1 DEF ConsoleInv
<1>3. /\ dbg = "flush" /\ rb' = RewindWrite(rb) /\ newest' = <<>> /\ dbg' \in {"in", "header"}
      /\ UNCHANGED <<put, fault, printed, wide, got, read>>
  BY DEF FlushEnds, FlushWrite, ChunkDone
<1>4. ConsoleType' /\ CallInv' /\ CopyInv'
  <2>1. newest' \in Seq(Int)
    BY <1>3
  <2> QED BY <1>1, <1>2, <1>3, <2>1 DEF ConsoleType, CallInv, CopyInv, Busy
<1>5. Settled' = Settled /\ SettledNewest' = SettledNewest
  BY <1>1, <1>3 DEF Settled, SettledNewest
<1>6. SoundInv'
  BY <1>2, <1>3, <1>5, SettledSame
<1> QED BY <1>4, <1>6

\* A read of the console takes its length: nothing changes yet.
LEMMA ReadLenConsole ==
    ASSUME LineType, ConsoleInv, ReadLen
    PROVE  ConsoleInv'
<1> SUFFICES ASSUME ~overlap' PROVE (ConsoleType /\ CallInv /\ CopyInv /\ SoundInv)'
  BY DEF ConsoleInv
<1>1. ~overlap /\ put.pc = "run" /\ dbg = "in"
  BY DEF ReadLen, GetBegin, OverlapsPut
<1>2. ConsoleType /\ CallInv /\ CopyInv /\ SoundInv
  BY <1>1 DEF ConsoleInv
<1>3. UNCHANGED <<rb, put, fault, printed, newest, wide, read>>
  BY DEF ReadLen, GetBegin
<1>4. CASE GetLen(Chunked) = 0
  <2>1. dbg' \in {"in", "header"} /\ got' = got
    BY <1>4 DEF ReadLen, ChunkDone
  <2>2. ConsoleType' /\ CallInv' /\ CopyInv'
    BY <1>1, <1>2, <1>3, <2>1 DEF ConsoleType, CallInv, CopyInv, Busy
  <2>3. Settled' = Settled /\ SettledNewest' = SettledNewest
    BY <1>1, <1>3, <2>1 DEF Settled, SettledNewest
  <2> QED BY <1>2, <1>3, <2>2, <2>3, SettledSame
<1>5. CASE GetLen(Chunked) # 0
  <2>1. dbg' = "copy" /\ got' = [len |-> GetLen(Chunked), wraps |-> FALSE]
    BY <1>5 DEF ReadLen
  <2>2. Chunked \in Nat
    BY SerialDbgAssumption DEF SerialDbgAssumption, Chunked, Least, LineType
  <2>3. DataLen(rb) \in Nat
    <3>1. Settled = rb
      BY <1>1 DEF Settled
    <3>2. Ring(rb) /\ RbSize \in Nat
      <4>1. Ring(rb)
        BY <1>2, <3>1 DEF SoundInv, RingInv
      <4> QED BY <4>1, PoolSize
    <3>3. DataLen(rb) \in 0..RbSize
      BY <3>2, RingLen
    <3> QED BY <3>2, <3>3
  <2>4. GetLen(Chunked) \in 1..DataLen(rb)
    BY <1>5, <2>2, <2>3 DEF GetLen
  <2>5. DataLen(rb)' = DataLen(rb)
    BY <1>3 DEF DataLen, Empty, Full
  <2>6. ConsoleType' /\ CallInv' /\ CopyInv'
    BY <1>1, <1>2, <1>3, <2>1, <2>3, <2>4, <2>5 DEF ConsoleType, CallInv, CopyInv, Busy
  <2>7. Settled' = Settled /\ SettledNewest' = SettledNewest
    BY <1>1, <1>3, <2>1 DEF Settled, SettledNewest
  <2> QED BY <1>2, <1>3, <2>6, <2>7, SettledSame
<1> QED BY <1>4, <1>5

\* The bytes behind the first len.
LEMMA BehindType ==
    ASSUME NEW s \in Seq(Int), NEW len \in Nat
    PROVE  Behind(s, len) \in Seq(Int)
<1>1. CASE Len(s) < len
  BY <1>1 DEF Behind
<1>2. CASE ~(Len(s) < len)
  <2>1. SubSeq(s, len + 1, Len(s)) \in Seq(Int)
    BY <1>2
  <2> QED BY <1>2, <2>1 DEF Behind
<1> QED BY <1>1, <1>2

\* The reader moves on and the call is over.
LEMMA ReadStoreConsole ==
    ASSUME ConsoleInv, ReadStore
    PROVE  ConsoleInv'
<1> SUFFICES ASSUME ~overlap' PROVE (ConsoleType /\ CallInv /\ CopyInv /\ SoundInv)'
  BY DEF ConsoleInv
<1>1. ~overlap /\ put.pc = "run" /\ dbg = "store"
  BY DEF ReadStore, GetStore, OverlapsPut
<1>2. ConsoleType /\ CallInv /\ CopyInv /\ SoundInv
  BY <1>1 DEF ConsoleInv
<1>3. /\ rb' = AdvanceRead(rb, got.len, got.wraps) /\ newest' = Behind(newest, got.len)
      /\ dbg' \in {"in", "header"} /\ got' = NoGet
      /\ UNCHANGED <<put, fault, printed, wide, read>>
  BY DEF ReadStore, GetStore, ChunkDone, Behind
<1>4. ConsoleType' /\ CallInv' /\ CopyInv'
  <2>1. newest' \in Seq(Int)
    BY <1>2, <1>3, BehindType DEF ConsoleType
  <2> QED BY <1>1, <1>2, <1>3, <2>1 DEF ConsoleType, CallInv, CopyInv, Busy, NoGet
<1>5. Settled' = Settled /\ SettledNewest' = SettledNewest
  BY <1>1, <1>3 DEF Settled, SettledNewest
<1>6. SoundInv'
  BY <1>2, <1>3, <1>5, SettledSame
<1> QED BY <1>4, <1>6

----------------------------------------------------------------------------
(* The console: the steps that change what the call in progress leaves *)

\* serial_tx_buf_flush empties the console.
LEMMA FlushConsole ==
    ASSUME ConsoleInv, Flush
    PROVE  ConsoleInv'
<1> SUFFICES ASSUME ~overlap' PROVE (ConsoleType /\ CallInv /\ CopyInv /\ SoundInv)'
  BY DEF ConsoleInv
<1>1. ~overlap /\ put.pc = "run" /\ dbg = "in"
  BY DEF Flush, FlushRead, OverlapsPut
<1>2. ConsoleType /\ CallInv /\ CopyInv /\ SoundInv
  BY <1>1 DEF ConsoleInv
<1>3. /\ rb' = RewindRead(rb) /\ dbg' = "flush"
      /\ UNCHANGED <<put, fault, printed, newest, wide, got, read>>
  BY DEF Flush, FlushRead, history
<1>4. ConsoleType' /\ CallInv' /\ CopyInv'
  BY <1>1, <1>2, <1>3 DEF ConsoleType, CallInv, CopyInv, Busy
<1>5. Settled = rb /\ Settled' = RewindWrite(rb')
  BY <1>1, <1>3 DEF Settled
<1>6. Ring(rb) /\ RbSize \in Nat \ {0} /\ DataLen(rb) \in 0..RbSize
  <2>1. Ring(rb)
    BY <1>2, <1>5 DEF SoundInv, RingInv
  <2>2. DataLen(rb) \in 0..RbSize
    BY <2>1, RingLen
  <2> QED BY <2>1, <2>2, PoolSize
<1>7. Ring(Settled') /\ DataLen(Settled') = 0
  <2> DEFINE q == RewindWrite(RewindRead(rb))
  <2>1. q \in Rings /\ q.rm = q.wm /\ q.wi = q.ri + 0 /\ 0 \in 0..RbSize
    <3>1. rb \in Rings /\ 0 \in 0..RbSize - 1 /\ 0 \in 0..RbSize
      BY <1>6 DEF Ring
    <3>2. q = [[[[rb EXCEPT !.rm = FALSE] EXCEPT !.ri = 0] EXCEPT !.wm = FALSE] EXCEPT !.wi = 0]
      BY DEF RewindWrite, RewindRead
    <3>3. q \in Rings /\ q.ri = 0 /\ q.wi = 0
      BY <3>1, <3>2 DEF Rings
    <3>4. q.rm = q.wm
      BY <3>1, <3>2 DEF Rings
    <3> QED BY <3>1, <3>3, <3>4
  <2> HIDE DEF q
  <2>2. Ring(q) /\ DataLen(q) = 0
    BY <2>1, LenOfRing
  <2> QED BY <1>3, <1>5, <2>2 DEF q
<1>8. RingInv'
  BY <1>7 DEF RingInv, HoldsLast
<1>9. ReadInv'
  <2>1. ASSUME NEW i \in 1..Len(read)
        PROVE  read[i] <= printed - 0
    <3>1. read[i] <= printed - DataLen(rb) /\ read[i] \in Int /\ printed \in Nat
      BY <1>2, <1>5 DEF SoundInv, ReadInv, ConsoleType
    <3> QED BY <1>6, <3>1
  <2> QED BY <1>2, <1>3, <1>7, <2>1 DEF SoundInv, ReadInv
<1>10. NewestInv'
  <2>1. SettledNewest' = <<>>
    BY <1>1, <1>3 DEF SettledNewest
  <2> QED BY <1>7, <2>1 DEF NewestInv
<1> QED BY <1>4, <1>8, <1>9, <1>10 DEF SoundInv

\* Bytes read after others, from the one numbered b + 1 on, are in order with them.
LEMMA Joined ==
    ASSUME NEW s \in Seq(Int), NEW c \in Seq(Int), NEW b \in Int,
           \A i \in 1..Len(s) : s[i] <= b,
           \A i, j \in 1..Len(s) : i < j => s[i] < s[j],
           \A k \in 1..Len(c) : c[k] = b + k
    PROVE  LET t == s \o c
           IN  /\ t \in Seq(Int)
               /\ \A i \in 1..Len(t) : t[i] <= b + Len(c)
               /\ \A i, j \in 1..Len(t) : i < j => t[i] < t[j]
<1> DEFINE t == s \o c
           m == Len(s)
           n == Len(c)
<1>1. /\ t \in Seq(Int) /\ Len(t) = m + n /\ m \in Nat /\ n \in Nat
      /\ \A i \in 1..m + n : t[i] = IF i <= m THEN s[i] ELSE c[i - m]
  BY ConcatProperties
<1>2. \A i \in 1..m : s[i] \in Int /\ s[i] <= b
  BY ElementOfSeq
<1>3. \A i, j \in 1..m : i < j => s[i] < s[j]
  OBVIOUS
<1>4. \A k \in 1..n : c[k] = b + k
  OBVIOUS
<1> HIDE DEF t, m, n
<1>5. ASSUME NEW i \in 1..m + n
      PROVE  IF i <= m THEN t[i] = s[i] /\ i \in 1..m ELSE t[i] = b + (i - m)
  <2>1. CASE i <= m
    BY <1>1, <2>1
  <2>2. CASE i > m
    <3>1. i - m \in 1..n
      BY <1>1, <2>2
    <3>2. t[i] = c[i - m]
      BY <1>1, <2>2
    <3> QED BY <1>1, <1>4, <2>2, <3>1, <3>2
  <2> QED BY <1>1, <2>1, <2>2
<1>6. ASSUME NEW i \in 1..m + n
      PROVE  t[i] <= b + n
  <2>1. CASE i <= m
    <3>1. t[i] <= b /\ t[i] \in Int
      BY <1>2, <1>5, <2>1
    <3> QED BY <1>1, <3>1
  <2>2. CASE i > m
    <3>1. t[i] = b + (i - m)
      BY <1>1, <1>5, <2>2
    <3> QED BY <1>1, <2>2, <3>1
  <2> QED BY <1>1, <2>1, <2>2
<1>7. ASSUME NEW i \in 1..m + n, NEW j \in 1..m + n, i < j
      PROVE  t[i] < t[j]
  <2>1. CASE j <= m
    <3>1. i <= m
      BY <1>1, <1>7, <2>1
    <3> QED BY <1>3, <1>5, <1>7, <2>1, <3>1
  <2>2. CASE i <= m /\ j > m
    <3>1. t[i] <= b /\ t[i] \in Int
      BY <1>2, <1>5, <2>2
    <3>2. t[j] = b + (j - m)
      BY <1>1, <1>5, <2>2
    <3> QED BY <1>1, <2>2, <3>1, <3>2
  <2>3. CASE i > m /\ j > m
    <3>1. t[i] = b + (i - m) /\ t[j] = b + (j - m)
      BY <1>1, <1>5, <2>3
    <3> QED BY <1>1, <1>7, <3>1
  <2> QED BY <1>1, <1>7, <2>1, <2>2, <2>3
<1> QED BY <1>1, <1>6, <1>7 DEF t, n

\* The bytes are copied out: they go to the host and leave the buffer.
LEMMA ReadCopyConsole ==
    ASSUME ConsoleInv, ReadCopy
    PROVE  ConsoleInv'
<1> SUFFICES ASSUME ~overlap' PROVE (ConsoleType /\ CallInv /\ CopyInv /\ SoundInv)'
  BY DEF ConsoleInv
<1> DEFINE len == got.len
           D == DataLen(rb)
           copy == CopyOut(rb, len)
           q == AdvanceRead(rb, len, ReadWraps(rb, len))
<1>1. ~overlap /\ put.pc = "run" /\ dbg = "copy"
  BY DEF ReadCopy, GetCopy, OverlapsPut
<1>2. ConsoleType /\ CallInv /\ CopyInv /\ SoundInv
  BY <1>1 DEF ConsoleInv
<1>3. Settled = rb
  BY <1>1 DEF Settled
<1>4. /\ Ring(rb) /\ len \in 1..D /\ RbSize \in Nat \ {0} /\ printed \in Nat
      /\ \A k \in 1..D : rb.pool[(rb.ri + k - 1) % RbSize] = printed - D + k
  <2>1. Ring(rb) /\ HoldsLast(rb)
    BY <1>2, <1>3 DEF SoundInv, RingInv
  <2>2. len \in 1..D /\ RbSize \in Nat \ {0} /\ printed \in Nat
    BY <1>1, <1>2, PoolSize DEF CopyInv, ConsoleType
  <2> QED BY <2>1, <2>2 DEF HoldsLast
<1>5. D \in 0..RbSize /\ rb.ri \in 0..RbSize - 1
  BY <1>4, RingLen
<1>6. ~(rb.ri > RbSize) /\ ReadWraps(rb, len) \in BOOLEAN
  BY <1>4, <1>5 DEF ReadWraps
<1>7. /\ ~fault' /\ read' = read \o copy /\ dbg' = "store"
      /\ got' = [got EXCEPT !.wraps = ReadWraps(rb, len)]
      /\ UNCHANGED <<rb, put, printed, newest, wide>>
  BY <1>6 DEF ReadCopy, GetCopy
<1>8. got' \in [len : Nat, wraps : BOOLEAN] /\ got'.len = len /\ got'.wraps = ReadWraps(rb, len)
  BY <1>2, <1>6, <1>7 DEF ConsoleType
<1>9. Settled' = q /\ SettledNewest' = Behind(newest, len) /\ SettledNewest = newest
  <2>1. put'.pc = "run"
    BY <1>1, <1>7
  <2> HIDE DEF len
  <2> QED BY <1>1, <1>7, <1>8, <2>1 DEF Settled, SettledNewest
<1>10. /\ Ring(q) /\ DataLen(q) = D - len /\ q.pool = rb.pool
       /\ \A k \in 1..DataLen(q) :
            (q.ri + k - 1) % RbSize = (rb.ri + (k + len) - 1) % RbSize
  BY <1>4, GetRing
<1>11. copy \in Seq(Int) /\ Len(copy) = len /\ \A k \in 1..len : copy[k] = printed - D + k
  <2>1. \A k \in 1..len : rb.pool[(rb.ri + k - 1) % RbSize] = printed - D + k
    BY <1>4, <1>5
  <2>2. len \in Nat
    BY <1>4, <1>5
  <2> HIDE DEF len, D
  <2>3. copy = [k \in 1..len |-> printed - D + k]
    BY <2>1 DEF CopyOut
  <2>4. D \in Int
    BY <1>5
  <2> HIDE DEF copy
  <2> QED BY <1>4, <2>2, <2>3, <2>4
<1> HIDE DEF q, copy, len, D
<1>12. /\ read' \in Seq(Int)
       /\ \A i \in 1..Len(read') : read'[i] <= (printed - D) + len
       /\ \A i, j \in 1..Len(read') : i < j => read'[i] < read'[j]
  <2>1. /\ read \in Seq(Int) /\ \A i \in 1..Len(read) : read[i] <= printed - D
        /\ \A i, j \in 1..Len(read) : i < j => read[i] < read[j]
    BY <1>2, <1>3 DEF SoundInv, ReadInv, ConsoleType, D
  <2> DEFINE b == printed - D
  <2>2. b \in Int
    BY <1>4, <1>5
  <2>3. copy \in Seq(Int) /\ Len(copy) = len /\ \A k \in 1..len : copy[k] = b + k
    BY <1>11
  <2>4. \A i \in 1..Len(read) : read[i] <= b
    BY <2>1
  <2> HIDE DEF b
  <2>5. /\ read \o copy \in Seq(Int)
        /\ \A i \in 1..Len(read \o copy) : (read \o copy)[i] <= b + Len(copy)
        /\ \A i, j \in 1..Len(read \o copy) : i < j => (read \o copy)[i] < (read \o copy)[j]
    BY <2>1, <2>2, <2>3, <2>4, Joined
  <2> QED BY <1>7, <2>3, <2>5 DEF b
<1>13. ConsoleType' /\ CallInv' /\ CopyInv'
  BY <1>1, <1>2, <1>7, <1>8, <1>12 DEF ConsoleType, CallInv, CopyInv
<1>14. RingInv'
  <2>1. ASSUME NEW k \in 1..D - len
        PROVE  q.pool[(q.ri + k - 1) % RbSize] = printed - (D - len) + k
    <3>1. k + len \in 1..D
      BY <1>4, <1>5
    <3>2. rb.pool[(rb.ri + (k + len) - 1) % RbSize] = printed - D + (k + len)
      BY <1>4, <3>1
    <3>3. q.pool[(q.ri + k - 1) % RbSize] = printed - D + (k + len)
      BY <1>10, <3>2
    <3> QED BY <1>4, <1>5, <3>3
  <2>2. Ring(Settled') /\ HoldsLast(Settled)'
    BY <1>7, <1>9, <1>10, <2>1 DEF HoldsLast
  <2> QED BY <2>2 DEF RingInv
<1>15. ReadInv'
  <2>1. (printed - D) + len = printed' - DataLen(Settled')
    BY <1>4, <1>5, <1>7, <1>9, <1>10
  <2> QED BY <1>12, <2>1 DEF ReadInv
<1>16. NewestInv'
  <2> SUFFICES ASSUME ~wide'
               PROVE  /\ Len(SettledNewest') = DataLen(Settled')
                      /\ \A k \in 1..Len(SettledNewest') :
                           SettledNewest'[k] = printed' - Len(SettledNewest') + k
    BY DEF NewestInv
  <2>1. newest \in Seq(Int) /\ Len(newest) = D /\ \A k \in 1..D : newest[k] = printed - D + k
    BY <1>2, <1>3, <1>7, <1>9 DEF SoundInv, NewestInv, ConsoleType, D
  <2>2. Behind(newest, len) = SubSeq(newest, len + 1, D)
    BY <1>4, <1>5, <2>1 DEF Behind
  <2>3. Len(SubSeq(newest, len + 1, D)) = D - len
        /\ \A k \in 1..D - len : SubSeq(newest, len + 1, D)[k] = newest[k + len]
    <3>1. len \in Nat /\ D \in Nat /\ len <= D /\ len + 1 \in Int /\ D \in Int
      BY <1>4, <1>5
    <3>2. \A i \in len + 1..D : newest[i] \in Int
      <4>1. \A i \in 1..D : newest[i] \in Int
        BY <2>1
      <4> QED BY <3>1, <4>1
    <3>3. /\ Len(SubSeq(newest, len + 1, D)) = IF len + 1 <= D THEN D - (len + 1) + 1 ELSE 0
          /\ \A i \in 1..D - (len + 1) + 1 :
               SubSeq(newest, len + 1, D)[i] = newest[len + 1 + i - 1]
      BY <3>1, <3>2, SubSeqProperties
    <3>4. /\ D - (len + 1) + 1 = D - len /\ (len + 1 <= D \/ D - len = 0)
          /\ \A i \in 1..D - len : len + 1 + i - 1 = i + len
      BY <3>1
    <3> QED BY <3>3, <3>4
  <2>4. ASSUME NEW k \in 1..D - len
        PROVE  SubSeq(newest, len + 1, D)[k] = printed - (D - len) + k
    <3>1. k + len \in 1..D
      BY <1>4, <1>5
    <3>2. newest[k + len] = printed - D + (k + len)
      BY <2>1, <3>1
    <3> QED BY <1>4, <1>5, <2>3, <3>2
  <2> QED BY <1>7, <1>9, <1>10, <2>2, <2>3, <2>4
<1> QED BY <1>13, <1>14, <1>15, <1>16 DEF SoundInv

\* The bytes a write brings: the last ones printed with it, as many as fit.
LEMMA PutData ==
    ASSUME NEW p \in Nat, NEW m \in Nat \ {0}
    PROVE  LET data == Newest([k \in 1..m |-> p + k])
               n == Len(data)
           IN  /\ data \in Seq(Int) /\ n \in 1..RbSize
               /\ n = m \/ (n = RbSize /\ m > RbSize)
               /\ \A k \in 1..n : data[k] = (p + m) - n + k
<1> DEFINE s == [k \in 1..m |-> p + k]
<1>1. RbSize \in Nat \ {0}
  BY RbSizeAssumption DEF RbSizeAssumption
<1>2. s \in Seq(Int) /\ Len(s) = m /\ \A k \in 1..m : s[k] = p + k
  OBVIOUS
<1> HIDE DEF s
<1>3. CASE m <= RbSize
  <2>1. Newest(s) = s
    BY <1>2, <1>3 DEF Newest
  <2>2. ASSUME NEW k \in 1..m
        PROVE  s[k] = (p + m) - m + k
    BY <1>2
  <2>3. m \in 1..RbSize
    BY <1>1, <1>3
  <2> QED BY <1>2, <2>1, <2>2, <2>3 DEF s
<1>4. CASE m > RbSize
  <2> DEFINE d == SubSeq(s, m - RbSize + 1, m)
  <2>1. Newest(s) = d
    BY <1>1, <1>2, <1>4 DEF Newest
  <2>2. d \in Seq(Int) /\ Len(d) = RbSize
    BY <1>1, <1>2, <1>4
  <2>3. ASSUME NEW k \in 1..RbSize
        PROVE  d[k] = (p + m) - RbSize + k
    <3>1. d[k] = s[m - RbSize + k] /\ m - RbSize + k \in 1..m
      BY <1>1, <1>2, <1>4
    <3> QED BY <1>1, <1>2, <3>1
  <2> HIDE DEF d
  <2>4. RbSize \in 1..RbSize
    BY <1>1
  <2> QED BY <1>4, <2>1, <2>2, <2>3, <2>4 DEF s
<1> QED BY <1>1, <1>3, <1>4

\* The sequence of the bytes that should be there grows in the same way.
LEMMA NewestGrows ==
    ASSUME NEW p \in Nat, NEW m \in Nat, NEW s \in Seq(Int), NEW data \in Seq(Int),
           Len(s) <= RbSize, Len(data) \in 1..RbSize,
           \A k \in 1..Len(s) : s[k] = p - Len(s) + k,
           \A k \in 1..Len(data) : data[k] = (p + m) - Len(data) + k,
           Len(s) + Len(data) <= RbSize \/ (Len(data) = 1 /\ m = 1 /\ Len(s) = RbSize),
           Len(data) = m \/ Len(s) = 0
    PROVE  LET t == Newest(s \o data)
               L == Len(s) + Len(data)
           IN  /\ Len(t) = IF L <= RbSize THEN L ELSE RbSize
               /\ \A k \in 1..Len(t) : t[k] = (p + m) - Len(t) + k
<1> DEFINE u == s \o data
           a == Len(s)
           n == Len(data)
<1>1. RbSize \in Nat \ {0} /\ a \in Nat /\ n \in Nat \ {0}
  <2>1. a \in Nat /\ n \in Nat
    BY LenProperties
  <2> QED BY <2>1, PoolSize
<1>2. /\ u \in Seq(Int) /\ Len(u) = a + n
      /\ \A k \in 1..a + n : u[k] = IF k <= a THEN s[k] ELSE data[k - a]
  BY ConcatProperties
<1>3. /\ \A k \in 1..a : s[k] = p - a + k
      /\ \A k \in 1..n : data[k] = (p + m) - n + k
      /\ a + n <= RbSize \/ (n = 1 /\ m = 1 /\ a = RbSize)
      /\ n = m \/ a = 0
  OBVIOUS
<1> HIDE DEF u, a, n
<1>4. ASSUME NEW k \in 1..a + n
      PROVE  u[k] = (p + m) - (a + n) + k
  <2>1. CASE k <= a
    <3>1. k \in 1..a /\ n = m
      BY <1>1, <1>3, <2>1
    <3>2. u[k] = p - a + k
      BY <1>2, <1>3, <2>1, <3>1
    <3> QED BY <1>1, <3>1, <3>2
  <2>2. CASE k > a
    <3>1. k - a \in 1..n
      BY <1>1, <2>2
    <3>2. u[k] = data[k - a]
      <4>1. ~(k <= a)
        BY <1>1, <2>2
      <4> QED BY <1>2, <4>1
    <3>3. u[k] = (p + m) - n + (k - a)
      BY <1>3, <3>1, <3>2
    <3> QED BY <1>1, <3>3
  <2> QED BY <1>1, <2>1, <2>2
<1>5. CASE a + n <= RbSize
  <2>1. Newest(u) = u
    BY <1>2, <1>5 DEF Newest
  <2> QED BY <1>2, <1>4, <1>5, <2>1 DEF u, a, n
<1>6. CASE a + n > RbSize
  <2> DEFINE d == SubSeq(u, 2, a + n)
  <2>1. n = 1 /\ a = RbSize /\ m = 1 /\ a + n - RbSize + 1 = 2
    BY <1>1, <1>3, <1>6
  <2>2. Newest(u) = d
    BY <1>1, <1>2, <1>6, <2>1 DEF Newest
  <2>3. Len(d) = RbSize
    BY <1>1, <1>2, <2>1
  <2>4. ASSUME NEW k \in 1..RbSize
        PROVE  d[k] = (p + m) - RbSize + k
    <3>1. d[k] = u[k + 1] /\ k + 1 \in 1..a + n
      BY <1>1, <1>2, <2>1
    <3> QED BY <1>1, <1>4, <2>1, <3>1
  <2> HIDE DEF d
  <2>5. ~(a + n <= RbSize)
    BY <1>1, <1>6
  <2> QED BY <2>2, <2>3, <2>4, <2>5 DEF u, a, n
<1> QED BY <1>1, <1>5, <1>6

\* A write copies its bytes in: nobody is in a call, or the calls overlap.
LEMMA CopyConsole ==
    ASSUME ConsoleInv, NEW m \in 1..MaxPut, PutCopy(m, Busy, load.prints),
           UNCHANGED <<host, line, thread, history>>
    PROVE  ConsoleInv'
<1> SUFFICES ASSUME ~overlap' PROVE (ConsoleType /\ CallInv /\ CopyInv /\ SoundInv)'
  BY DEF ConsoleInv
<1> DEFINE data == Newest([k \in 1..m |-> printed + k])
           n == Len(data)
           wraps == Wraps(rb, n)
           forced == n > SpaceLen(rb)
           D == DataLen(rb)
           q == Put(rb, data)
           E == DataLen(q)
<1>1. ~overlap /\ ~Busy /\ put.pc = "run"
  BY DEF PutCopy
<1>2. ConsoleType /\ CallInv /\ CopyInv /\ SoundInv
  BY <1>1 DEF ConsoleInv
<1>3. Settled = rb /\ SettledNewest = newest
  BY <1>1 DEF Settled, SettledNewest, Busy
<1>4. /\ Ring(rb) /\ RbSize \in Nat \ {0} /\ printed \in Nat /\ m \in Nat \ {0}
      /\ \A k \in 1..D : rb.pool[(rb.ri + k - 1) % RbSize] = printed - D + k
  <2>1. Ring(rb) /\ HoldsLast(rb)
    BY <1>2, <1>3 DEF SoundInv, RingInv
  <2>2. RbSize \in Nat \ {0} /\ printed \in Nat /\ m \in Nat \ {0}
    <3>1. printed \in Nat
      BY <1>2 DEF ConsoleType
    <3>2. m \in Nat \ {0}
      BY ConsoleAssumption DEF ConsoleAssumption
    <3> QED BY <3>1, <3>2, PoolSize
  <2> QED BY <2>1, <2>2 DEF HoldsLast
<1>5. D \in 0..RbSize /\ rb.wi \in 0..RbSize - 1 /\ SpaceLen(rb) = RbSize - D
  BY <1>4, RingLen, SpaceOfRing
<1>6. /\ data \in Seq(Int) /\ n \in 1..RbSize
      /\ n = m \/ (n = RbSize /\ m > RbSize)
      /\ \A k \in 1..n : data[k] = (printed + m) - n + k
  BY <1>4, PutData
<1>7. ~(rb.wi > RbSize) /\ wraps \in BOOLEAN /\ forced \in BOOLEAN
  BY <1>4, <1>5 DEF Wraps
<1> HIDE DEF data
<1>8. /\ ~fault' /\ rb' = CopyIn(rb, data) /\ printed' = printed + m /\ newest' = newest
      /\ put' = [pc |-> IF wraps THEN "flip" ELSE "advance",
                 data |-> data, forced |-> forced, wraps |-> wraps]
      /\ ~wide' => ~wide /\ ~(forced /\ m > 1)
      /\ UNCHANGED <<got, read, dbg>>
  BY <1>7 DEF PutCopy, thread, history, data
<1>9. /\ Ring(q)
      /\ n <= SpaceLen(rb) => E = D + n
      /\ forced => E \in {0, RbSize} /\ (n = 1 => E = RbSize)
      /\ \A k \in 1..E :
           q.pool[(q.ri + k - 1) % RbSize] =
               IF k <= E - n THEN rb.pool[(rb.ri + (D + n - E + k) - 1) % RbSize]
               ELSE data[n - E + k]
  BY <1>4, <1>6, PutRing
<1>10. E \in 0..RbSize
  BY <1>9, RingLen
<1>11. Settled' = q /\ SettledNewest' = Newest(newest \o data)
  <2>1. /\ put'.data = data /\ put'.wraps = wraps /\ put'.forced = forced
        /\ put'.pc = IF wraps THEN "flip" ELSE "advance"
    BY <1>8
  <2>2. SettledNewest' = Newest(newest \o data)
    BY <1>8, <2>1 DEF SettledNewest
  <2>3. CASE wraps
    <3>1. Settled' = Forced(Advanced(FlipWrite(rb)))'
      BY <2>1, <2>3 DEF Settled
    <3>2. Settled' = q
      BY <1>8, <2>1, <2>3, <3>1 DEF Forced, Advanced, Put, Written
    <3> QED BY <2>2, <3>2
  <2>4. CASE ~wraps
    <3>1. Settled' = Forced(Advanced(rb))'
      BY <2>1, <2>4 DEF Settled
    <3>2. Settled' = q
      BY <1>8, <2>1, <2>4, <3>1 DEF Forced, Advanced, Put, Written
    <3> QED BY <2>2, <3>2
  <2> QED BY <1>7, <2>3, <2>4
<1>12. ConsoleType' /\ CallInv' /\ CopyInv'
  <2>1. put' \in [pc : {"run", "flip", "advance", "push"}, data : Seq(Int),
                  forced : BOOLEAN, wraps : BOOLEAN]
    BY <1>6, <1>7, <1>8
  <2>2. printed' \in Nat
    BY <1>4, <1>8
  <2> QED BY <1>1, <1>2, <1>8, <2>1, <2>2 DEF ConsoleType, CallInv, CopyInv, Busy
<1>13. \/ E = D + n /\ D + n <= RbSize
       \/ E = RbSize /\ D + n > RbSize
       \/ E = 0 /\ D + n > RbSize /\ n # 1
  <2>1. n \in Nat /\ D \in Nat
    BY <1>4, <1>5, <1>6
  <2>2. CASE n <= SpaceLen(rb)
    BY <1>4, <1>5, <1>9, <2>1, <2>2
  <2>3. CASE n > SpaceLen(rb)
    BY <1>4, <1>5, <1>9, <2>1, <2>3
  <2> HIDE DEF n, D, E
  <2> QED BY <1>4, <1>5, <2>1, <2>2, <2>3
<1> HIDE DEF q, E, D, n, wraps, forced
<1>14. RingInv'
  <2>1. ASSUME NEW k \in 1..E
        PROVE  q.pool[(q.ri + k - 1) % RbSize] = (printed + m) - E + k
    <3>1. CASE k <= E - n
      <4>1. D + n - E + k \in 1..D /\ n = m
        <5>1. D \in Nat /\ n \in Nat \ {0} /\ E \in Nat /\ E <= RbSize /\ E <= D + n
          <6>1. D \in Nat /\ n \in Nat \ {0}
            BY <1>4, <1>5, <1>6
          <6>2. E \in Nat /\ E <= RbSize /\ E <= D + n
            BY <1>4, <1>10, <1>13, <6>1
          <6> QED BY <6>1, <6>2
        <5>2. n = m
          BY <1>4, <1>6, <3>1, <5>1
        <5> QED BY <3>1, <5>1, <5>2
      <4>2. rb.pool[(rb.ri + (D + n - E + k) - 1) % RbSize] = printed - D + (D + n - E + k)
        BY <1>4, <4>1
      <4>3. q.pool[(q.ri + k - 1) % RbSize] = printed - D + (D + n - E + k)
        BY <1>9, <3>1, <4>2
      <4> QED BY <1>4, <1>5, <1>6, <1>10, <4>1, <4>3
    <3>2. CASE ~(k <= E - n)
      <4>1. n - E + k \in 1..n
        BY <1>4, <1>5, <1>6, <1>10, <1>13, <3>2
      <4>2. q.pool[(q.ri + k - 1) % RbSize] = data[n - E + k]
        BY <1>9, <3>2
      <4>3. q.pool[(q.ri + k - 1) % RbSize] = (printed + m) - n + (n - E + k)
        BY <1>6, <4>1, <4>2
      <4> QED BY <1>4, <1>5, <1>6, <1>10, <4>3
    <3> QED BY <3>1, <3>2
  <2>2. Ring(Settled') /\ HoldsLast(Settled)'
    BY <1>8, <1>9, <1>11, <2>1 DEF HoldsLast, E
  <2> QED BY <2>2 DEF RingInv
<1>15. ReadInv'
  <2>1. ASSUME NEW i \in 1..Len(read)
        PROVE  read[i] <= (printed + m) - E
    <3>1. read[i] <= printed - D /\ read[i] \in Int
      BY <1>2, <1>3 DEF SoundInv, ReadInv, ConsoleType, D
    <3>2. E <= D + m
      BY <1>4, <1>5, <1>6, <1>10, <1>13
    <3> HIDE DEF E, D
    <3> QED BY <1>4, <1>5, <1>10, <3>1, <3>2
  <2> QED BY <1>2, <1>8, <1>11, <2>1 DEF SoundInv, ReadInv, E
<1>16. NewestInv'
  <2> SUFFICES ASSUME ~wide'
               PROVE  /\ Len(SettledNewest') = DataLen(Settled')
                      /\ \A k \in 1..Len(SettledNewest') :
                           SettledNewest'[k] = printed' - Len(SettledNewest') + k
    BY DEF NewestInv
  <2>1. newest \in Seq(Int) /\ Len(newest) = D /\ \A k \in 1..D : newest[k] = printed - D + k
    BY <1>2, <1>3, <1>8 DEF SoundInv, NewestInv, ConsoleType, D
  <2>2. forced => m = 1 /\ n = 1 /\ D = RbSize
    BY <1>4, <1>5, <1>6, <1>8 DEF forced
  <2>3. D + n <= RbSize \/ (n = 1 /\ m = 1 /\ D = RbSize)
    BY <1>4, <1>5, <1>6, <2>2 DEF forced
  <2>4. n = m \/ D = 0
    BY <1>4, <1>5, <1>6, <2>3
  <2>5. E = IF D + n <= RbSize THEN D + n ELSE RbSize
    BY <1>4, <1>5, <1>6, <1>10, <1>13, <2>3
  <2> DEFINE t == Newest(newest \o data)
  <2>6. /\ Len(t) = IF D + n <= RbSize THEN D + n ELSE RbSize
        /\ \A k \in 1..Len(t) : t[k] = (printed + m) - Len(t) + k
    <3>1. /\ m \in Nat /\ Len(newest) <= RbSize /\ Len(data) \in 1..RbSize
          /\ \A k \in 1..Len(newest) : newest[k] = printed - Len(newest) + k
          /\ \A k \in 1..Len(data) : data[k] = (printed + m) - Len(data) + k
          /\ \/ Len(newest) + Len(data) <= RbSize
             \/ Len(data) = 1 /\ m = 1 /\ Len(newest) = RbSize
          /\ Len(data) = m \/ Len(newest) = 0
      BY <1>4, <1>5, <1>6, <2>1, <2>3, <2>4 DEF n
    <3>2. /\ Len(t) = IF Len(newest) + Len(data) <= RbSize THEN Len(newest) + Len(data) ELSE RbSize
          /\ \A k \in 1..Len(t) : t[k] = (printed + m) - Len(t) + k
      BY <1>4, <1>6, <2>1, <3>1, NewestGrows
    <3> QED BY <2>1, <3>2 DEF n
  <2> HIDE DEF t
  <2> QED BY <1>8, <1>11, <2>5, <2>6 DEF t, E
<1> QED BY <1>12, <1>14, <1>15, <1>16 DEF SoundInv

----------------------------------------------------------------------------
(* The console: the invariant *)

\* The console is empty when serial_dbg_init has set it up.
LEMMA InitConsole ==
    ASSUME Init
    PROVE  ConsoleInv
<1>1. RbSize \in Nat \ {0}
  BY RbSizeAssumption DEF RbSizeAssumption
<1>2. /\ rb = [rm |-> FALSE, ri |-> 0, wm |-> FALSE, wi |-> 0,
               pool |-> [i \in 0..RbSize - 1 |-> 0]]
      /\ put = NoPut /\ fault = FALSE /\ printed = 0 /\ newest = <<>> /\ dbg = "header"
      /\ got = NoGet /\ read = <<>>
  BY DEF Init, ConsoleInit
<1>3. ConsoleType /\ CallInv /\ CopyInv
  BY <1>2 DEF ConsoleType, CallInv, CopyInv, NoPut, NoGet
<1>4. Settled = rb /\ SettledNewest = <<>>
  BY <1>2 DEF Settled, SettledNewest, NoPut
<1>5. Ring(rb) /\ DataLen(rb) = 0
  <2>1. 0 \in 0..RbSize - 1 /\ 0 \in 0..RbSize
    BY <1>1
  <2>2. rb \in Rings /\ rb.rm = rb.wm /\ rb.wi = rb.ri + 0
    BY <1>2, <2>1 DEF Rings
  <2> QED BY <2>1, <2>2, LenOfRing
<1>6. RingInv
  <2>1. HoldsLast(rb)
    BY <1>5 DEF HoldsLast
  <2> QED BY <1>4, <1>5, <2>1 DEF RingInv
<1>7. ReadInv
  BY <1>2 DEF ReadInv
<1>8. NewestInv
  BY <1>4, <1>5 DEF NewestInv
<1> QED BY <1>3, <1>6, <1>7, <1>8 DEF ConsoleInv, SoundInv

\* Every step of the two threads, the host and the interrupt keeps the console sound.
LEMMA NextConsole ==
    ASSUME LineType, ConsoleInv, [Next]_vars
    PROVE  ConsoleInv'
<1>1. ASSUME NEW c \in load.commands, HostBegins(c) PROVE ConsoleInv'
  BY <1>1, IdleStep DEF HostBegins, thread, history
<1>2. CASE HostByte
  BY <1>2, IdleStep DEF HostByte, thread, history
<1>3. CASE Receive
  BY <1>3, IdleStep DEF Receive, thread
<1>4. CASE RecvBlock
  <2>1. dbg' = dbg \/ (~Busy /\ ~Busy')
    BY <1>4 DEF RecvBlock, Busy
  <2>2. UNCHANGED <<consoleVars, read, got>>
    BY <1>4 DEF RecvBlock
  <2> QED BY <2>1, <2>2, IdleStep
<1>5. CASE TimeOut
  <2>1. ~Busy /\ ~Busy' /\ UNCHANGED <<consoleVars, read, got>>
    BY <1>5 DEF TimeOut, Busy
  <2> QED BY <2>1, IdleStep
<1>6. CASE Delay
  <2>1. ~Busy /\ ~Busy' /\ UNCHANGED <<consoleVars, read, got>>
    BY <1>6 DEF Delay, Busy, history
  <2> QED BY <2>1, IdleStep
<1>7. CASE NotMagic
  <2>1. ~Busy /\ ~Busy' /\ UNCHANGED <<consoleVars, read, got>>
    BY <1>7 DEF NotMagic, Busy, history
  <2> QED BY <2>1, IdleStep
<1>8. ASSUME NEW c \in load.commands, Control(c) PROVE ConsoleInv'
  <2>1. ~Busy /\ ~Busy' /\ UNCHANGED <<consoleVars, read, got>>
    BY <1>8 DEF Control, Busy
  <2> QED BY <2>1, IdleStep
<1>9. CASE Answer
  <2>1. ~Busy /\ ~Busy' /\ UNCHANGED <<consoleVars, read, got>>
    BY <1>9 DEF Answer, ChunkDone, Busy
  <2> QED BY <2>1, IdleStep
<1>10. CASE Flush
  BY <1>10, FlushConsole
<1>11. CASE FlushEnds
  BY <1>11, FlushEndsConsole
<1>12. CASE ReadLen
  BY <1>12, ReadLenConsole
<1>13. CASE ReadCopy
  BY <1>13, ReadCopyConsole
<1>14. CASE ReadStore
  BY <1>14, ReadStoreConsole
<1>15. CASE Prints
  BY <1>15, CopyConsole, FlipConsole, AdvanceConsole, PushConsole DEF Prints, Putting
<1>16. CASE UNCHANGED vars
  BY <1>16, IdleStep DEF vars, thread, history
<1> QED BY <1>1, <1>2, <1>3, <1>4, <1>5, <1>6, <1>7, <1>8, <1>9, <1>10, <1>11, <1>12, <1>13,
           <1>14, <1>15, <1>16 DEF Next, DbgStep

\* The console is sound in every behaviour as long as no calls overlapped.
LEMMA ConsoleInvariant == Spec => []ConsoleInv
<1>1. Init => ConsoleInv
  BY InitConsole
<1>2. LineType /\ ConsoleInv /\ [Next]_vars => ConsoleInv'
  BY NextConsole
<1>3. LineInv => LineType
  BY DEF LineInv
<1> QED BY <1>1, <1>2, <1>3, LineInvariant, PTL DEF Spec

(* As long as print calls and reads of the console do not overlap and no write of several  *)
(* bytes has to make room, the ring buffer holds exactly the newest unread bytes: for every *)
(* size of the buffer that fits its index fields and every longest write.                   *)
THEOREM ConsoleHoldsNewest == Spec => []ConsoleIsNewest
<1>1. ConsoleInv => ConsoleIsNewest
  <2> SUFFICES ASSUME ConsoleInv, Quiet, ~wide PROVE Contents(rb) = newest
    BY DEF ConsoleIsNewest
  <2>1. ConsoleType /\ SoundInv /\ Settled = rb /\ SettledNewest = newest
    BY DEF ConsoleInv, Quiet, Settled, SettledNewest, Busy
  <2>2. Ring(rb) /\ HoldsLast(rb)
    BY <2>1 DEF SoundInv, RingInv
  <2> DEFINE D == DataLen(rb)
  <2>3. newest \in Seq(Int) /\ Len(newest) = D /\ \A k \in 1..D : newest[k] = printed - D + k
    BY <2>1 DEF SoundInv, NewestInv, ConsoleType
  <2>4. \A k \in 1..D : rb.pool[(rb.ri + k - 1) % RbSize] = printed - D + k
    BY <2>2 DEF HoldsLast
  <2> HIDE DEF D
  <2>5. newest = [k \in 1..D |-> newest[k]]
    BY <2>3
  <2>6. Contents(rb) = [k \in 1..D |-> newest[k]]
    BY <2>3, <2>4 DEF Contents, D
  <2> QED BY <2>5, <2>6
<1> QED BY <1>1, ConsoleInvariant, PTL

(* As long as print calls and reads of the console do not overlap, no copy leaves the pool  *)
(* and the host reads the bytes in the order they were printed, none twice, whatever forced *)
(* writes lost in between.                                                                  *)
THEOREM ConsoleReadsInOrder == Spec => []ConsoleInOrder
<1>1. ConsoleInv => ConsoleInOrder
  BY DEF ConsoleInv, ConsoleInOrder, CallInv, SoundInv, ReadInv
<1> QED BY <1>1, ConsoleInvariant, PTL
=============================================================================
