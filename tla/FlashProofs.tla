---------------------------- MODULE FlashProofs ----------------------------
(***************************************************************************)
(* The flash chip and the boot loader that works on it.                    *)
(*                                                                         *)
(* w25qxx_write_data for any chip, any sector size, any request and a      *)
(* power cut at any place: the invariant follows the buffer, what it holds *)
(* for a cell of the sector, and which cells have it already.  Then the    *)
(* shortcut for downloads: a second invariant follows an image from the    *)
(* erase by blocks through the buffer into its partition.                  *)
(*                                                                         *)
(* The boot loader, for any number of versions, sectors, downloads and     *)
(* power cuts: a cut damages at most the sector being written, which is    *)
(* what the first part shows of the driver.                                *)
(***************************************************************************)
EXTENDS QspiFlash, OtaBoot, SequenceTheorems, TLAPS

Writing == pc \in {"read", "erase", "program"}
Rewriting == pc \in {"erase", "program"}

FlashInv == flash \in [Cells -> Values] /\ before \in [Cells -> Values]

NumInv ==
    /\ op.addr \in Nat /\ op.data \in Seq(Values) /\ addr \in Nat
    /\ Rewriting => base \in Int /\ page \in Nat

\* A write has cells left to store while it is under way; other operations
\* and the shortcut find no write.
OpInv ==
    /\ Writing => op.addr <= addr /\ addr < End(op)
    /\ ~Writing /\ pc # "off" => op = NoOp

\* The sector that is being rewritten is the one of addr.
SectorInv ==
    /\ Rewriting => base = SectorAddr(addr) /\ page < SectorSize
    /\ pc = "erase" => page = 0

\* Cell x of the sector in the buffer: the data, or what was there.
New(x) == IF InPart(x) THEN DataAt(x, op) ELSE Reached(x)

BufInv == Rewriting => \A x \in Cells : InSector(x) => buf[x - base] = New(x)

\* Before the erase nothing has changed; then the pages before page hold the
\* buffer and the others all its bits.
ReadInv == pc \in {"read", "erase"} => \A x \in Cells : flash[x] = Reached(x)
ProgramInv ==
    pc = "program" => \A x \in Cells : InSector(x) =>
        IF x < base + page THEN flash[x] = New(x) ELSE New(x) \subseteq flash[x]

\* Cells outside the sector.
OutInv == op # NoOp => \A x \in Cells : ~InSector(x) => flash[x] = Reached(x)

\* The address of an erase by blocks.
BaseInv == pc = "ext_erase" => base \in Int

FInv == FlashInv /\ NumInv /\ OpInv /\ SectorInv /\ BufInv /\ ReadInv /\ ProgramInv /\ OutInv /\ InPlace

----------------------------------------------------------------------------
(* The position of a cell within its sector. *)
LEMMA ModBounds ==
    ASSUME NEW a \in Nat
    PROVE  a % SectorSize \in Nat /\ a % SectorSize < SectorSize
  BY QspiFlashAssumption DEF QspiFlashAssumption

(* The part of a write that falls into the sector of addr is not empty and  *)
(* inside both the write and the sector.                                    *)
LEMMA PartBounds ==
    ASSUME NumInv, op.addr <= addr, addr < End(op)
    PROVE  /\ WriteLen \in Nat \ {0} /\ addr + WriteLen <= End(op)
           /\ SectorAddr(addr) <= addr /\ SectorAddr(addr) \in Int
           /\ addr + WriteLen <= SectorAddr(addr) + SectorSize
           /\ WriteLen = SectorRemain(addr) \/ addr + WriteLen = End(op)
           /\ End(op) \in Nat /\ SectorSize \in Nat
  <1>1. addr % SectorSize \in Nat /\ addr % SectorSize < SectorSize /\ SectorSize \in Nat /\ addr \in Nat
    BY ModBounds, QspiFlashAssumption DEF QspiFlashAssumption, NumInv
  <1>2. Len(op.data) \in Nat /\ op.addr \in Nat
    BY LenProperties DEF NumInv
  <1>3. End(op) \in Nat
    BY <1>2 DEF End
  <1> DEFINE m == addr % SectorSize
             e == End(op)
  <1>4. m \in Nat /\ m < SectorSize /\ e \in Nat /\ addr < e
    BY <1>1, <1>3
  <1>5. /\ WriteLen = IF e - addr < SectorSize - m THEN e - addr ELSE SectorSize - m
        /\ SectorAddr(addr) = addr - m /\ SectorRemain(addr) = SectorSize - m
    BY DEF WriteLen, SectorAddr, SectorRemain
  <1> HIDE DEF m, e
  <1>6. QED
    BY <1>1, <1>3, <1>4, <1>5 DEF e

(* What a write is asked to store in a cell is a value of a cell. *)
LEMMA NewIsValue ==
    ASSUME FlashInv, NumInv, NEW x \in Cells
    PROVE  /\ InOp(x, op) => DataAt(x, op) \in Values
           /\ Reached(x) \in Values
           /\ (op.addr <= addr /\ addr < End(op)) => New(x) \in Values
  <1>1. x \in Nat /\ op.addr \in Nat /\ op.data \in Seq(Values) /\ Len(op.data) \in Nat
    BY QspiFlashAssumption, LenProperties DEF QspiFlashAssumption, NumInv, Cells
  <1>2. ASSUME InOp(x, op) PROVE DataAt(x, op) \in Values
    <2>1. x - op.addr + 1 \in 1..Len(op.data)
      BY <1>1, <1>2 DEF InOp, End
    <2>2. QED
      BY <1>1, <2>1, ElementOfSeq DEF DataAt
  <1>3. before[x] \in Values
    BY DEF FlashInv
  <1>4. Reached(x) \in Values
    BY <1>2, <1>3 DEF Reached, Wanted
  <1>5. ASSUME op.addr <= addr, addr < End(op), InPart(x) PROVE InOp(x, op)
    <2>1. addr + WriteLen <= End(op) /\ WriteLen \in Nat /\ addr \in Nat /\ End(op) \in Nat
      BY <1>5, PartBounds DEF NumInv
    <2>2. QED
      BY <1>1, <1>5, <2>1 DEF InPart, InOp
  <1>6. QED
    BY <1>2, <1>4, <1>5 DEF New

(* With no write under way only the types matter. *)
LEMMA NoWrite ==
    ASSUME FlashInv', addr' \in Nat, op' = NoOp, pc' \notin {"read", "erase", "program"}
    PROVE  FInv'
  <1>1. /\ Writing' = FALSE /\ Rewriting' = FALSE
    BY DEF Writing, Rewriting
  <1>0. NumInv'
    <2>1. NoOp.addr = 0 /\ NoOp.data = <<>> /\ <<>> \in Seq(Values)
      BY DEF NoOp
    <2>2. QED
      BY <1>1, <2>1 DEF NumInv
  <1>2. OpInv' /\ SectorInv' /\ BufInv' /\ ReadInv' /\ ProgramInv'
    BY <1>1 DEF OpInv, SectorInv, BufInv, ReadInv, ProgramInv
  <1>3. OutInv' /\ InPlace'
    BY DEF OutInv, InPlace
  <1>4. QED
    BY <1>0, <1>2, <1>3 DEF FInv

(* The initial state. *)
LEMMA FInit == Init => FInv
  <1> SUFFICES ASSUME Init PROVE FInv
    OBVIOUS
  <1>1. FlashInv
    BY DEF Init, FlashInv, Unknown, Values
  <1>2. NumInv
    <2>1. NoOp.addr = 0 /\ NoOp.data = <<>> /\ <<>> \in Seq(Values)
      BY DEF NoOp
    <2>2. QED
      BY <2>1 DEF Init, NumInv
  <1>3. ~Writing /\ ~Rewriting /\ pc = "idle" /\ op = NoOp
    BY DEF Init, Writing, Rewriting
  <1>4. QED
    BY <1>1, <1>2, <1>3 DEF FInv, OpInv, SectorInv, BufInv, ReadInv, ProgramInv, OutInv, InPlace

(* A write begins: nothing is changed yet. *)
LEMMA BeginStep ==
    ASSUME FInv, NEW d \in Requests, NEW a \in 0..Download - Len(d), WriteBegin(a, d)
    PROVE  FInv'
  <1>1. d \in Seq(Values) /\ Len(d) \in Nat /\ a \in Nat /\ Len(d) > 0
    <2>1. d \in Seq(Values)
      BY QspiFlashAssumption DEF QspiFlashAssumption, Values
    <2>2. Len(d) \in Nat /\ d # <<>>
      BY <2>1, LenProperties DEF WriteBegin
    <2>3. Len(d) # 0
      BY <2>1, <2>2, EmptySeq
    <2>4. QED
      BY <2>1, <2>2, <2>3, QspiFlashAssumption DEF QspiFlashAssumption
  <1>2. op'.addr = a /\ op'.data = d /\ addr' = a /\ UNCHANGED <<flash, base, page>> /\ before' = flash
    BY DEF WriteBegin
  <1>3. pc' = "read"
    BY DEF WriteBegin
  <1>4. FlashInv'
    BY <1>2 DEF FInv, FlashInv
  <1>5. NumInv'
    <2>1. ~Rewriting'
      BY <1>3 DEF Rewriting
    <2>2. QED
      BY <1>1, <1>2, <2>1 DEF NumInv
  <1>6. OpInv'
    <2>1. op'.addr <= addr' /\ addr' < End(op')
      BY <1>1, <1>2 DEF End
    <2>2. QED
      BY <1>3, <2>1 DEF OpInv, Writing
  <1>7. SectorInv' /\ BufInv' /\ ProgramInv'
    BY <1>3 DEF SectorInv, BufInv, ProgramInv, Rewriting
  <1>8. \A x \in Cells : flash'[x] = Reached(x)'
    <2> SUFFICES ASSUME NEW x \in Cells PROVE flash'[x] = Reached(x)'
      OBVIOUS
    <2>1. x \in Nat
      BY QspiFlashAssumption DEF QspiFlashAssumption, Cells
    <2>2. (x < addr') => ~InOp(x, op')
      BY <1>1, <1>2, <2>1 DEF InOp
    <2>3. QED
      BY <1>2, <2>2 DEF Reached, Wanted
  <1>9. ReadInv' /\ OutInv'
    BY <1>8 DEF ReadInv, OutInv
  <1>10. InPlace'
    BY <1>2 DEF InPlace
  <1>11. QED
    BY <1>4, <1>5, <1>6, <1>7, <1>9, <1>10 DEF FInv

(* Facts that a step inherits when it changes neither the request nor addr. *)
LEMMA SameOp ==
    ASSUME op' = op, addr' = addr, before' = before
    PROVE  /\ WriteLen' = WriteLen
           /\ \A x : InPart(x)' = InPart(x) /\ Reached(x)' = Reached(x) /\ New(x)' = New(x)
  BY DEF WriteLen, InPart, Reached, New

(* The sector is read, compared and merged with the data. *)
LEMMA ReadStep == ASSUME FInv, ReadSector PROVE FInv'
  <1> DEFINE b == SectorAddr(addr)
  <1>1. pc = "read" /\ pc' \in {"erase", "program"} /\ (pc' = "program" => ~NeedsErase)
    BY DEF ReadSector
  <1>2. /\ base' = b /\ buf' = Merged(b) /\ page' = 0
        /\ UNCHANGED <<flash, op, addr, before, erased>>
    BY DEF ReadSector
  <1>3. op.addr <= addr /\ addr < End(op) /\ NumInv /\ FlashInv
    BY <1>1 DEF FInv, OpInv, Writing
  <1>4. b \in Int /\ SectorSize \in Nat \ {0}
    BY <1>3, PartBounds, QspiFlashAssumption DEF QspiFlashAssumption
  <1>5. \A x \in Cells : flash[x] = Reached(x)
    BY <1>1 DEF FInv, ReadInv
  <1>6. FlashInv' /\ NumInv'
    BY <1>2, <1>4 DEF FInv, FlashInv, NumInv
  <1>7. OpInv'
    BY <1>1, <1>2, <1>3 DEF OpInv, Writing, End
  <1>8. SectorInv'
    <2>1. base' = SectorAddr(addr') /\ page' < SectorSize /\ page' = 0
      BY <1>2, <1>4
    <2>2. QED
      BY <2>1 DEF SectorInv
  <1>9. BufInv'
    <2>1. ASSUME NEW x \in Cells, InSector(x)' PROVE buf'[x - base'] = New(x)'
      <3>1. x \in Nat /\ x - b \in Offsets
        BY <1>2, <1>4, <2>1, QspiFlashAssumption DEF QspiFlashAssumption, Cells, InSector, Offsets
      <3>2. b + (x - b) = x
        BY <1>4, <3>1
      <3>3. Merged(b)[x - b] = IF InPart(x) THEN DataAt(x, op) ELSE flash[x]
        BY <3>1, <3>2 DEF Merged
      <3>4. New(x)' = New(x)
        BY <1>2, SameOp
      <3>5. QED
        BY <1>2, <1>5, <3>3, <3>4 DEF New
    <2>2. QED
      BY <2>1 DEF BufInv
  <1>10. ReadInv' /\ OutInv'
    BY <1>2, <1>5, SameOp DEF ReadInv, OutInv
  <1>11. ProgramInv'
    <2>1. ASSUME NEW x \in Cells, InSector(x)', ~NeedsErase
          PROVE  IF x < base' + page' THEN flash'[x] = New(x)' ELSE New(x)' \subseteq flash'[x]
      <3>1. ~(x < base' + page')
        BY <1>2, <1>4, <2>1, QspiFlashAssumption DEF QspiFlashAssumption, Cells, InSector
      <3>2. InPart(x) => DataAt(x, op) \subseteq flash[x]
        BY <2>1 DEF NeedsErase
      <3>3. New(x) \subseteq flash[x]
        BY <1>5, <3>2 DEF New
      <3>4. QED
        BY <1>2, <3>1, <3>3, SameOp
    <2>2. QED
      BY <1>1, <2>1 DEF ProgramInv
  <1>12. InPlace'
    BY <1>2 DEF FInv, InPlace
  <1>13. QED
    BY <1>6, <1>7, <1>8, <1>9, <1>10, <1>11, <1>12 DEF FInv

(* A step inside a sector that changes only cells of the sector keeps what  *)
(* is known of the rest.                                                    *)
LEMMA SectorStep ==
    ASSUME FInv, Rewriting, UNCHANGED <<op, addr, base, buf, before>>,
           \A x \in Cells : ~InSector(x) => flash'[x] = flash[x]
    PROVE  OutInv'
  <1>1. \A x : Reached(x)' = Reached(x) /\ InSector(x)' = InSector(x)
    BY SameOp DEF InSector
  <1>2. QED
    BY <1>1 DEF FInv, OutInv

(* The sector is erased: every bit of the buffer can be programmed. *)
LEMMA EraseStep == ASSUME FInv, EraseSector PROVE FInv'
  <1>1. pc = "erase" /\ pc' = "program" /\ erased' = TRUE
    BY DEF EraseSector
  <1>2. /\ UNCHANGED <<op, addr, base, buf, page, before>>
        /\ flash' = [x \in Cells |-> IF InSector(x) THEN Bits ELSE flash[x]]
    BY DEF EraseSector, driverVars
  <1>3. op.addr <= addr /\ addr < End(op) /\ NumInv /\ FlashInv /\ Rewriting
    BY <1>1 DEF FInv, OpInv, Writing, Rewriting
  <1>4. FlashInv' /\ NumInv'
    BY <1>2, <1>3 DEF FlashInv, NumInv, Values
  <1>5. OpInv' /\ SectorInv' /\ BufInv' /\ ReadInv'
    <2>1. OpInv'
      BY <1>1, <1>2, <1>3 DEF OpInv, Writing, End
    <2>2. SectorInv'
      BY <1>1, <1>2, <1>3 DEF FInv, SectorInv
    <2>3. BufInv'
      <3>1. \A x : New(x)' = New(x) /\ InSector(x)' = InSector(x)
        BY <1>2, SameOp DEF InSector
      <3>2. QED
        BY <1>2, <1>3, <3>1 DEF FInv, BufInv
    <2>4. ReadInv'
      BY <1>1 DEF ReadInv
    <2>5. QED
      BY <2>1, <2>2, <2>3, <2>4
  <1>6. ProgramInv'
    <2>1. ASSUME NEW x \in Cells, InSector(x)'
          PROVE  IF x < base' + page' THEN flash'[x] = New(x)' ELSE New(x)' \subseteq flash'[x]
      <3>1. page = 0 /\ base \in Int
        BY <1>1, <1>3 DEF FInv, SectorInv, NumInv
      <3>2. InSector(x)
        BY <1>2, <2>1 DEF InSector
      <3>3. ~(x < base' + page')
        BY <1>2, <3>1, <3>2, QspiFlashAssumption DEF QspiFlashAssumption, Cells, InSector
      <3>4. New(x)' = New(x) /\ flash'[x] = Bits
        BY <1>2, <3>2, SameOp
      <3>5. New(x) \subseteq Bits
        BY <1>3, NewIsValue DEF Values
      <3>6. QED
        BY <3>3, <3>4, <3>5
    <2>2. QED
      BY <2>1 DEF ProgramInv
  <1>7. OutInv'
    BY <1>2, <1>3, SectorStep
  <1>8. InPlace'
    BY <1>1 DEF InPlace
  <1>9. QED
    BY <1>4, <1>5, <1>6, <1>7, <1>8 DEF FInv

(* One page is programmed: the cell gets what the buffer holds for it. *)
LEMMA PageProgrammed ==
    ASSUME FInv, pc = "program", NEW f, f = Programmed
    PROVE  /\ f \in [Cells -> Values]
           /\ \A x \in Cells : ~InSector(x) => f[x] = flash[x]
           /\ \A x \in Cells : InSector(x) =>
                IF x < base + page + 1 THEN f[x] = New(x) ELSE New(x) \subseteq f[x]
           /\ \A x \in Cells : f[x] = flash[x] \/ (InSector(x) /\ f[x] = flash[x] \intersect New(x))
  <1>1. Rewriting /\ FlashInv /\ NumInv /\ page < SectorSize /\ SectorSize \in Nat
    BY QspiFlashAssumption DEF QspiFlashAssumption, FInv, Rewriting, SectorInv
  <1>2. \A x \in Cells : InSector(x) => buf[x - base] = New(x)
    BY <1>1 DEF FInv, BufInv
  <1>3. \A x \in Cells : InSector(x) =>
            IF x < base + page THEN flash[x] = New(x) ELSE New(x) \subseteq flash[x]
    BY DEF FInv, ProgramInv
  <1>4. base \in Int /\ page \in Nat /\ Cells \subseteq Int
    BY <1>1, QspiFlashAssumption DEF QspiFlashAssumption, NumInv, Cells
  <1> DEFINE c == base + page
  <1>5. \A x \in Cells : f[x] = IF x = c THEN flash[x] \intersect buf[page] ELSE flash[x]
    BY <1>1 DEF Programmed, FlashInv
  <1>6. f \in [Cells -> Values]
    <2>1. \A x \in Cells : f[x] \in Values
      BY <1>1, <1>5 DEF FlashInv, Values
    <2>2. DOMAIN f = Cells /\ f = [x \in Cells |-> f[x]]
      BY <1>1 DEF Programmed, FlashInv
    <2>3. QED
      BY <2>1, <2>2
  <1>7. c \in Cells => InSector(c) /\ buf[page] = New(c)
    <2>1. InSector(c) /\ c - base = page
      BY <1>1, <1>4 DEF InSector
    <2>2. QED
      BY <1>2, <2>1
  <1>8. c \in Cells => f[c] = New(c) /\ f[c] = flash[c] \intersect New(c)
    <2>1. ASSUME c \in Cells PROVE New(c) \subseteq flash[c]
      <3>1. ~(c < base + page)
        BY <1>4
      <3>2. QED
        BY <1>3, <1>7, <2>1, <3>1
    <2>2. QED
      BY <1>5, <1>7, <2>1
  <1>9. \A x \in Cells : x # c => f[x] = flash[x]
    BY <1>5
  <1>10. \A x \in Cells : InSector(x) =>
            IF x < base + page + 1 THEN f[x] = New(x) ELSE New(x) \subseteq f[x]
    <2> SUFFICES ASSUME NEW x \in Cells, InSector(x)
                 PROVE  IF x < base + page + 1 THEN f[x] = New(x) ELSE New(x) \subseteq f[x]
      OBVIOUS
    <2>1. CASE x = c
      BY <1>8, <2>1
    <2>2. CASE x # c
      <3>1. x < base + page + 1 <=> x < base + page
        BY <1>4, <2>2
      <3>2. QED
        BY <1>3, <1>9, <2>2, <3>1
    <2>3. QED
      BY <2>1, <2>2
  <1>11. QED
    BY <1>6, <1>7, <1>8, <1>9, <1>10

(* What the buffer holds lies between the old contents and the data. *)
LEMMA NewBetween ==
    ASSUME FInv, op.addr <= addr, addr < End(op), NEW x \in Cells
    PROVE  /\ InOp(x, op) => (DataAt(x, op) \intersect before[x]) \subseteq New(x)
           /\ ~InOp(x, op) => New(x) = before[x]
  <1>1. InPart(x) => InOp(x, op)
    <2>1. addr + WriteLen <= End(op) /\ WriteLen \in Nat /\ addr \in Nat /\ End(op) \in Nat /\ op.addr \in Nat
      BY PartBounds DEF FInv, NumInv
    <2>2. x \in Nat
      BY QspiFlashAssumption DEF QspiFlashAssumption, Cells
    <2>3. QED
      BY <2>1, <2>2 DEF InPart, InOp
  <1>2. QED
    BY <1>1 DEF New, Reached, Wanted

(* Programming, complete or cut off, keeps a write in place. *)
LEMMA ProgramInPlace ==
    ASSUME FInv, op.addr <= addr, addr < End(op), UNCHANGED <<op, before, erased>>,
           \A x \in Cells : (flash[x] \intersect New(x)) \subseteq flash'[x] /\ flash'[x] \subseteq flash[x]
    PROVE  InPlace'
  <1> SUFFICES ASSUME op # NoOp, ~erased, NEW x \in Cells
               PROVE  IF InOp(x, op) THEN /\ flash'[x] \subseteq before[x]
                                          /\ (DataAt(x, op) \intersect before[x]) \subseteq flash'[x]
                      ELSE flash'[x] = before[x]
    BY DEF InPlace
  <1>1. IF InOp(x, op) THEN flash[x] \subseteq before[x] /\ (DataAt(x, op) \intersect before[x]) \subseteq flash[x]
        ELSE flash[x] = before[x]
    BY DEF FInv, InPlace
  <1>2. (flash[x] \intersect New(x)) \subseteq flash'[x] /\ flash'[x] \subseteq flash[x]
    OBVIOUS
  <1>3. CASE InOp(x, op)
    <2>1. (DataAt(x, op) \intersect before[x]) \subseteq New(x)
      BY <1>3, NewBetween
    <2>2. flash'[x] \subseteq before[x] /\ (DataAt(x, op) \intersect before[x]) \subseteq flash'[x]
      BY <1>1, <1>2, <1>3, <2>1
    <2>3. QED
      BY <1>3, <2>2
  <1>4. CASE ~InOp(x, op)
    <2>1. New(x) = before[x] /\ flash[x] = before[x]
      BY <1>1, <1>4, NewBetween
    <2>2. flash'[x] = before[x]
      BY <1>2, <2>1
    <2>3. QED
      BY <1>4, <2>2
  <1>5. QED
    BY <1>3, <1>4

(* When the last page of a sector is programmed, the write has come as far  *)
(* as the end of its part: the cells before it are as they were asked for.  *)
LEMMA SectorDone ==
    ASSUME FInv, pc = "program", page + 1 = SectorSize, NEW f, f = Programmed, NEW x \in Cells
    PROVE  f[x] = IF x < addr + WriteLen THEN Wanted(x, op, before) ELSE before[x]
  <1>1. op.addr <= addr /\ addr < End(op) /\ Rewriting /\ NumInv
    BY DEF FInv, OpInv, Writing, Rewriting
  <1>2. base = SectorAddr(addr)
    BY <1>1 DEF FInv, SectorInv
  <1>3. /\ base <= addr /\ addr + WriteLen <= base + SectorSize /\ WriteLen \in Nat
        /\ addr + WriteLen <= End(op) /\ addr \in Nat /\ base \in Int /\ SectorSize \in Nat /\ End(op) \in Nat
        /\ op.addr \in Nat /\ page \in Nat
    BY <1>1, <1>2, PartBounds DEF NumInv
  <1>4. x \in Nat
    BY QspiFlashAssumption DEF QspiFlashAssumption, Cells
  <1>5. InPart(x) => x < addr + WriteLen /\ InOp(x, op) /\ InSector(x)
    BY <1>1, <1>3, <1>4 DEF InPart, InOp, InSector
  <1>6. ~InPart(x) => (x < addr + WriteLen <=> x < addr)
    BY <1>3, <1>4 DEF InPart
  <1>7. New(x) = IF x < addr + WriteLen THEN Wanted(x, op, before) ELSE before[x]
    BY <1>5, <1>6 DEF New, Reached, Wanted
  <1>8. CASE InSector(x)
    <2>1. x < base + page + 1
      BY <1>3, <1>4, <1>8 DEF InSector
    <2>2. QED
      BY <1>7, <1>8, <2>1, PageProgrammed
  <1>9. CASE ~InSector(x)
    <2>1. f[x] = flash[x]
      BY <1>9, PageProgrammed
    <2>2. op # NoOp
      <3>1. NoOp.addr = 0 /\ End(NoOp) = 0
        BY DEF NoOp, End
      <3>2. QED
        BY <1>1, <1>3, <3>1
    <2>3. flash[x] = Reached(x)
      BY <1>9, <2>2 DEF FInv, OutInv
    <2>4. ~InPart(x)
      BY <1>5, <1>9
    <2>5. QED
      BY <1>7, <2>1, <2>3, <2>4 DEF New
  <1>10. QED
    BY <1>8, <1>9

(* A page of w25qxx_sector_program, with what follows the last one. *)
LEMMA ProgramStep == ASSUME FInv, ProgramPage PROVE FInv'
  <1>1. pc = "program" /\ flash' = Programmed
    BY DEF ProgramPage
  <1>2. op.addr <= addr /\ addr < End(op) /\ NumInv /\ FlashInv /\ Rewriting /\ page < SectorSize
    BY <1>1 DEF FInv, OpInv, Writing, Rewriting, SectorInv
  <1>3. /\ WriteLen \in Nat \ {0} /\ addr + WriteLen <= End(op) /\ addr \in Nat /\ base \in Int /\ page \in Nat
        /\ End(op) \in Nat /\ SectorSize \in Nat
    BY <1>2, PartBounds DEF NumInv
  <1>4. flash' \in [Cells -> Values]
    BY <1>1, PageProgrammed
  <1>5. CASE page + 1 < SectorSize
    <2>1. page' = page + 1 /\ UNCHANGED <<pc, op, addr, base, buf, before, erased>>
      BY <1>5 DEF ProgramPage
    <2>2. FlashInv' /\ NumInv'
      BY <1>2, <1>3, <1>4, <2>1 DEF FlashInv, NumInv
    <2>3. OpInv'
      BY <1>1, <1>2, <2>1 DEF OpInv, Writing, End
    <2>4. SectorInv'
      BY <1>1, <1>2, <1>5, <2>1 DEF FInv, SectorInv
    <2>5. \A x : New(x)' = New(x) /\ InSector(x)' = InSector(x) /\ Reached(x)' = Reached(x)
      BY <2>1, SameOp DEF InSector
    <2>6. BufInv'
      BY <1>2, <2>1, <2>5 DEF FInv, BufInv
    <2>7. ReadInv'
      BY <1>1, <2>1 DEF ReadInv
    <2>8. ProgramInv'
      <3>1. ASSUME NEW x \in Cells, InSector(x)'
            PROVE  IF x < base' + page' THEN flash'[x] = New(x)' ELSE New(x)' \subseteq flash'[x]
        <4>1. IF x < base + page + 1 THEN flash'[x] = New(x) ELSE New(x) \subseteq flash'[x]
          BY <1>1, <2>5, <3>1, PageProgrammed
        <4>2. base' + page' = base + page + 1
          BY <1>3, <2>1
        <4>3. QED
          BY <2>5, <4>1, <4>2
      <3>2. QED
        BY <3>1 DEF ProgramInv
    <2>9. OutInv'
      <3>1. \A x \in Cells : ~InSector(x) => flash'[x] = flash[x]
        BY <1>1, PageProgrammed
      <3>2. QED
        BY <1>2, <2>1, <3>1, SectorStep
    <2>10. InPlace'
      <3>1. \A x \in Cells : (flash[x] \intersect New(x)) \subseteq flash'[x] /\ flash'[x] \subseteq flash[x]
        BY <1>1, PageProgrammed
      <3>2. QED
        BY <1>2, <2>1, <3>1, ProgramInPlace
    <2>11. QED
      BY <2>2, <2>3, <2>4, <2>6, <2>7, <2>8, <2>9, <2>10 DEF FInv
  <1>6. CASE ~(page + 1 < SectorSize) /\ addr + WriteLen = End(op)
    <2>1. Return
      BY <1>6 DEF ProgramPage
    <2>2. op' = NoOp /\ pc' = "idle" /\ FlashInv' /\ addr' \in Nat
      <3>1. Unknown \in [Cells -> Values]
        BY DEF Unknown, Values
      <3>2. QED
        BY <1>4, <2>1, <3>1 DEF Return, FlashInv
    <2>3. QED
      BY <2>2, NoWrite
  <1>7. CASE ~(page + 1 < SectorSize) /\ addr + WriteLen # End(op)
    <2>1. page + 1 = SectorSize
      BY <1>2, <1>3, <1>7
    <2>2. addr' = addr + WriteLen /\ UNCHANGED <<op, base, buf, page, before, erased>>
      BY <1>7 DEF ProgramPage, NextSector
    <2>3. pc' = "read"
      BY <1>7 DEF ProgramPage, NextSector
    <2>4. FlashInv' /\ NumInv'
      BY <1>2, <1>3, <1>4, <2>2 DEF FlashInv, NumInv
    <2>5. OpInv'
      <3>1. op'.addr <= addr' /\ addr' < End(op')
        BY <1>2, <1>3, <1>7, <2>2 DEF NumInv
      <3>2. QED
        BY <2>3, <3>1 DEF OpInv, Writing
    <2>6. SectorInv' /\ BufInv' /\ ProgramInv'
      BY <2>3 DEF SectorInv, BufInv, ProgramInv, Rewriting
    <2>7. \A x \in Cells : flash'[x] = Reached(x)'
      <3> SUFFICES ASSUME NEW x \in Cells PROVE flash'[x] = Reached(x)'
        OBVIOUS
      <3>1. flash'[x] = IF x < addr + WriteLen THEN Wanted(x, op, before) ELSE before[x]
        BY <1>1, <2>1, SectorDone
      <3>2. Reached(x)' = IF x < addr + WriteLen THEN Wanted(x, op, before) ELSE before[x]
        BY <2>2 DEF Reached
      <3>3. QED
        BY <3>1, <3>2
    <2>8. ReadInv' /\ OutInv'
      BY <2>7 DEF ReadInv, OutInv
    <2>9. InPlace'
      <3>1. \A x \in Cells : (flash[x] \intersect New(x)) \subseteq flash'[x] /\ flash'[x] \subseteq flash[x]
        BY <1>1, PageProgrammed
      <3>2. QED
        BY <1>2, <2>2, <3>1, ProgramInPlace
    <2>10. QED
      BY <2>4, <2>5, <2>6, <2>8, <2>9 DEF FInv
  <1>8. QED
    BY <1>5, <1>6, <1>7

(* A power cut keeps the request: what is known of the cells outside the    *)
(* sector goes on to hold.                                                  *)
LEMMA CutKeeps ==
    ASSUME FInv, pc' = "off", UNCHANGED <<op, addr, base, before>>,
           flash' \in [Cells -> Values], OutInv', InPlace'
    PROVE  FInv'
  <1>1. ~Rewriting' /\ ~Writing'
    BY DEF Rewriting, Writing
  <1>2. FlashInv' /\ NumInv'
    BY <1>1 DEF FInv, FlashInv, NumInv
  <1>3. OpInv' /\ SectorInv' /\ BufInv' /\ ReadInv' /\ ProgramInv'
    BY <1>1 DEF OpInv, SectorInv, BufInv, ReadInv, ProgramInv
  <1>4. QED
    BY <1>2, <1>3 DEF FInv

(* The supply fails between two operations of the chip. *)
LEMMA CutIdleStep == ASSUME FInv, CutIdle PROVE FInv'
  <1>1. /\ pc' = "off" /\ pc \in {"idle", "read"}
        /\ UNCHANGED <<op, addr, base, buf, page, before, flash, erased>>
    BY DEF CutIdle, Cut, driverVars
  <1>2. \A x : Reached(x)' = Reached(x) /\ InSector(x)' = InSector(x)
    BY <1>1, SameOp DEF InSector
  <1>3. OutInv' /\ InPlace'
    BY <1>1, <1>2 DEF FInv, OutInv, InPlace
  <1>4. flash' \in [Cells -> Values]
    BY <1>1 DEF FInv, FlashInv
  <1>5. QED
    BY <1>1, <1>3, <1>4, CutKeeps

(* The supply fails during an erase: the sector is lost, nothing else. *)
LEMMA CutEraseStep ==
    ASSUME FInv, BaseInv, NEW f \in [0..BlockSize - 1 -> Values], CutErase(f)
    PROVE  FInv'
  <1>1. pc' = "off" /\ UNCHANGED <<op, addr, base, buf, page, before>>
    BY DEF CutErase, Cut, driverVars
  <1>2. Cells \subseteq Int /\ FlashInv
    BY QspiFlashAssumption DEF QspiFlashAssumption, Cells, FInv
  <1>3. CASE pc = "erase"
    <2>1. /\ erased' = TRUE
          /\ flash' = [x \in Cells |-> IF InSector(x) THEN f[x - base] ELSE flash[x]]
      BY <1>3 DEF CutErase
    <2>2. Rewriting /\ base \in Int
      BY <1>3 DEF FInv, NumInv, Rewriting
    <2>3. \A x \in Cells : InSector(x) => f[x - base] \in Values
      <3>1. SectorSize \in Nat \ {0} /\ BlockSize \in Nat \ {0} /\ SectorSize <= BlockSize
        BY QspiFlashAssumption DEF QspiFlashAssumption
      <3>2. \A x \in Cells : InSector(x) => x - base \in 0..BlockSize - 1
        BY <1>2, <2>2, <3>1 DEF InSector
      <3>3. QED
        BY <3>2
    <2>4. flash' \in [Cells -> Values]
      BY <1>2, <2>1, <2>3 DEF FlashInv
    <2>5. OutInv'
      BY <1>1, <2>1, <2>2, SectorStep
    <2>6. InPlace'
      BY <2>1 DEF InPlace
    <2>7. QED
      BY <1>1, <2>4, <2>5, <2>6, CutKeeps
  <1>4. CASE pc = "ext_erase"
    <2>1. flash' = [x \in Cells |-> IF InBlock(x) THEN f[x - base] ELSE flash[x]]
      BY <1>4 DEF CutErase
    <2>2. op = NoOp /\ base \in Int /\ BlockSize \in Nat /\ addr \in Nat
      BY <1>4, QspiFlashAssumption DEF QspiFlashAssumption, FInv, OpInv, Writing, BaseInv, NumInv
    <2>3. \A x \in Cells : InBlock(x) => f[x - base] \in Values
      <3>1. \A x \in Cells : InBlock(x) => x - base \in 0..BlockSize - 1
        BY <1>2, <2>2 DEF InBlock
      <3>2. QED
        BY <3>1
    <2>4. FlashInv'
      BY <1>1, <1>2, <2>1, <2>3 DEF FlashInv
    <2>5. QED
      BY <1>1, <2>2, <2>4, NoWrite
  <1>5. QED
    BY <1>3, <1>4 DEF CutErase

(* The supply fails while a page is programmed: its cell is between what it *)
(* was and what the buffer holds for it.                                    *)
LEMMA CutProgramStep ==
    ASSUME FInv, NEW v \in Values, CutProgram(v)
    PROVE  FInv'
  <1>1. pc' = "off" /\ UNCHANGED <<op, addr, base, buf, page, before, erased>>
    BY DEF CutProgram, Cut, driverVars
  <1>2. FlashInv /\ NumInv
    BY DEF FInv
  <1>3. CASE pc = "program"
    <2> DEFINE c == base + page
    <2>1. /\ (flash[c] \intersect buf[page]) \subseteq v /\ v \subseteq flash[c]
          /\ flash' = [flash EXCEPT ![c] = v]
      BY <1>3 DEF CutProgram, CellsBetween
    <2>2. Rewriting /\ base \in Int /\ page \in Nat /\ page < SectorSize /\ SectorSize \in Nat
          /\ op.addr <= addr /\ addr < End(op)
      BY <1>3, QspiFlashAssumption
         DEF QspiFlashAssumption, FInv, NumInv, SectorInv, OpInv, Writing, Rewriting
    <2>3. c \in Cells => InSector(c) /\ buf[page] = New(c)
      <3>1. InSector(c) /\ c - base = page
        BY <2>2 DEF InSector
      <3>2. QED
        BY <2>2, <3>1 DEF FInv, BufInv
    <2> HIDE DEF c
    <2>4. flash' \in [Cells -> Values]
      BY <1>2, <2>1 DEF FlashInv
    <2>5. \A x \in Cells : flash'[x] = IF x = c THEN v ELSE flash[x]
      BY <1>2, <2>1 DEF FlashInv
    <2>6. \A x \in Cells : ~InSector(x) => flash'[x] = flash[x]
      BY <2>3, <2>5
    <2>7. \A x \in Cells : (flash[x] \intersect New(x)) \subseteq flash'[x] /\ flash'[x] \subseteq flash[x]
      BY <2>1, <2>3, <2>5
    <2>8. OutInv'
      BY <1>1, <2>2, <2>6, SectorStep
    <2>9. InPlace'
      BY <1>1, <2>2, <2>7, ProgramInPlace
    <2>10. QED
      BY <1>1, <2>4, <2>8, <2>9, CutKeeps
  <1>4. CASE pc = "ext_program"
    <2>1. op = NoOp /\ addr \in Nat
      BY <1>4 DEF FInv, OpInv, Writing, NumInv
    <2>2. PICK c : flash' = [flash EXCEPT ![c] = v]
      BY DEF CutProgram
    <2>3. FlashInv'
      BY <1>1, <1>2, <2>2 DEF FlashInv
    <2>4. QED
      BY <1>1, <2>1, <2>3, NoWrite
  <1>5. QED
    BY <1>3, <1>4 DEF CutProgram

(* The shortcut runs only while no write of w25qxx_write_data is under way. *)
LEMMA ExtStep ==
    ASSUME FInv, pc \in {"idle", "ext_erase", "ext_program"},
           flash' \in [Cells -> Values], pc' \notin {"read", "erase", "program"},
           (UNCHANGED <<op, addr, before>>) \/ Return
    PROVE  FInv'
  <1>1. op = NoOp /\ addr \in Nat
    BY DEF FInv, OpInv, Writing, NumInv
  <1>2. before' \in [Cells -> Values]
    BY DEF FInv, FlashInv, Return, Unknown, Values
  <1>3. op' = NoOp /\ addr' \in Nat
    BY <1>1 DEF Return
  <1>4. FlashInv'
    BY <1>2 DEF FlashInv
  <1>5. QED
    BY <1>3, <1>4, NoWrite

(* Every step preserves the invariant. *)
LEMMA FStep == FInv /\ BaseInv /\ [Next]_vars => FInv' /\ BaseInv'
  <1> SUFFICES ASSUME FInv, BaseInv, [Next]_vars PROVE FInv' /\ BaseInv'
    OBVIOUS
  <1>0. flash \in [Cells -> Values]
    BY DEF FInv, FlashInv
  <1>1. ASSUME NEW d \in Requests, NEW a \in 0..Download - Len(d), WriteBegin(a, d) PROVE FInv' /\ BaseInv'
    BY <1>1, BeginStep DEF WriteBegin, BaseInv
  <1>2. CASE ReadSector
    <2>1. pc' # "ext_erase"
      BY <1>2 DEF ReadSector
    <2>2. QED
      BY <1>2, <2>1, ReadStep DEF BaseInv
  <1>3. CASE EraseSector
    BY <1>3, EraseStep DEF EraseSector, BaseInv
  <1>4. CASE ProgramPage
    <2>1. pc' # "ext_erase"
      BY <1>4 DEF ProgramPage, Return, NextSector
    <2>2. QED
      BY <1>4, <2>1, ProgramStep DEF BaseInv
  <1>5. CASE ExtEraseBlock
    <2>1. pc = "ext_erase" /\ pc' \in {"ext_erase", "idle"} /\ UNCHANGED <<op, addr, before>>
      BY <1>5 DEF ExtEraseBlock
    <2>2. flash' \in [Cells -> Values]
      BY <1>0, <1>5 DEF ExtEraseBlock, Values
    <2>3. base' \in Int
      BY <1>5, <2>1, QspiFlashAssumption DEF QspiFlashAssumption, ExtEraseBlock, BaseInv
    <2>4. QED
      BY <2>1, <2>2, <2>3, ExtStep DEF BaseInv
  <1>6. CASE ExtProgramPage
    <2>1. pc = "ext_program" /\ (UNCHANGED <<pc, op, addr, before>> \/ Return)
      BY <1>6 DEF ExtProgramPage
    <2>2. pc' \in {"idle", "ext_program"}
      BY <2>1 DEF Return
    <2>3. PICK c, y : flash' = [flash EXCEPT ![c] = @ \intersect y]
      BY <1>6 DEF ExtProgramPage
    <2>4. flash' \in [Cells -> Values]
      BY <1>0, <2>3 DEF Values
    <2>5. QED
      BY <2>1, <2>2, <2>4, ExtStep DEF BaseInv
  <1>7. ASSUME NEW i, NEW b, ExtDo(i, b) PROVE FInv' /\ BaseInv'
    BY <1>0, <1>7, ExtStep DEF ExtDo, driverVars, BaseInv
  <1>8. ASSUME NEW a \in Nat, NEW n, ExtErase(a, n) PROVE FInv' /\ BaseInv'
    <2>1. pc = "idle" /\ pc' = "ext_erase" /\ UNCHANGED <<flash, op, addr, before>>
      BY <1>8 DEF ExtErase
    <2>2. base' \in Int
      BY <1>8, QspiFlashAssumption DEF QspiFlashAssumption, ExtErase
    <2>3. QED
      BY <1>0, <2>1, <2>2, ExtStep DEF BaseInv
  <1>9. ASSUME NEW a, NEW d, ExtWrite(a, d), pc = "idle", UNCHANGED <<flash, op, addr, before>>
        PROVE  FInv' /\ BaseInv'
    <2>1. pc' \in {"idle", "ext_program"}
      BY <1>9 DEF ExtWrite
    <2>2. QED
      BY <1>0, <1>9, <2>1, ExtStep DEF BaseInv
  <1>10. ASSUME NEW n, Overrun(n) PROVE FInv' /\ BaseInv'
    BY <1>0, <1>10, ExtStep DEF Overrun, driverVars, BaseInv
  <1>11. CASE DlAbort
    BY <1>0, <1>11, ExtStep DEF DlAbort, driverVars, BaseInv
  <1>12. CASE CutIdle
    BY <1>12, CutIdleStep DEF CutIdle, Cut, BaseInv
  <1>13. ASSUME NEW f \in [0..BlockSize - 1 -> Values], CutErase(f) PROVE FInv' /\ BaseInv'
    BY <1>13, CutEraseStep DEF CutErase, Cut, BaseInv
  <1>14. ASSUME NEW v \in Values, CutProgram(v) PROVE FInv' /\ BaseInv'
    BY <1>14, CutProgramStep DEF CutProgram, Cut, BaseInv
  <1>15. CASE Restart
    <2>1. op' = NoOp /\ addr' = 0 /\ pc' = "idle" /\ before' = Unknown /\ flash' = flash
      BY <1>15 DEF Restart, Return
    <2>2. FlashInv'
      BY <1>0, <2>1 DEF FlashInv, Unknown, Values
    <2>3. QED
      BY <2>1, <2>2, NoWrite DEF BaseInv
  <1>16. CASE UNCHANGED vars
    <2>1. UNCHANGED <<flash, pc, op, addr, base, buf, page, before, erased>>
      BY <1>16 DEF vars, driverVars
    <2>2. \A x : InSector(x)' = InSector(x) /\ Reached(x)' = Reached(x) /\ New(x)' = New(x)
      BY <2>1, SameOp DEF InSector
    <2>3. FlashInv' /\ NumInv' /\ OpInv' /\ SectorInv' /\ BaseInv'
      BY <2>1 DEF FInv, FlashInv, NumInv, OpInv, SectorInv, BaseInv, Rewriting, Writing
    <2>4. BufInv' /\ ReadInv' /\ OutInv'
      BY <2>1, <2>2 DEF FInv, BufInv, ReadInv, OutInv, Rewriting
    <2>5. ProgramInv' /\ InPlace'
      BY <2>1, <2>2 DEF FInv, ProgramInv, InPlace
    <2>6. QED
      BY <2>3, <2>4, <2>5 DEF FInv
  <1>17. ASSUME NEW d \in Requests, NEW a \in 0..Download - Len(d), Swallowed(a, d) PROVE FInv' /\ BaseInv'
    BY <1>17, <1>9 DEF Swallowed
  <1>18. CASE DlErase
    <2>1. Download \in Nat
      BY QspiFlashAssumption DEF QspiFlashAssumption
    <2>2. QED
      BY <1>8, <1>18, <2>1 DEF DlErase
  <1>19. ASSUME NEW a \in 0..Download - 1, SwallowedErase(a) PROVE FInv' /\ BaseInv'
    <2>1. a \in Nat
      BY QspiFlashAssumption DEF QspiFlashAssumption
    <2>2. QED
      BY <1>8, <1>19, <2>1 DEF SwallowedErase
  <1>20. ASSUME NEW n \in 1..SectorSize, DlChunk(n) PROVE FInv' /\ BaseInv'
    BY <1>9, <1>20 DEF DlChunk
  <1>21. CASE Next
    BY <1>1, <1>2, <1>3, <1>4, <1>5, <1>6, <1>7, <1>10, <1>11, <1>12, <1>13, <1>14, <1>15,
       <1>17, <1>18, <1>19, <1>20, <1>21 DEF Next, Driver
  <1>22. QED
    BY <1>16, <1>21

(* The invariant holds in every behaviour. *)
LEMMA FAlways == Spec => [](FInv /\ BaseInv)
  <1>1. Init => BaseInv
    BY DEF Init, BaseInv
  <1>2. QED
    BY <1>1, FInit, FStep, PTL DEF Spec

(* Wherever the supply fails, only the sector being rewritten is damaged:   *)
(* for any sector size, request and contents.                               *)
THEOREM DamageBounded == Spec => []OutsideIntact
  <1>1. FInv => OutsideIntact
    <2> SUFFICES ASSUME FInv, op # NoOp, NEW x \in Cells, pc \in {"erase", "program", "off"} => ~InSector(x)
                 PROVE  flash[x] = Reached(x)
      BY DEF OutsideIntact
    <2>1. pc \in {"read", "erase", "program", "off"}
      BY DEF FInv, OpInv, Writing
    <2>2. QED
      BY <2>1 DEF FInv, ReadInv, OutInv
  <1>2. QED
    BY <1>1, FAlways, PTL

(* A write that only clears bits leaves every cell old, new or between, and *)
(* the cells around it alone.                                               *)
THEOREM ClearsInPlace == Spec => []InPlace
  <1>1. FInv => InPlace
    BY DEF FInv
  <1>2. QED
    BY <1>1, FAlways, PTL

(* w25qxx_write_data returns with the data stored and every other cell as   *)
(* it was before the call.                                                  *)
THEOREM WriteIsStored == Spec => WriteStores
  <1> DEFINE Stored == pc = "program" /\ pc' = "idle"
                          => \A x \in Cells : flash'[x] = Wanted(x, op, before)
  <1>1. FInv /\ [Next]_vars => [Stored]_vars
    <2> SUFFICES ASSUME FInv, Next, pc = "program", pc' = "idle", NEW x \in Cells
                 PROVE  flash'[x] = Wanted(x, op, before)
      BY DEF vars
    <2>1. ProgramPage
      BY DEF Next, Driver, WriteBegin, Swallowed, ReadSector, EraseSector, ExtEraseBlock, ExtProgramPage, ExtDo,
             DlErase, SwallowedErase, ExtErase, DlChunk, Overrun, DlAbort, CutIdle, CutErase, CutProgram, Cut, Restart
    <2>2. flash' = Programmed /\ ~(page + 1 < SectorSize) /\ addr + WriteLen = End(op)
      BY <2>1 DEF ProgramPage, NextSector
    <2>3. op.addr <= addr /\ addr < End(op) /\ NumInv /\ Rewriting /\ page < SectorSize
      BY DEF FInv, OpInv, Writing, Rewriting, SectorInv
    <2>4. page \in Nat /\ SectorSize \in Nat /\ End(op) \in Nat /\ op.addr \in Nat
      BY <2>3, PartBounds DEF NumInv
    <2>5. page + 1 = SectorSize
      BY <2>2, <2>3, <2>4
    <2>6. flash'[x] = IF x < End(op) THEN Wanted(x, op, before) ELSE before[x]
      BY <2>2, <2>5, SectorDone
    <2>7. ~(x < End(op)) => ~InOp(x, op)
      BY DEF InOp
    <2>8. QED
      BY <2>6, <2>7 DEF Wanted
  <1>2. QED
    BY <1>1, FAlways, PTL DEF Spec, WriteStores

----------------------------------------------------------------------------
(* The download *)

\* A cell of the image in the download partition, and what it is to hold.
InImage(x) == Download <= x /\ x < Download + Len(dl.image)
ImageAt(x) == dl.image[x - Download + 1]

\* What the shortcut and the downloader keep.
RecInv ==
    /\ ext \in [enable : BOOLEAN, current : Nat, total : Nat, fill : Nat]
    /\ dl \in [image : Seq(Values), pos : Nat,
               state : {"none", "erase", "data", "failed", "done"}]

\* A download in order keeps the shortcut and the downloader at the same place: the
\* buffer holds the cells since the last whole sector.
DlInv ==
    /\ dl.state \in {"erase", "data", "done"} => dl.image \in Images
    /\ dl.state = "erase" => pc \in {"idle", "fault"} /\ ext.fill = 0 /\ dl.pos = 0
    /\ dl.state = "data" =>
         /\ pc \in {"idle", "ext_erase", "ext_program", "fault"}
         /\ ext.enable /\ ext.current = dl.pos /\ ext.total = Len(dl.image)
         /\ dl.pos \in Nat /\ dl.pos < Len(dl.image)
         /\ ext.fill \in 0..dl.pos /\ ext.fill < SectorSize
         /\ (dl.pos - ext.fill) % SectorSize = 0
    /\ dl.state = "done" =>
         pc \in {"idle", "off", "ext_program"} /\ ~ext.enable /\ dl.pos = Len(dl.image)

\* The erase by blocks covers the image: the blocks left reach its end.
DlErasing ==
    dl.state = "data" /\ pc = "ext_erase" =>
      /\ dl.pos = 0 /\ base \in Nat /\ page \in Nat
      /\ base + page * BlockSize >= Download + Len(dl.image)
      /\ \A x \in Cells : InImage(x) /\ x < base => flash[x] = Bits

\* Between two chunks the whole sectors are programmed, the rest of the partition is
\* erased and the buffer holds what is between them.
DlWaiting ==
    dl.state = "data" /\ pc = "idle" =>
      /\ \A i \in Offsets : i < ext.fill => bak[i] = dl.image[dl.pos - ext.fill + i + 1]
      /\ \A x \in Cells : InImage(x) =>
           flash[x] = IF x < Download + dl.pos - ext.fill THEN ImageAt(x) ELSE Bits

\* While a buffer is programmed the pages before page hold the image.
DlProgramming ==
    dl.state \in {"data", "done"} /\ pc = "ext_program" =>
      /\ base \in Nat /\ page \in Nat /\ page < SectorSize
      /\ Download <= base /\ base + SectorSize <= Size
      /\ Download + dl.pos <= base + SectorSize
      /\ dl.state = "data" => base + SectorSize = Download + dl.pos /\ ext.fill = 0
      /\ \A x \in Cells : base <= x /\ x < Download + dl.pos => buf[x - base] = ImageAt(x)
      /\ \A x \in Cells : InImage(x) =>
           flash[x] = IF x < base + page THEN ImageAt(x) ELSE Bits

\* A finished download stays in the partition until the next write or download.
DlStored ==
    dl.state = "done" /\ pc \in {"idle", "off"} =>
      \A x \in Cells : InImage(x) => flash[x] = ImageAt(x)

DownloadInv == RecInv /\ DlInv /\ DlErasing /\ DlWaiting /\ DlProgramming /\ DlStored

(* Quotient and remainder. *)
LEMMA Quotient ==
    ASSUME NEW s \in Nat \ {0}, NEW a \in Nat
    PROVE  a \div s \in Nat /\ a = s * (a \div s) + (a % s) /\ a % s \in 0..s - 1
  BY Z3

(* A smaller quotient is smaller by a whole divisor. *)
LEMMA NextMultiple ==
    ASSUME NEW s \in Nat \ {0}, NEW p \in Nat, NEW q \in Nat, p < q
    PROVE  s * p + s <= s * q
  <1>1. PICK d \in Nat : q = p + 1 + d
    BY Z3
  <1>2. s * q = s * p + s + s * d
    BY <1>1, Z3
  <1>3. s * d \in Nat /\ s * p \in Nat
    BY Z3
  <1>4. QED
    BY <1>2, <1>3

(* The remainder of a number given as multiple and rest. *)
LEMMA RestIs ==
    ASSUME NEW s \in Nat \ {0}, NEW q \in Nat, NEW r \in 0..s - 1
    PROVE  (s * q + r) % s = r
  <1> DEFINE a == s * q + r
             p == a \div s
             m == a % s
  <1>1. s * q \in Nat
    BY Z3
  <1>2. p \in Nat /\ a = s * p + m /\ m \in 0..s - 1
    <2>1. a \in Nat
      BY <1>1
    <2>2. QED
      BY <2>1, Quotient
  <1>3. s * p \in Nat
    BY <1>2, Z3
  <1> HIDE DEF p, m
  <1>4. CASE p < q
    <2>1. s * p + s <= s * q
      BY <1>2, <1>4, NextMultiple
    <2>2. QED
      BY <1>1, <1>2, <1>3, <2>1
  <1>5. CASE q < p
    <2>1. s * q + s <= s * p
      BY <1>2, <1>5, NextMultiple
    <2>2. QED
      BY <1>1, <1>2, <1>3, <2>1
  <1>6. CASE p = q
    BY <1>1, <1>2, <1>6 DEF m
  <1>7. QED
    BY <1>2, <1>4, <1>5, <1>6

(* The next aligned address. *)
LEMMA NextAligned ==
    ASSUME NEW s \in Nat \ {0}, NEW a \in Nat, NEW b \in Nat, a % s = 0, b % s = 0, a < b
    PROVE  a + s <= b
  <1> DEFINE p == a \div s
             q == b \div s
  <1>1. a = s * p /\ b = s * q /\ p \in Nat /\ q \in Nat
    BY Quotient
  <1> HIDE DEF p, q
  <1>2. p # q
    BY <1>1
  <1>3. ~(q < p)
    <2>1. q < p => s * q + s <= s * p
      BY <1>1, NextMultiple
    <2>2. QED
      BY <1>1, <2>1
  <1>4. QED
    BY <1>1, <1>2, <1>3, NextMultiple

(* From an aligned address the first aligned one is a whole sector away. *)
LEMMA SectorFull ==
    ASSUME NEW s \in Nat \ {0}, NEW m \in Nat, NEW k \in 1..s, m % s = 0
    PROVE  (m + k) % s = 0 <=> k = s
  <1> DEFINE q == m \div s
  <1>1. q \in Nat /\ m = s * q
    BY Quotient
  <1> HIDE DEF q
  <1>2. CASE k < s
    <2>1. (s * q + k) % s = k
      BY <1>1, <1>2, RestIs
    <2>2. (m + k) % s = k
      BY <1>1, <2>1
    <2>3. QED
      BY <1>2, <2>2
  <1>3. CASE k = s
    <2>1. q + 1 \in Nat /\ s * (q + 1) = m + s
      BY <1>1, Z3
    <2>2. (s * (q + 1) + 0) % s = 0
      BY <2>1, RestIs
    <2>3. QED
      BY <1>3, <2>1, <2>2
  <1>4. QED
    BY <1>2, <1>3

(* The sum of aligned addresses. *)
LEMMA AlignedSum ==
    ASSUME NEW s \in Nat \ {0}, NEW a \in Nat, NEW b \in Nat, a % s = 0, b % s = 0
    PROVE  (a + b) % s = 0
  <1> DEFINE p == a \div s
             q == b \div s
  <1>1. p \in Nat /\ q \in Nat /\ a = s * p /\ b = s * q
    BY Quotient
  <1> HIDE DEF p, q
  <1>2. s * (p + q) = s * p + s * q /\ p + q \in Nat
    BY <1>1, Z3
  <1>3. (s * (p + q) + 0) % s = 0
    BY <1>2, RestIs
  <1>4. QED
    BY <1>1, <1>2, <1>3

(* The start of a block is the start of a sector. *)
LEMMA DownloadAligned == Download % SectorSize = 0
  <1> DEFINE p == Download \div BlockSize
             q == BlockSize \div SectorSize
  <1>1. Download \in Nat /\ BlockSize \in Nat \ {0} /\ SectorSize \in Nat \ {0}
    BY QspiFlashAssumption DEF QspiFlashAssumption
  <1>2. p \in Nat /\ q \in Nat /\ Download = BlockSize * p /\ BlockSize = SectorSize * q
    BY <1>1, Quotient, QspiFlashAssumption DEF QspiFlashAssumption
  <1> HIDE DEF p, q
  <1>3. (SectorSize * q) * p = SectorSize * (q * p)
    BY <1>1, <1>2, Z3
  <1>4. q * p \in Nat
    BY <1>2, Z3
  <1>5. PICK k \in Nat : Download = SectorSize * k
    BY <1>2, <1>3, <1>4
  <1>6. (SectorSize * k + 0) % SectorSize = 0
    BY <1>1, RestIs
  <1>7. QED
    BY <1>1, <1>5, <1>6

(* An address of the chip, once around or not, is what reaches the chip. *)
LEMMA AddressIs ==
    ASSUME NEW x \in Nat, x < Size
    PROVE  x % Size = x /\ (Size + x) % Size = x
  <1>1. Size \in Nat \ {0}
    BY QspiFlashAssumption DEF QspiFlashAssumption
  <1>2. (Size * 0 + x) % Size = x /\ (Size * 1 + x) % Size = x
    BY <1>1, RestIs
  <1>3. QED
    BY <1>1, <1>2

(* The blocks that ymodem_ota_ext_erase erases cover the image. *)
LEMMA BlocksCover ==
    ASSUME NEW n \in Nat
    PROVE  Blocks(n) \in Nat /\ Blocks(n) * BlockSize >= n
  <1>1. BlockSize \in Nat \ {0}
    BY QspiFlashAssumption DEF QspiFlashAssumption
  <1>2. QED
    BY <1>1, Z3 DEF Blocks

(* One block less is left. *)
LEMMA BlockDone ==
    ASSUME NEW p \in Nat \ {0}
    PROVE  p * BlockSize = BlockSize + (p - 1) * BlockSize /\ (p - 1) * BlockSize \in Nat
  <1>1. BlockSize \in Nat
    BY QspiFlashAssumption DEF QspiFlashAssumption
  <1>2. QED
    BY <1>1, Z3

(* An image that is downloaded: it fits, and its cells are values. *)
LEMMA ImageFits ==
    ASSUME dl.image \in Images
    PROVE  /\ Len(dl.image) \in Nat \ {0} /\ Download + Len(dl.image) <= Size
           /\ Download \in Nat /\ Size \in Nat /\ SectorSize \in Nat \ {0}
           /\ \A x \in Cells : InImage(x) => ImageAt(x) \subseteq Bits
  <1>1. dl.image \in Seq(Values) /\ dl.image # <<>>
    BY QspiFlashAssumption DEF QspiFlashAssumption, Values
  <1>2. Len(dl.image) \in Nat \ {0}
    BY <1>1, LenProperties, EmptySeq
  <1>3. Download + Len(dl.image) <= Size /\ Download \in Nat /\ Size \in Nat /\ SectorSize \in Nat \ {0}
    BY QspiFlashAssumption DEF QspiFlashAssumption
  <1>4. ASSUME NEW x \in Cells, InImage(x) PROVE ImageAt(x) \subseteq Bits
    <2>1. x - Download + 1 \in 1..Len(dl.image)
      BY <1>2, <1>3, <1>4 DEF Cells, InImage
    <2>2. QED
      BY <1>1, <2>1, ElementOfSeq DEF ImageAt, Values
  <1>5. QED
    BY <1>2, <1>3, <1>4

(* A chunk of the image. *)
LEMMA ChunkIs ==
    ASSUME NEW i \in Seq(Values), NEW p \in Nat, NEW n \in Nat \ {0}, p + n <= Len(i)
    PROVE  /\ Len(SubSeq(i, p + 1, p + n)) = n
           /\ \A k \in 1..n : SubSeq(i, p + 1, p + n)[k] = i[p + k]
  <1>1. p + 1 \in 1..Len(i) + 1 /\ p + n \in p + 1 - 1..Len(i) /\ Len(i) \in Nat
    BY LenProperties
  <1>2. p + 1 \in Int /\ p + n \in Int /\ \A k \in p + 1..p + n : i[k] \in Values
    BY <1>1, ElementOfSeq
  <1>3. /\ Len(SubSeq(i, p + 1, p + n)) = IF p + 1 <= p + n THEN p + n - (p + 1) + 1 ELSE 0
        /\ \A k \in 1..p + n - (p + 1) + 1 : SubSeq(i, p + 1, p + n)[k] = i[p + 1 + k - 1]
    BY <1>2, SubSeqProperties
  <1>4. p + n - (p + 1) + 1 = n /\ p + 1 <= p + n /\ \A k \in 1..n : p + 1 + k - 1 = p + k
    OBVIOUS
  <1>5. QED
    BY <1>3, <1>4

(* The sizes of the shortcut stay sizes. *)
LEMMA RecStep ==
    ASSUME RecInv, Next
    PROVE  RecInv'
  <1> USE DEF RecInv
  <1>1. ASSUME NEW d \in Requests, NEW a, WriteBegin(a, d) PROVE RecInv'
    BY <1>1 DEF WriteBegin, NoDl
  <1>2. ASSUME NEW a, NEW d, Len(d) \in Nat, ExtWrite(a, d)
        PROVE  ext' \in [enable : BOOLEAN, current : Nat, total : Nat, fill : Nat]
    <2>1. \A r \in [enable : BOOLEAN, current : Nat, total : Nat, fill : Nat] :
            \A e \in BOOLEAN, c \in Nat, f \in Nat :
              [r EXCEPT !.enable = e, !.current = c, !.fill = f]
                \in [enable : BOOLEAN, current : Nat, total : Nat, fill : Nat]
      OBVIOUS
    <2>2. (~ExtLast(d)) \in BOOLEAN
      <3>1. CASE ExtLast(d)
        BY <3>1
      <3>2. CASE ~ExtLast(d)
        BY <3>2
      <3>3. QED
        BY <3>1, <3>2
    <2>3. ext.current + Len(d) \in Nat /\ ext.fill + Len(d) \in Nat
      BY <1>2
    <2>4. (IF ExtFull(d) \/ ExtLast(d) THEN 0 ELSE ext.fill + Len(d)) \in Nat
      BY <2>3
    <2>5. ext' = [ext EXCEPT !.enable = ~ExtLast(d), !.current = ext.current + Len(d),
                             !.fill = IF ExtFull(d) \/ ExtLast(d) THEN 0 ELSE ext.fill + Len(d)]
      BY <1>2 DEF ExtWrite
    <2>6. QED
      BY <2>1, <2>2, <2>3, <2>4, <2>5
  <1>3. ASSUME NEW d \in Requests, NEW a, Swallowed(a, d) PROVE RecInv'
    <2>1. Len(d) \in Nat
      BY QspiFlashAssumption, LenProperties DEF QspiFlashAssumption
    <2>2. QED
      BY <1>2, <1>3, <2>1 DEF Swallowed
  <1>4. CASE Driver
    BY <1>4 DEF Driver, ReadSector, EraseSector, ProgramPage, ExtEraseBlock, ExtProgramPage, extVars
  <1>5. ASSUME NEW i \in Images, NEW c, ExtDo(i, c) PROVE RecInv'
    BY <1>5, QspiFlashAssumption DEF ExtDo, QspiFlashAssumption, Values
  <1>6. CASE DlErase
    <2>1. Len(dl.image) \in Nat
      BY LenProperties
    <2>2. QED
      BY <1>6, <2>1 DEF DlErase, ExtErase
  <1>7. ASSUME NEW a, SwallowedErase(a) PROVE RecInv'
    BY <1>7, QspiFlashAssumption DEF SwallowedErase, ExtErase, QspiFlashAssumption
  <1>8. ASSUME NEW n \in 1..SectorSize, DlChunk(n) PROVE RecInv'
    <2>1. n \in Nat \ {0} /\ dl.image \in Seq(Values) /\ dl.pos \in Nat /\ dl.pos + n <= Len(dl.image)
      BY <1>8, QspiFlashAssumption DEF QspiFlashAssumption, DlChunk
    <2>2. Len(SubSeq(dl.image, dl.pos + 1, dl.pos + n)) \in Nat
      <3>1. Len(SubSeq(dl.image, dl.pos + 1, dl.pos + n)) = n
        BY <2>1, ChunkIs
      <3>2. QED
        BY <2>1, <3>1
    <2>3. ext' \in [enable : BOOLEAN, current : Nat, total : Nat, fill : Nat]
      BY <1>2, <1>8, <2>2 DEF DlChunk
    <2>4. dl' = [dl EXCEPT !.pos = dl.pos + n,
                           !.state = IF dl.pos + n = Len(dl.image) THEN "done" ELSE "data"]
      BY <1>8 DEF DlChunk
    <2>5. dl.pos + n \in Nat
      BY <2>1
    <2>6. QED
      BY <2>3, <2>4, <2>5
  <1>9. ASSUME NEW n, Overrun(n) PROVE RecInv'
    BY <1>9 DEF Overrun, extVars
  <1>10. CASE DlAbort
    BY <1>10 DEF DlAbort
  <1>11. CASE Cut
    BY <1>11 DEF Cut, NoExt, NoDl
  <1>12. CASE Restart
    BY <1>12 DEF Restart, extVars
  <1>13. QED
    BY <1>1, <1>3, <1>4, <1>5, <1>6, <1>7, <1>8, <1>9, <1>10, <1>11, <1>12
       DEF Next, CutIdle, CutErase, CutProgram

(* Nothing is claimed of a download that is not in order. *)
LEMMA NoneUnderWay ==
    ASSUME RecInv', dl'.state \notin {"erase", "data", "done"}
    PROVE  DownloadInv'
  BY DEF DownloadInv, DlInv, DlErasing, DlWaiting, DlProgramming, DlStored

(* The erase of the download partition begins. *)
LEMMA DlEraseStep ==
    ASSUME DownloadInv, RecInv', DlErase
    PROVE  DownloadInv'
  <1>1. dl.state = "erase" /\ pc' = "ext_erase" /\ ext.enable
    BY DEF DlErase, ExtErase
  <1>2. dl'.state = "data" /\ dl'.image = dl.image /\ dl'.pos = dl.pos
    BY DEF DlErase, DownloadInv, RecInv
  <1>3. dl.image \in Images /\ ext.fill = 0 /\ dl.pos = 0
    BY <1>1 DEF DownloadInv, DlInv
  <1>4. ext'.enable /\ ext'.current = 0 /\ ext'.total = Len(dl.image) /\ ext'.fill = 0
    BY <1>1, <1>3 DEF DlErase, ExtErase, DownloadInv, RecInv
  <1>5. base' = Download /\ page' = Blocks(Len(dl.image))
    BY QspiFlashAssumption DEF DlErase, ExtErase, QspiFlashAssumption
  <1>6. Len(dl.image) \in Nat \ {0} /\ Download \in Nat /\ SectorSize \in Nat \ {0}
    BY <1>3, ImageFits
  <1>7. DlInv'
    BY <1>1, <1>2, <1>3, <1>4, <1>6 DEF DlInv
  <1>8. DlErasing'
    <2>1. page' \in Nat /\ page' * BlockSize >= Len(dl.image)
      BY <1>5, <1>6, BlocksCover
    <2>2. page' * BlockSize \in Nat
      <3>1. BlockSize \in Nat
        BY QspiFlashAssumption DEF QspiFlashAssumption
      <3>2. \A p \in Nat : p * BlockSize \in Nat
        BY <3>1, Z3
      <3>3. QED
        BY <2>1, <3>2
    <2>3. base' \in Nat /\ base' + page' * BlockSize >= Download + Len(dl.image)
      BY <1>5, <1>6, <2>1, <2>2
    <2>4. \A x \in Cells : ~(InImage(x)' /\ x < base')
      BY <1>5, <1>6 DEF InImage, Cells
    <2>5. QED
      BY <1>2, <1>3, <2>1, <2>3, <2>4 DEF DlErasing
  <1>9. DlWaiting' /\ DlProgramming' /\ DlStored'
    BY <1>1, <1>2 DEF DlWaiting, DlProgramming, DlStored
  <1>10. QED
    BY <1>7, <1>8, <1>9 DEF DownloadInv

(* A block is erased, or the last one was. *)
LEMMA DlEraseBlockStep ==
    ASSUME DownloadInv, FlashInv, RecInv', ExtEraseBlock
    PROVE  DownloadInv'
  <1>1. pc = "ext_erase" /\ dl' = dl /\ ext' = ext /\ bak' = bak
    BY DEF ExtEraseBlock, extVars
  <1>2. CASE dl.state # "data"
    BY <1>1, <1>2, NoneUnderWay DEF DownloadInv, DlInv
  <1>3. CASE dl.state = "data"
    <2>1. /\ dl.image \in Images /\ dl.pos = 0 /\ ext.fill = 0 /\ base \in Nat /\ page \in Nat
          /\ base + page * BlockSize >= Download + Len(dl.image)
          /\ \A x \in Cells : InImage(x) /\ x < base => flash[x] = Bits
      BY <1>1, <1>3 DEF DownloadInv, DlInv, DlErasing
    <2>2. Len(dl.image) \in Nat \ {0} /\ Download \in Nat /\ BlockSize \in Nat \ {0} /\ Cells \subseteq Int
      BY <2>1, ImageFits, QspiFlashAssumption DEF QspiFlashAssumption, Cells
    <2>3. \A x : InImage(x)' = InImage(x) /\ ImageAt(x)' = ImageAt(x)
      BY <1>1 DEF InImage, ImageAt
    <2>4. CASE page > 0
      <3>1. pc' = pc /\ base' = base + BlockSize /\ page' = page - 1
        BY <2>4 DEF ExtEraseBlock
      <3>2. flash' = [x \in Cells |-> IF InBlock(x) THEN Bits ELSE flash[x]]
        BY <2>4 DEF ExtEraseBlock
      <3>3. base' + page' * BlockSize >= Download + Len(dl.image)
        <4>1. page * BlockSize = BlockSize + (page - 1) * BlockSize /\ (page - 1) * BlockSize \in Nat
          BY <2>1, <2>4, BlockDone
        <4>2. QED
          BY <2>1, <2>2, <3>1, <4>1
      <3>4. ASSUME NEW x \in Cells, InImage(x), x < base' PROVE flash'[x] = Bits
        <4>1. InBlock(x) \/ x < base
          BY <2>1, <2>2, <3>1, <3>4 DEF InBlock
        <4>2. QED
          BY <2>1, <3>2, <3>4, <4>1
      <3>5. DlErasing'
        BY <1>1, <2>1, <2>2, <2>3, <2>4, <3>1, <3>3, <3>4 DEF DlErasing
      <3>6. DlInv' /\ DlWaiting' /\ DlProgramming' /\ DlStored'
        BY <1>1, <1>3, <3>1 DEF DownloadInv, DlInv, DlWaiting, DlProgramming, DlStored
      <3>7. QED
        BY <3>5, <3>6 DEF DownloadInv
    <2>5. CASE ~(page > 0)
      <3>1. pc' = "idle" /\ flash' = flash
        BY <2>5 DEF ExtEraseBlock
      <3>2. page = 0 /\ page * BlockSize = 0
        BY <2>1, <2>2, <2>5
      <3>3. \A x \in Cells : InImage(x) => flash[x] = Bits /\ ~(x < Download + dl.pos - ext.fill)
        BY <2>1, <2>2, <3>2 DEF InImage
      <3>4. DlWaiting'
        BY <1>1, <2>1, <2>3, <3>1, <3>3 DEF DlWaiting, Offsets
      <3>5. DlInv'
        BY <1>1, <1>3, <3>1 DEF DownloadInv, DlInv
      <3>6. DlErasing' /\ DlProgramming' /\ DlStored'
        BY <1>1, <1>3, <3>1 DEF DlErasing, DlProgramming, DlStored
      <3>7. QED
        BY <3>4, <3>5, <3>6 DEF DownloadInv
    <2>6. QED
      BY <2>4, <2>5
  <1>4. QED
    BY <1>2, <1>3

(* What the buffer holds once a chunk is copied into it. *)
LEMMA BufferFilled ==
    ASSUME DownloadInv, dl.state = "data", pc = "idle",
           NEW n \in Nat \ {0}, dl.pos + n <= Len(dl.image), ext.fill + n <= SectorSize,
           NEW d, d = SubSeq(dl.image, dl.pos + 1, dl.pos + n), NEW i \in Offsets, i < ext.fill + n
    PROVE  Fill(d)[i] = dl.image[dl.pos - ext.fill + i + 1]
  <1>1. dl.image \in Seq(Values) /\ dl.pos \in Nat /\ ext.fill \in Nat
    BY DEF DownloadInv, RecInv
  <1>2. Len(d) = n /\ \A k \in 1..n : d[k] = dl.image[dl.pos + k]
    BY <1>1, ChunkIs
  <1>3. i \in Nat
    BY QspiFlashAssumption DEF QspiFlashAssumption, Offsets
  <1>4. Fill(d)[i] = IF ext.fill <= i /\ i < ext.fill + n THEN d[i - ext.fill + 1] ELSE bak[i]
    BY <1>2 DEF Fill
  <1> DEFINE f == ext.fill
             p == dl.pos
  <1>5. f \in Nat /\ p \in Nat /\ i < f + n
    BY <1>1
  <1>6. i < f => bak[i] = dl.image[p - f + i + 1]
    BY DEF DownloadInv, DlWaiting
  <1>7. Fill(d)[i] = IF f <= i /\ i < f + n THEN d[i - f + 1] ELSE bak[i]
    BY <1>4
  <1>8. \A k \in 1..n : d[k] = dl.image[p + k]
    BY <1>2
  <1> HIDE DEF f, p
  <1>9. CASE f <= i
    <2>1. i - f + 1 \in 1..n /\ p + (i - f + 1) = p - f + i + 1
      BY <1>3, <1>5, <1>9
    <2>2. d[i - f + 1] = dl.image[p + (i - f + 1)]
      BY <1>8, <2>1
    <2>3. Fill(d)[i] = dl.image[p - f + i + 1]
      BY <1>5, <1>7, <1>9, <2>1, <2>2
    <2>4. QED
      BY <2>3 DEF f, p
  <1>10. CASE ~(f <= i)
    <2>1. Fill(d)[i] = dl.image[p - f + i + 1]
      BY <1>3, <1>5, <1>6, <1>7, <1>10
    <2>2. QED
      BY <2>1 DEF f, p
  <1>11. QED
    BY <1>9, <1>10

(* A chunk arrives: it stays in the buffer, or the buffer is programmed. *)
LEMMA DlChunkStep ==
    ASSUME DownloadInv, RecInv', NEW n \in 1..SectorSize, DlChunk(n)
    PROVE  DownloadInv'
  <1> DEFINE d == SubSeq(dl.image, dl.pos + 1, dl.pos + n)
             f == ext.fill
             p == dl.pos
             len == Len(dl.image)
             start == Download + p - f
  <1>1. /\ pc = "idle" /\ dl.state = "data" /\ p + n <= len /\ ExtWrite(Download + p, d)
        /\ flash' = flash
    BY DEF DlChunk
  <1>2. /\ dl.image \in Images /\ ext.enable /\ ext.current = p /\ ext.total = len
        /\ p \in Nat /\ p < len /\ f \in 0..p /\ f < SectorSize /\ (p - f) % SectorSize = 0
    BY <1>1 DEF DownloadInv, DlInv
  <1>3. /\ len \in Nat \ {0} /\ Download + len <= Size /\ Download \in Nat /\ Size \in Nat
        /\ SectorSize \in Nat \ {0} /\ n \in Nat \ {0} /\ Cells \subseteq Int
    BY <1>2, ImageFits DEF Cells
  <1>4. dl.image \in Seq(Values)
    BY DEF DownloadInv, RecInv
  <1>5. Len(d) = n
    <2>1. \A i \in Seq(Values), q \in Nat :
            q + n <= Len(i) => Len(SubSeq(i, q + 1, q + n)) = n
      BY <1>3, ChunkIs
    <2>2. QED
      BY <1>1, <1>2, <1>4, <2>1
  <1>6. ExtFull(d) <=> f + n = SectorSize
    <2>1. f + n <= SectorSize
      BY <1>1, <1>5 DEF ExtWrite
    <2>2. ExtFull(d) <=> (p + n) % SectorSize = 0
      BY <1>2, <1>5 DEF ExtFull
    <2> HIDE DEF f, p, d, len
    <2> DEFINE m == p - f
               k == f + n
    <2>3. m + k = p + n /\ m \in Nat /\ k \in 1..SectorSize /\ m % SectorSize = 0
      BY <1>2, <1>3, <2>1
    <2> HIDE DEF m, k
    <2>4. (m + k) % SectorSize = 0 <=> k = SectorSize
      <3>1. SectorSize \in Nat \ {0}
        BY <1>3
      <3>2. QED
        BY <2>3, <3>1, SectorFull, ZenonT(30)
    <2>5. QED
      BY <2>2, <2>3, <2>4 DEF k
  <1>7. ExtLast(d) <=> p + n = len
    <2>1. ExtLast(d) <=> p + n >= len
      BY <1>2, <1>5 DEF ExtLast
    <2> HIDE DEF f, p, d, len
    <2>2. QED
      BY <1>1, <1>2, <1>3, <2>1
  <1>8. /\ dl'.image = dl.image /\ dl'.pos = p + n
        /\ dl'.state = IF p + n = len THEN "done" ELSE "data"
    BY DEF DlChunk, DownloadInv, RecInv
  <1>9. \A x : InImage(x)' = InImage(x) /\ ImageAt(x)' = ImageAt(x)
    BY <1>8 DEF InImage, ImageAt
  <1>10. \A i \in Offsets : i < f + n => Fill(d)[i] = dl.image[p - f + i + 1]
    <2>1. f + n <= SectorSize
      BY <1>1, <1>5 DEF ExtWrite
    <2>2. QED
      BY <1>1, <1>3, <2>1, BufferFilled
  <1>11. \A x \in Cells : InImage(x) => flash[x] = IF x < start THEN ImageAt(x) ELSE Bits
    BY <1>1 DEF DownloadInv, DlWaiting
  <1>12. /\ ext' = [ext EXCEPT !.enable = ~ExtLast(d), !.current = ext.current + Len(d),
                               !.fill = IF ExtFull(d) \/ ExtLast(d) THEN 0 ELSE ext.fill + Len(d)]
         /\ bak' = Fill(d)
    BY <1>1 DEF ExtWrite
  <1>13. /\ ext'.current = p + n /\ ext'.total = len /\ ext'.enable = ~ExtLast(d)
         /\ ext'.fill = IF ExtFull(d) \/ ExtLast(d) THEN 0 ELSE f + n
    BY <1>2, <1>5, <1>12 DEF DownloadInv, RecInv
  <1>14. f + n \in 1..SectorSize
    <2>1. f + n <= SectorSize
      BY <1>1, <1>5 DEF ExtWrite
    <2> HIDE DEF f, p, d, len
    <2>2. QED
      BY <1>2, <1>3, <2>1
  <1> HIDE DEF d, f, p, len
  <1>15. CASE ~ExtFull(d) /\ ~ExtLast(d)
    <2>1. pc' = "idle" /\ dl'.state = "data" /\ ext'.fill = f + n /\ ext'.enable
      BY <1>1, <1>7, <1>8, <1>13, <1>15 DEF ExtWrite
    <2>2. (p + n) - (f + n) = p - f /\ Download + (p + n) - (f + n) = start /\ f + n \in 0..p + n
          /\ p + n \in Nat /\ f + n < SectorSize /\ p + n < len
      BY <1>1, <1>2, <1>3, <1>14, <1>6, <1>7, <1>15
    <2>3. DlInv'
      BY <1>2, <1>8, <1>13, <2>1, <2>2 DEF DlInv, len
    <2>4. DlWaiting'
      <3>1. ASSUME NEW i \in Offsets, i < ext'.fill
            PROVE  bak'[i] = dl'.image[dl'.pos - ext'.fill + i + 1]
        BY <1>8, <1>10, <1>12, <2>1, <2>2, <3>1
      <3>2. ASSUME NEW x \in Cells, InImage(x)'
            PROVE  flash'[x] = IF x < Download + dl'.pos - ext'.fill THEN ImageAt(x)' ELSE Bits
        BY <1>1, <1>8, <1>9, <1>11, <2>1, <2>2, <3>2
      <3>3. QED
        BY <3>1, <3>2 DEF DlWaiting
    <2>5. DlErasing' /\ DlProgramming' /\ DlStored'
      BY <2>1 DEF DlErasing, DlProgramming, DlStored
    <2>6. QED
      BY <2>3, <2>4, <2>5 DEF DownloadInv
  <1>16. CASE ExtFull(d) \/ ExtLast(d)
    <2>1. /\ pc' = "ext_program" /\ base' = ExtProgramAt(Download + p, d)
          /\ buf' = Fill(d) /\ page' = 0 /\ ext'.fill = 0
      BY <1>1, <1>13, <1>16 DEF ExtWrite
    <2>2. start \in Nat /\ start < Size /\ p - f \in Nat /\ start = Download + (p - f)
      BY <1>2, <1>3
    <2>3. base' = start
      <3>1. ExtProgramAt(Download + p, d) = (Size + start) % Size
        <4>1. CASE ExtFull(d)
          <5>1. Size + (Download + p) + Len(d) - SectorSize = Size + start
            BY <1>2, <1>3, <1>5, <1>6, <4>1
          <5>2. QED
            BY <4>1, <5>1 DEF ExtProgramAt
        <4>2. CASE ~ExtFull(d)
          <5>1. Size + (Download + p) - ext.fill = Size + start
            BY <1>2, <1>3 DEF f
          <5>2. QED
            BY <4>2, <5>1 DEF ExtProgramAt
        <4>3. QED
          BY <4>1, <4>2
      <3>2. QED
        BY <2>1, <2>2, <3>1, AddressIs
    <2>4. start + SectorSize <= Size
      <3>1. start % SectorSize = 0
        BY <1>2, <1>3, <2>2, AlignedSum, DownloadAligned
      <3>2. QED
        BY <1>3, <2>2, <3>1, NextAligned, QspiFlashAssumption DEF QspiFlashAssumption
    <2>5. p + n # len => start + SectorSize = Download + (p + n)
      BY <1>2, <1>3, <1>6, <1>7, <1>16
    <2>6. Download <= start /\ Download + (p + n) <= start + SectorSize
      BY <1>2, <1>3, <1>14
    <2>7. DlInv'
      <3>1. CASE p + n = len
        <4>1. ~ext'.enable
          BY <1>7, <1>13, <3>1
        <4>2. dl'.state = "done" /\ dl'.pos = Len(dl'.image) /\ dl'.image \in Images
          BY <1>2, <1>8, <3>1 DEF len
        <4>3. pc' = "ext_program"
          BY <2>1
        <4>4. QED
          BY <4>1, <4>2, <4>3, Zenon DEF DlInv
      <3>2. CASE p + n # len
        <4>1. (p + n) % SectorSize = 0 /\ p + n \in Nat /\ p + n < len /\ (p + n) - 0 = p + n
          BY <1>1, <1>2, <1>3, <1>5, <1>7, <1>16, <3>2 DEF ExtFull
        <4>2. ext'.enable
          BY <1>7, <1>13, <3>2
        <4>3. dl'.state = "data" /\ dl'.image \in Images
          BY <1>2, <1>8, <3>2
        <4>4. /\ ext'.current = dl'.pos /\ ext'.total = Len(dl'.image)
              /\ dl'.pos \in Nat /\ dl'.pos < Len(dl'.image)
              /\ ext'.fill \in 0..dl'.pos /\ ext'.fill < SectorSize
              /\ (dl'.pos - ext'.fill) % SectorSize = 0
          <5>1. /\ ext'.current = p + n /\ ext'.total = len /\ ext'.fill = 0
                /\ dl'.pos = p + n /\ Len(dl'.image) = len
            BY <1>8, <1>13, <2>1 DEF len
          <5>2. dl'.pos - ext'.fill = p + n
            BY <4>1, <5>1
          <5>3. (dl'.pos - ext'.fill) % SectorSize = 0
            BY <4>1, <5>2, Zenon
          <5>4. QED
            BY <1>3, <4>1, <5>1, <5>3
        <4>5. QED
          BY <2>1, <4>2, <4>3, <4>4, Zenon DEF DlInv
      <3>3. QED
        BY <3>1, <3>2
    <2>8. DlProgramming'
      <3>1. ASSUME NEW x \in Cells, start <= x, x < Download + (p + n)
            PROVE  buf'[x - start] = ImageAt(x)
        <4>1. x - start \in Offsets /\ x - start < f + n /\ p - f + (x - start) + 1 = x - Download + 1
          BY <1>2, <1>3, <1>14, <2>2, <3>1 DEF Offsets
        <4>2. QED
          BY <1>10, <2>1, <4>1 DEF ImageAt
      <3>2. ASSUME NEW x \in Cells, InImage(x)
            PROVE  flash'[x] = IF x < start + 0 THEN ImageAt(x) ELSE Bits
        BY <1>1, <1>11, <2>2, <3>2
      <3>3. /\ base' \in Nat /\ page' \in Nat /\ page' < SectorSize
            /\ Download <= base' /\ base' + SectorSize <= Size
            /\ Download + dl'.pos <= base' + SectorSize
            /\ dl'.state = "data" => base' + SectorSize = Download + dl'.pos /\ ext'.fill = 0
        BY <1>3, <1>8, <2>1, <2>2, <2>3, <2>4, <2>5, <2>6
      <3> HIDE DEF start
      <3>4. /\ \A x \in Cells : base' <= x /\ x < Download + dl'.pos => buf'[x - base'] = ImageAt(x)'
            /\ \A x \in Cells : InImage(x)' =>
                 flash'[x] = IF x < base' + page' THEN ImageAt(x)' ELSE Bits
        BY <1>8, <1>9, <2>1, <2>3, <3>1, <3>2
      <3>5. QED
        BY <3>3, <3>4 DEF DlProgramming
    <2>9. DlErasing' /\ DlWaiting' /\ DlStored'
      BY <2>1 DEF DlErasing, DlWaiting, DlStored
    <2>10. QED
      BY <2>7, <2>8, <2>9 DEF DownloadInv
  <1>17. QED
    BY <1>15, <1>16

(* A page of the buffer is programmed: its cell gets what the image has. *)
LEMMA DlProgramStep ==
    ASSUME DownloadInv, FlashInv, RecInv', ExtProgramPage
    PROVE  DownloadInv'
  <1>1. pc = "ext_program" /\ dl' = dl /\ ext' = ext
    BY DEF ExtProgramPage
  <1>2. CASE dl.state \notin {"data", "done"}
    BY <1>1, <1>2, NoneUnderWay DEF DownloadInv, DlInv
  <1>3. CASE dl.state \in {"data", "done"}
    <2> DEFINE c == base + page
    <2>1. /\ base \in Nat /\ page \in Nat /\ page < SectorSize
          /\ Download <= base /\ base + SectorSize <= Size
          /\ Download + dl.pos <= base + SectorSize
          /\ dl.state = "data" => base + SectorSize = Download + dl.pos /\ ext.fill = 0
      BY <1>1, <1>3 DEF DownloadInv, DlProgramming
    <2>2. /\ \A x \in Cells : base <= x /\ x < Download + dl.pos => buf[x - base] = ImageAt(x)
          /\ \A x \in Cells : InImage(x) => flash[x] = IF x < c THEN ImageAt(x) ELSE Bits
      BY <1>1, <1>3 DEF DownloadInv, DlProgramming
    <2>3. /\ dl.image \in Images /\ dl.pos \in Nat
          /\ dl.state = "done" => dl.pos = Len(dl.image)
      BY <1>3 DEF DownloadInv, DlInv, RecInv
    <2>4. /\ Len(dl.image) \in Nat \ {0} /\ Download \in Nat /\ Size \in Nat /\ SectorSize \in Nat
          /\ Cells \subseteq Int
          /\ \A x \in Cells : InImage(x) => ImageAt(x) \subseteq Bits
      BY <2>3, ImageFits DEF Cells
    <2>5. \A x : InImage(x)' = InImage(x) /\ ImageAt(x)' = ImageAt(x)
      BY <1>1 DEF InImage, ImageAt
    <2>6. c \in Cells /\ c % Size = c
      <3>1. c \in Nat /\ c < Size
        BY <2>1, <2>4
      <3>2. QED
        BY <2>4, <3>1, AddressIs DEF Cells
    <2>7. flash' = [flash EXCEPT ![c] = flash[c] \intersect buf[page]]
      BY <2>6 DEF ExtProgramPage
    <2>8. InImage(c) => buf[page] = ImageAt(c)
      <3>1. ASSUME InImage(c) PROVE c < Download + dl.pos /\ base <= c /\ c - base = page
        BY <1>3, <2>1, <2>3, <2>4, <3>1 DEF InImage
      <3>2. QED
        BY <2>2, <2>6, <3>1
    <2>9. \A x \in Cells : flash'[x] = IF x = c THEN flash[c] \intersect buf[page] ELSE flash[x]
      BY <2>6, <2>7 DEF FlashInv
    <2>10. \A x \in Cells : InImage(x) => flash'[x] = IF x < c + 1 THEN ImageAt(x) ELSE Bits
      <3> SUFFICES ASSUME NEW x \in Cells, InImage(x)
                   PROVE  flash'[x] = IF x < c + 1 THEN ImageAt(x) ELSE Bits
        OBVIOUS
      <3>1. c \in Int /\ x \in Int
        BY <2>4, <2>6
      <3> HIDE DEF c
      <3>2. CASE x = c
        <4>1. flash[c] = Bits
          BY <2>2, <3>1, <3>2
        <4>2. ImageAt(c) \subseteq Bits /\ buf[page] = ImageAt(c)
          BY <2>4, <2>8, <3>2
        <4>3. flash'[c] = ImageAt(c)
          BY <2>6, <2>9, <4>1, <4>2
        <4>4. QED
          BY <3>1, <3>2, <4>3
      <3>3. CASE x # c
        <4>1. x < c + 1 <=> x < c
          BY <3>1, <3>3
        <4>2. QED
          BY <2>2, <2>9, <3>3, <4>1
      <3>4. QED
        BY <3>2, <3>3
    <2>11. CASE page + 1 < SectorSize
      <3>1. page' = page + 1 /\ pc' = pc /\ base' = base /\ buf' = buf
        BY <2>11 DEF ExtProgramPage
      <3>2. base' + page' = c + 1
        BY <2>1, <3>1
      <3>3. /\ \A x \in Cells : base' <= x /\ x < Download + dl'.pos => buf'[x - base'] = ImageAt(x)'
            /\ \A x \in Cells : InImage(x)' =>
                 flash'[x] = IF x < base' + page' THEN ImageAt(x)' ELSE Bits
        BY <1>1, <2>2, <2>5, <2>10, <3>1, <3>2
      <3>4. DlProgramming'
        BY <1>1, <2>1, <2>11, <3>1, <3>3 DEF DlProgramming
      <3>5. DlInv' /\ DlErasing' /\ DlWaiting' /\ DlStored'
        BY <1>1, <1>3, <3>1 DEF DownloadInv, DlInv, DlErasing, DlWaiting, DlStored
      <3>6. QED
        BY <3>4, <3>5 DEF DownloadInv
    <2>12. CASE ~(page + 1 < SectorSize)
      <3>1. Return
        BY <2>12 DEF ExtProgramPage
      <3>2. pc' = "idle"
        BY <3>1 DEF Return
      <3>3. c + 1 = base + SectorSize
        BY <2>1, <2>4, <2>12
      <3>4. DlInv'
        BY <1>1, <1>3, <3>2 DEF DownloadInv, DlInv
      <3>5. DlWaiting'
        <4> SUFFICES ASSUME dl.state = "data"
                     PROVE  /\ \A i \in Offsets : i < ext.fill => FALSE
                            /\ \A x \in Cells : InImage(x) =>
                                 flash'[x] = IF x < Download + dl.pos - ext.fill THEN ImageAt(x) ELSE Bits
          BY <1>1, <2>5 DEF DlWaiting
        <4>1. ext.fill = 0 /\ Download + dl.pos - ext.fill = c + 1
          BY <2>1, <2>3, <2>4, <3>3
        <4>2. \A i \in Offsets : ~(i < ext.fill)
          BY <2>4, <4>1 DEF Offsets
        <4> HIDE DEF c
        <4>3. QED
          BY <2>10, <4>1, <4>2
      <3>6. DlStored'
        <4> SUFFICES ASSUME dl.state = "done", NEW x \in Cells, InImage(x)
                     PROVE  flash'[x] = ImageAt(x)
          BY <1>1, <2>5 DEF DlStored
        <4>1. x < c + 1
          BY <2>1, <2>3, <2>4, <3>3 DEF InImage
        <4>2. QED
          BY <2>10, <4>1
      <3>7. DlErasing' /\ DlProgramming'
        BY <3>2 DEF DlErasing, DlProgramming
      <3>8. QED
        BY <3>4, <3>5, <3>6, <3>7 DEF DownloadInv
    <2>13. QED
      BY <2>11, <2>12
  <1>4. QED
    BY <1>2, <1>3

(* Every step keeps what is known of the download. *)
LEMMA DownloadStep == FlashInv /\ DownloadInv /\ [Next]_vars => DownloadInv'
  <1> SUFFICES ASSUME FlashInv, DownloadInv, [Next]_vars PROVE DownloadInv'
    OBVIOUS
  <1>1. CASE UNCHANGED vars
    <2>1. UNCHANGED <<flash, pc, base, page, buf, ext, bak, dl>>
      BY <1>1 DEF vars, driverVars, extVars
    <2>2. \A x : InImage(x)' = InImage(x) /\ ImageAt(x)' = ImageAt(x)
      BY <2>1 DEF InImage, ImageAt
    <2>3. RecInv' /\ DlInv'
      BY <2>1 DEF DownloadInv, RecInv, DlInv
    <2>4. DlErasing' /\ DlWaiting'
      BY <2>1, <2>2 DEF DownloadInv, DlErasing, DlWaiting
    <2>5. DlProgramming' /\ DlStored'
      BY <2>1, <2>2 DEF DownloadInv, DlProgramming, DlStored
    <2>6. QED
      BY <2>3, <2>4, <2>5 DEF DownloadInv
  <1>2. CASE Next
    <2>0. RecInv'
      BY <1>2, RecStep DEF DownloadInv
    <2>1. ASSUME NEW d \in Requests, NEW a, WriteBegin(a, d) \/ Swallowed(a, d) PROVE DownloadInv'
      <3>1. dl'.state \in {"none", "failed"}
        BY <2>1 DEF WriteBegin, Swallowed, NoDl, DownloadInv, RecInv
      <3>2. QED
        BY <2>0, <3>1, NoneUnderWay
    <2>2. CASE ReadSector \/ EraseSector \/ ProgramPage
      <3>1. dl' = dl /\ pc \in {"read", "erase", "program"}
        BY <2>2 DEF ReadSector, EraseSector, ProgramPage, extVars
      <3>2. dl.state \notin {"erase", "data", "done"}
        BY <3>1 DEF DownloadInv, DlInv
      <3>3. QED
        BY <2>0, <3>1, <3>2, NoneUnderWay
    <2>3. CASE ExtEraseBlock
      BY <2>0, <2>3, DlEraseBlockStep
    <2>4. CASE ExtProgramPage
      BY <2>0, <2>4, DlProgramStep
    <2>5. ASSUME NEW i \in Images, NEW c, ExtDo(i, c) PROVE DownloadInv'
      <3>1. pc' = "idle" /\ ext'.fill = 0 /\ dl'.state = "erase" /\ dl'.pos = 0 /\ dl'.image \in Images
        BY <2>5 DEF ExtDo, DownloadInv, RecInv
      <3>2. QED
        BY <2>0, <3>1 DEF DownloadInv, DlInv, DlErasing, DlWaiting, DlProgramming, DlStored
    <2>6. CASE DlErase
      BY <2>0, <2>6, DlEraseStep
    <2>7. ASSUME NEW a, SwallowedErase(a) PROVE DownloadInv'
      BY <2>0, <2>7, NoneUnderWay DEF SwallowedErase, DownloadInv, RecInv
    <2>8. ASSUME NEW n \in 1..SectorSize, DlChunk(n) PROVE DownloadInv'
      BY <2>0, <2>8, DlChunkStep
    <2>9. ASSUME NEW n, Overrun(n) PROVE DownloadInv'
      <3>1. pc' = "fault" /\ dl' = dl /\ ext' = ext /\ ext.enable
        BY <2>9 DEF Overrun, extVars
      <3>2. dl.state # "done"
        BY <3>1 DEF DownloadInv, DlInv
      <3>3. DlInv'
        BY <3>1, <3>2 DEF DownloadInv, DlInv
      <3>4. QED
        BY <2>0, <3>1, <3>3 DEF DownloadInv, DlErasing, DlWaiting, DlProgramming, DlStored
    <2>10. CASE DlAbort
      BY <2>0, <2>10, NoneUnderWay DEF DlAbort, DownloadInv, RecInv
    <2>11. CASE Cut /\ (flash' = flash \/ pc \notin {"idle", "off"})
      <3>1. pc' = "off" /\ pc \notin {"off", "fault"} /\ ~ext'.enable
        BY <2>11 DEF Cut, NoExt
      <3>2. CASE dl.state # "done" \/ pc \in {"ext_erase", "ext_program"}
        <4>1. dl' = NoDl \/ (dl' = dl /\ dl.state \notin {"erase", "data", "done"})
          BY <2>11, <3>2 DEF Cut
        <4>2. QED
          BY <2>0, <4>1, NoneUnderWay DEF NoDl
      <3>3. CASE dl.state = "done" /\ pc \notin {"ext_erase", "ext_program"}
        <4>1. pc = "idle" /\ dl' = dl /\ flash' = flash
          BY <2>11, <3>1, <3>3 DEF Cut, DownloadInv, DlInv
        <4>2. DlInv'
          BY <3>1, <3>3, <4>1 DEF DownloadInv, DlInv
        <4>3. DlStored'
          BY <3>3, <4>1 DEF DownloadInv, DlStored, InImage, ImageAt
        <4>4. QED
          BY <2>0, <3>1, <4>2, <4>3 DEF DownloadInv, DlErasing, DlWaiting, DlProgramming
      <3>4. QED
        BY <3>2, <3>3
    <2>12. CASE Restart
      <3>1. pc = "off" /\ pc' = "idle" /\ flash' = flash /\ dl' = dl /\ ext' = ext
        BY <2>12 DEF Restart, Return, extVars
      <3>2. dl.state \notin {"erase", "data"}
        BY <3>1 DEF DownloadInv, DlInv
      <3>3. DlInv'
        BY <3>1, <3>2 DEF DownloadInv, DlInv
      <3>4. DlStored'
        BY <3>1 DEF DownloadInv, DlStored, InImage, ImageAt
      <3>5. QED
        BY <2>0, <3>1, <3>2, <3>3, <3>4 DEF DownloadInv, DlErasing, DlWaiting, DlProgramming
    <2>13. ASSUME CutIdle \/ (\E f \in [0..BlockSize - 1 -> Values] : CutErase(f)) \/ (\E v \in Values : CutProgram(v))
           PROVE  Cut /\ (flash' = flash \/ pc \notin {"idle", "off"})
      BY <2>13 DEF CutIdle, CutErase, CutProgram
    <2>14. QED
      BY <1>2, <2>1, <2>2, <2>3, <2>4, <2>5, <2>6, <2>7, <2>8, <2>9, <2>10, <2>11, <2>12,
         <2>13 DEF Next, Driver
  <1>3. QED
    BY <1>1, <1>2

(* A download that came to its end in order is in its partition, cell by    *)
(* cell: for any image, any chunks and any size of sectors and blocks.      *)
THEOREM DownloadIsStored == Spec => []DownloadStored
  <1>1. Init => DownloadInv
    BY DEF Init, NoExt, NoDl, DownloadInv, RecInv, DlInv, DlErasing, DlWaiting, DlProgramming, DlStored
  <1>2. FInv => FlashInv
    BY DEF FInv
  <1>3. DownloadInv => DownloadStored
    <2> SUFFICES ASSUME DownloadInv, dl.state = "done", pc = "idle", NEW k \in 1..Len(dl.image)
                 PROVE  flash[Download + k - 1] = dl.image[k]
      BY DEF DownloadStored
    <2>1. dl.image \in Images
      BY DEF DownloadInv, DlInv
    <2>2. /\ Len(dl.image) \in Nat /\ Download \in Nat /\ Size \in Nat
          /\ Download + Len(dl.image) <= Size
      BY <2>1, ImageFits
    <2> DEFINE x == Download + k - 1
    <2>3. x \in Cells /\ InImage(x) /\ x - Download + 1 = k
      BY <2>2 DEF Cells, InImage
    <2>4. flash[x] = ImageAt(x)
      BY <2>3 DEF DownloadInv, DlStored
    <2>5. QED
      BY <2>3, <2>4 DEF ImageAt
  <1>4. QED
    BY <1>1, <1>2, <1>3, DownloadStep, FAlways, PTL DEF Spec

----------------------------------------------------------------------------
(* The boot loader *)

Firmware == [hdr : Contents, body : [Body -> Contents]]

PartType == part \in [Parts -> Firmware]
DlType == download \in Downloads
PcType == stage \in {"off", "init", "verify", "upgrade", "failed", "app_check", "run", "running", "shell", "error", "dead"}
CopiedType == copied \in 0..Sectors
FlagType == auto \in BOOLEAN
InstallingType == installing \in Contents
BoundType == cuts \in 0..MaxCuts /\ loads \in 0..MaxLoads

\* A write to the destination: one sector of its body, or its header.
WritesBody(q, s, v) == q = [part EXCEPT ![download.dest].body[s] = v]
WritesHdr(q, v) == q = [part EXCEPT ![download.dest].hdr = v]

(* Such a write keeps the types and changes no other partition. *)
LEMMA WriteKeepsType ==
    ASSUME PartType, DlType
    PROVE  /\ \A q : \A v \in Contents, s \in Body : WritesBody(q, s, v) =>
                 /\ q \in [Parts -> Firmware]
                 /\ \A p \in Parts : q[p].hdr = part[p].hdr
                 /\ \A p \in Parts : p # download.dest => q[p] = part[p]
           /\ \A q : \A v \in Contents : WritesHdr(q, v) =>
                 /\ q \in [Parts -> Firmware]
                 /\ q[download.dest].hdr = v
                 /\ \A p \in Parts : p # download.dest => q[p] = part[p]
  <1> DEFINE d == download.dest
  <1>1. d \in Parts
    BY DEF DlType, Downloads, NoDownload, Parts
  <1>2. part[d] \in Firmware /\ part[d].body \in [Body -> Contents] /\ part[d].hdr \in Contents
    BY <1>1 DEF PartType, Firmware
  <1>3. ASSUME NEW q, NEW v \in Contents, NEW s \in Body, WritesBody(q, s, v)
        PROVE  /\ q \in [Parts -> Firmware]
               /\ \A p \in Parts : q[p].hdr = part[p].hdr
               /\ \A p \in Parts : p # download.dest => q[p] = part[p]
    <2>1. [part[d].body EXCEPT ![s] = v] \in [Body -> Contents]
      BY <1>2
    <2>2. [part[d] EXCEPT !.body = [part[d].body EXCEPT ![s] = v]] \in Firmware
      BY <1>2, <2>1 DEF Firmware
    <2>3. QED
      BY <1>1, <1>2, <1>3, <2>2 DEF PartType, Firmware, WritesBody
  <1>4. ASSUME NEW q, NEW v \in Contents, WritesHdr(q, v)
        PROVE  /\ q \in [Parts -> Firmware]
               /\ q[download.dest].hdr = v
               /\ \A p \in Parts : p # download.dest => q[p] = part[p]
    <2>1. [part[d] EXCEPT !.hdr = v] \in Firmware
      BY <1>2 DEF Firmware
    <2>2. QED
      BY <1>1, <1>2, <1>4, <2>1 DEF PartType, Firmware, WritesHdr
  <1>5. QED
    BY <1>3, <1>4

(* The only partition a step writes is the destination of the download, and *)
(* its header becomes the one of the download or junk.                      *)
PartStep ==
    /\ part' \in [Parts -> Firmware]
    /\ \A p \in Parts : p # download.dest => part'[p] = part[p]
    /\ \A p \in Parts : part'[p].hdr \in {part[p].hdr, download.hdr, Junk}

(* CopySector writes one sector and no header. *)
LEMMA CopySectorParts ==
    ASSUME TypeOK, CopySector
    PROVE  PartStep /\ \A p \in Parts : part'[p].hdr = part[p].hdr
  <1>1. PartType /\ DlType
    BY DEF TypeOK, PartType, DlType, Firmware
  <1>2. PICK s \in Body : s = copied + 1
    BY OtaBootAssumption DEF TypeOK, CopySector, OtaBootAssumption, Body
  <1>3. download.hdr \in Contents /\ Junk \in Contents
    BY <1>1 DEF DlType, Downloads, NoDownload, Contents
  <1>4. PICK c \in Contents : WritesBody(part', s, c)
    BY <1>2, <1>3 DEF CopySector, WritesBody
  <1>5. /\ part' \in [Parts -> Firmware]
        /\ \A p \in Parts : p # download.dest => part'[p] = part[p]
        /\ \A p \in Parts : part'[p].hdr = part[p].hdr
    BY <1>1, <1>2, <1>4, WriteKeepsType
  <1>6. QED
    BY <1>5 DEF PartStep

(* SaveHeader writes one header. *)
LEMMA SaveHeaderParts ==
    ASSUME TypeOK, SaveHeader
    PROVE  PartStep
  <1>1. PartType /\ DlType
    BY DEF TypeOK, PartType, DlType, Firmware
  <1>2. 1 \in Body
    BY OtaBootAssumption DEF OtaBootAssumption, Body
  <1>3. download.hdr \in Contents
    BY <1>1 DEF DlType, Downloads, NoDownload, Contents
  <1>4. WritesHdr(part', download.hdr)
    BY DEF SaveHeader, WritesHdr
  <1>5. /\ part' \in [Parts -> Firmware]
        /\ \A p \in Parts : p # download.dest => part'[p] = part[p]
        /\ part'[download.dest].hdr = download.hdr
    BY <1>1, <1>2, <1>3, <1>4, WriteKeepsType
  <1>6. QED
    BY <1>5 DEF PartStep

(* A power cut leaves junk in the sector or the header being written. *)
LEMMA CutParts ==
    ASSUME TypeOK, PowerCut
    PROVE  /\ PartStep
           /\ \A p \in Parts : part'[p].hdr \in {part[p].hdr, Junk}
           /\ part' # part => stage = "upgrade" /\ download' = download /\ installing' = installing
  <1>1. PartType /\ DlType
    BY DEF TypeOK, PartType, DlType, Firmware
  <1>2. CASE part' = part
    BY <1>1, <1>2 DEF PartStep, PartType
  <1>3. CASE part' # part
    <2>1. /\ stage = "upgrade" /\ download' = download /\ installing' = installing
          /\ part' = [part EXCEPT ![download.dest] =
                 IF copied < Sectors THEN [@ EXCEPT !.body[copied + 1] = Junk]
                 ELSE [@ EXCEPT !.hdr = Junk]]
      BY <1>3 DEF PowerCut
    <2>2. Junk \in Contents /\ 1 \in Body
      BY OtaBootAssumption DEF OtaBootAssumption, Body, Contents
    <2>3. CASE copied < Sectors
      <3>1. WritesBody(part', copied + 1, Junk)
        BY <2>1, <2>3 DEF WritesBody
      <3>2. copied + 1 \in Body
        BY <2>3, OtaBootAssumption DEF TypeOK, OtaBootAssumption, Body
      <3>3. QED
        BY <1>1, <2>1, <2>2, <3>1, <3>2, WriteKeepsType DEF PartStep
    <2>4. CASE ~(copied < Sectors)
      <3>1. WritesHdr(part', Junk)
        BY <2>1, <2>4 DEF WritesHdr
      <3>2. /\ part' \in [Parts -> Firmware]
            /\ \A p \in Parts : p # download.dest => part'[p] = part[p]
            /\ part'[download.dest].hdr = Junk
        BY <1>1, <2>2, <3>1, WriteKeepsType
      <3>3. QED
        BY <2>1, <3>2 DEF PartStep
    <2>5. QED
      BY <2>3, <2>4
  <1>4. QED
    BY <1>2, <1>3

(* No step changes the constants' side of the state out of its type.  Of    *)
(* the actions only three write partitions; the rest set program counter,   *)
(* flags and the download.                                                  *)
LEMMA TypeStep == TypeOK /\ [OtaNext]_otaVars => TypeOK'
  <1> SUFFICES ASSUME TypeOK, [OtaNext]_otaVars PROVE TypeOK'
    OBVIOUS
  <1>1. PartType'
    <2>1. PartType
      BY DEF TypeOK, PartType, Firmware
    <2>2. CASE CopySector
      BY <2>2, CopySectorParts DEF PartStep, PartType
    <2>3. CASE SaveHeader
      BY <2>3, SaveHeaderParts DEF PartStep, PartType
    <2>4. CASE PowerCut
      BY <2>4, CutParts DEF PartStep, PartType
    <2>5. CASE ~CopySector /\ ~SaveHeader /\ ~PowerCut
      <3>1. part' = part
        BY <2>5 DEF OtaNext, Boot, PowerOn, Check, VerifyDownload, AppCheck, RunApplication, OtaError,
                    UpgradeFails, MshRunApplication, Reboot, Load, otaVars, bounds
      <3>2. QED
        BY <2>1, <3>1 DEF PartType
    <2>6. QED
      BY <2>2, <2>3, <2>4, <2>5
  <1>2. DlType'
    <2>1. DlType /\ NoDownload \in Downloads
      BY DEF TypeOK, DlType, Downloads
    <2>2. download' = download \/ download' \in Downloads
      BY <2>1 DEF OtaNext, Boot, PowerOn, Check, VerifyDownload, AppCheck, RunApplication, OtaError, CopySector,
                SaveHeader, UpgradeFails, MshRunApplication, Reboot, Load, PowerCut, otaVars, bounds
    <2>3. QED
      BY <2>1, <2>2 DEF DlType
  <1>3. PcType'
    BY DEF OtaNext, Boot, PowerOn, Check, VerifyDownload, AppCheck, RunApplication, OtaError, CopySector,
           SaveHeader, UpgradeFails, MshRunApplication, Reboot, Load, PowerCut, otaVars, bounds, TypeOK, PcType, Goto
  <1>4. CopiedType'
    BY OtaBootAssumption
       DEF OtaBootAssumption, OtaNext, Boot, PowerOn, Check, VerifyDownload, AppCheck, RunApplication, OtaError,
           CopySector, SaveHeader, UpgradeFails, MshRunApplication, Reboot, Load, PowerCut, otaVars, bounds, TypeOK,
           CopiedType
  <1>5. FlagType'
    BY DEF OtaNext, Boot, PowerOn, Check, VerifyDownload, AppCheck, RunApplication, OtaError, CopySector,
           SaveHeader, UpgradeFails, MshRunApplication, Reboot, Load, PowerCut, otaVars, bounds, TypeOK, FlagType
  <1>6. InstallingType'
    <2>1. download.hdr \in Contents /\ Junk \in Contents /\ installing \in Contents
      BY DEF TypeOK, Downloads, NoDownload, Contents
    <2>2. QED
      BY <2>1 DEF OtaNext, Boot, PowerOn, Check, VerifyDownload, AppCheck, RunApplication, OtaError, CopySector,
           SaveHeader, UpgradeFails, MshRunApplication, Reboot, Load, PowerCut, otaVars, bounds, InstallingType
  <1>7. BoundType'
    BY OtaBootAssumption
       DEF OtaBootAssumption, OtaNext, Boot, PowerOn, Check, VerifyDownload, AppCheck, RunApplication, OtaError,
           CopySector, SaveHeader, UpgradeFails, MshRunApplication, Reboot, Load, PowerCut, otaVars, bounds, TypeOK,
           BoundType
  <1>8. QED
    BY <1>1, <1>2, <1>3, <1>4, <1>5, <1>6, <1>7
       DEF TypeOK, PartType, DlType, PcType, CopiedType, FlagType, InstallingType, BoundType, Firmware

(* The factory's state has the type. *)
LEMMA TypeInit == OtaInit => TypeOK
  <1> SUFFICES ASSUME OtaInit PROVE TypeOK
    OBVIOUS
  <1>1. PartType
    <2>1. PICK v \in Versions, w \in Contents : part = [p \in Parts |-> Image(IF p = "bl" THEN v ELSE w)]
      BY DEF OtaInit
    <2>2. v \in Contents /\ \A x \in Contents : Image(x) \in Firmware
      BY DEF Contents, Image, Firmware
    <2>3. QED
      BY <2>1, <2>2 DEF PartType
  <1>2. DlType /\ PcType /\ FlagType /\ InstallingType
    BY DEF OtaInit, DlType, Downloads, PcType, FlagType, InstallingType, Contents
  <1>3. CopiedType /\ BoundType
    BY OtaBootAssumption DEF OtaBootAssumption, OtaInit, CopiedType, BoundType
  <1>4. QED
    BY <1>1, <1>2, <1>3 DEF TypeOK, PartType, DlType, PcType, CopiedType, FlagType, InstallingType, BoundType, Firmware

(* Partitions, download, program counter and bounds stay in their ranges    *)
(* through upgrades, errors and power cuts of any number.                   *)
THEOREM BootTypeCorrect == OtaSpec => []TypeOK
  <1>1. QED
    BY TypeInit, TypeStep, PTL DEF OtaSpec

----------------------------------------------------------------------------
(* The inductive invariant *)

\* What the boot loader knows at the points where it decides.
Decided ==
    /\ stage = "run" \/ (stage = "running" /\ auto = TRUE) => Verified(part["app"])
    /\ stage = "verify" => CheckUpgrade = "upgrade" /\ download.crypt
    /\ stage = "upgrade" => installing # Junk

BootInv == Decided /\ Resumable

(* The invariant holds when the board leaves the factory. *)
LEMMA BootInit == OtaInit => BootInv
  BY DEF OtaInit, BootInv, Decided, Resumable

(* Steps that write neither partition nor download keep what depends on     *)
(* these; what remains is where the boot loader goes.                       *)
LEMMA KeepsData ==
    ASSUME BootInv, part' = part, download' = download, installing' = installing,
           stage' = "run" => Verified(part["app"]),
           stage' = "running" => stage = "run" \/ auto' = FALSE \/ (stage = "running" /\ auto' = auto),
           stage' = "verify" => CheckUpgrade = "upgrade" /\ download.crypt,
           stage' # "upgrade"
    PROVE  BootInv'
  <1>1. CheckUpgrade' = CheckUpgrade /\ DlVerified' = DlVerified
        /\ Verified(part["app"])' = Verified(part["app"])
    BY DEF CheckUpgrade, DlVerified, Verified
  <1>2. Decided'
    BY <1>1 DEF BootInv, Decided
  <1>3. Resumable'
    BY <1>1 DEF BootInv, Resumable
  <1>4. QED
    BY <1>2, <1>3 DEF BootInv

(* Every step preserves the invariant. *)
LEMMA BootStep == TypeOK /\ BootInv /\ [OtaNext]_otaVars => BootInv'
  <1> SUFFICES ASSUME TypeOK, BootInv, [OtaNext]_otaVars PROVE BootInv'
    OBVIOUS
  <1>0. auto \in BOOLEAN /\ Junk \notin Versions /\ download.dest \in Parts
    BY OtaBootAssumption DEF OtaBootAssumption, TypeOK, Downloads, NoDownload, Parts
  <1>1. CASE PowerOn
    BY <1>1, KeepsData DEF PowerOn, Goto, bounds
  <1>2. CASE Check
    BY <1>2, KeepsData DEF Check, Goto, bounds
  <1>3. CASE OtaError \/ UpgradeFails \/ Reboot \/ MshRunApplication
    BY <1>3, KeepsData DEF OtaError, UpgradeFails, Reboot, MshRunApplication, Goto, bounds
  <1>4. CASE AppCheck
    BY <1>4, KeepsData DEF AppCheck, Goto, bounds
  <1>5. CASE RunApplication
    BY <1>5, KeepsData DEF RunApplication, Goto, bounds
  <1>6. CASE VerifyDownload
    <2>1. CASE ~DlVerified
      BY <1>6, <2>1, KeepsData DEF VerifyDownload, Goto, bounds
    <2>2. CASE DlVerified
      <3>1. /\ stage = "verify" /\ stage' = "upgrade" /\ installing' = download.hdr /\ part' = part /\ download' = download
        BY <1>6, <2>2 DEF VerifyDownload, Goto, bounds
      <3>2. CheckUpgrade = "upgrade" /\ download.crypt /\ download.hdr # Junk
        BY <2>2, <3>1 DEF BootInv, Decided, DlVerified
      <3>3. CheckUpgrade' = CheckUpgrade /\ DlVerified' = DlVerified
        BY <3>1 DEF CheckUpgrade, DlVerified
      <3>4. Decided' /\ Resumable'
        BY <2>2, <3>1, <3>2, <3>3 DEF Decided, Resumable
      <3>5. QED
        BY <3>4 DEF BootInv
    <2>3. QED
      BY <2>1, <2>2
  <1>7. CASE CopySector
    <2>1. /\ stage = "upgrade" /\ stage' = stage /\ download' = download /\ installing' = installing
      BY <1>7 DEF CopySector, bounds
    <2>2. PartStep /\ part'[download.dest].hdr = part[download.dest].hdr
      BY <1>0, <1>7, CopySectorParts
    <2>3. CheckUpgrade' = CheckUpgrade /\ DlVerified' = DlVerified
      BY <2>1, <2>2 DEF CheckUpgrade, DlVerified
    <2>4. Decided' /\ Resumable'
      BY <2>1, <2>3 DEF BootInv, Decided, Resumable
    <2>5. QED
      BY <2>4 DEF BootInv
  <1>8. CASE SaveHeader
    <2>1. stage' = "app_check" /\ download' = download /\ installing' = Junk
      BY <1>8 DEF SaveHeader, Goto, bounds
    <2>2. QED
      BY <2>1 DEF BootInv, Decided, Resumable
  <1>9. CASE PowerCut
    <2>1. stage' = "off" /\ auto' = FALSE
      BY <1>9 DEF PowerCut, Goto
    <2>2. Decided'
      BY <2>1 DEF Decided
    <2>3. CASE part' # part
      <3>1. /\ PartStep /\ download' = download /\ installing' = installing
            /\ part'[download.dest].hdr \in {part[download.dest].hdr, Junk}
        BY <1>0, <1>9, <2>3, CutParts
      <3>2. Resumable'
        BY <3>1 DEF BootInv, Resumable, CheckUpgrade, DlVerified
      <3>3. QED
        BY <2>2, <3>2 DEF BootInv
    <2>4. CASE part' = part /\ download' = download /\ installing' = installing
      BY <2>1, <2>4, KeepsData
    <2>5. CASE part' = part /\ download' = NoDownload /\ installing' = Junk
      BY <2>2, <2>5 DEF BootInv, Resumable
    <2>6. QED
      BY <1>9, <2>3, <2>4, <2>5 DEF PowerCut
  <1>10. ASSUME NEW d \in Downloads, Load(d) PROVE BootInv'
    <2>1. /\ part' = part /\ stage' = stage /\ auto' = auto /\ download' = d /\ installing' = Junk
          /\ stage \in {"shell", "error", "running"}
      BY <1>10 DEF Load
    <2>2. Verified(part["app"])' = Verified(part["app"])
      BY <2>1 DEF Verified
    <2>3. QED
      BY <2>1, <2>2 DEF BootInv, Decided, Resumable
  <1>11. CASE UNCHANGED otaVars
    <2>1. UNCHANGED <<part, download, stage, auto, installing>>
      BY <1>11 DEF otaVars, bounds
    <2>2. /\ CheckUpgrade' = CheckUpgrade /\ DlVerified' = DlVerified
          /\ Verified(part["app"])' = Verified(part["app"])
      BY <2>1 DEF CheckUpgrade, DlVerified, Verified
    <2>3. QED
      BY <2>1, <2>2 DEF BootInv, Decided, Resumable
  <1>12. QED
    BY <1>1, <1>2, <1>3, <1>4, <1>5, <1>6, <1>7, <1>8, <1>9, <1>10, <1>11 DEF OtaNext, Boot

(* The invariant holds in every behaviour. *)
LEMMA BootAlways == OtaSpec => [](TypeOK /\ BootInv)
  <1>1. QED
    BY TypeInit, TypeStep, BootInit, BootStep, PTL DEF OtaSpec

(* load_application never starts anything but the whole firmware of one     *)
(* version, for any size, any versions and any number of power cuts.        *)
THEOREM StartsWhole == OtaSpec => []AutobootWhole
  <1>1. TypeOK /\ BootInv => AutobootWhole
    BY DEF TypeOK, BootInv, Decided, AutobootWhole
  <1>2. QED
    BY <1>1, BootAlways, PTL

(* Until the header of an image is saved, rt_ota_check_upgrade asks for its *)
(* upgrade again, however often it was cut off.                             *)
THEOREM UpgradeResumes == OtaSpec => []Resumable
  <1>1. BootInv => Resumable
    BY DEF BootInv
  <1>2. QED
    BY <1>1, BootAlways, PTL

(* Partitions are only written to install an encrypted download that        *)
(* verifies, and only the one it names.                                     *)
THEOREM WritesOnlyGood == OtaSpec => OnlyGoodDownloads
  <1> DEFINE Good == \A p \in Parts : part'[p] # part[p] => DlVerified /\ download.crypt /\ download.dest = p
  <1>1. TypeOK /\ BootInv /\ [OtaNext]_otaVars => [Good]_otaVars
    <2> SUFFICES ASSUME TypeOK, BootInv, [OtaNext]_otaVars, part' # part PROVE Good
      OBVIOUS
    <2>1. stage = "upgrade" /\ PartStep
      <3>1. CASE CopySector
        BY <3>1, CopySectorParts DEF CopySector
      <3>2. CASE SaveHeader
        BY <3>2, SaveHeaderParts DEF SaveHeader
      <3>3. CASE PowerCut
        BY <3>3, CutParts
      <3>4. QED
        BY <3>1, <3>2, <3>3 DEF OtaNext, Boot, PowerOn, Check, VerifyDownload, AppCheck, RunApplication,
              OtaError, UpgradeFails, MshRunApplication, Reboot, Load, otaVars, bounds
    <2>2. DlVerified /\ download.crypt
      BY <2>1 DEF BootInv, Decided, Resumable
    <2>3. QED
      BY <2>1, <2>2 DEF PartStep
  <1>2. QED
    BY <1>1, BootAlways, PTL DEF OtaSpec, OnlyGoodDownloads
=============================================================================
