----------------------------- MODULE QspiFlash -----------------------------
(***************************************************************************)
(* The flash driver bsp/driver/drv_qspiflash.c: w25qxx_write_data, which   *)
(* rewrites a flash chip sector by sector in place, and the shortcut for   *)
(* firmware downloads, ymodem_ota_ext, which takes over the write and the  *)
(* erase operation of the flash abstraction layer while it is enabled.     *)
(*                                                                         *)
(* A page is the unit: one cell, which holds a set of bits.  Erasing sets  *)
(* all bits of a sector, programming a page clears the bits that are not   *)
(* in the data.  The supply may fail at any time, also within an erase or  *)
(* a program operation of the chip, whose cells are then anything the chip *)
(* can leave there.                                                        *)
(***************************************************************************)
EXTENDS Naturals, Sequences

CONSTANTS Bits,         \* the bits of a cell
          Size,         \* cells of the chip
          SectorSize,   \* w25qxx_FLASH_SECTOR_SIZE, in cells
          BlockSize,    \* w25qxx_FLASH_BLOCK_32K_SIZE, in cells
          Download,     \* the first cell of the download partition
          Requests,     \* what callers write, a set of sequences of cells
          Images,       \* what is downloaded, a set of sequences of cells
          MaxSwallowed  \* bound: ymodem_ota_ext.current_size of foreign writes

ASSUME QspiFlashAssumption ==
    /\ SectorSize \in Nat \ {0} /\ BlockSize \in Nat \ {0}
    /\ Size \in Nat /\ Size % SectorSize = 0 /\ Size % BlockSize = 0
    /\ BlockSize % SectorSize = 0
    /\ Download \in 0..Size /\ Download % BlockSize = 0
    /\ Requests \subseteq Seq(SUBSET Bits) /\ Images \subseteq Seq(SUBSET Bits)
    /\ MaxSwallowed \in Nat
    /\ \A i \in Images : i # <<>> /\ Download + Len(i) <= Size

Cells == 0..Size - 1
Values == SUBSET Bits
Offsets == 0..SectorSize - 1

VARIABLES
    flash,      \* the contents of the chip
    pc,         \* the operation under way
    op,         \* the write of the caller: address and data
    addr,       \* addr of w25qxx_write_data: cells before it are written
    base,       \* the sector being rewritten, or the address of a program
    buf,        \* the buffer that is being programmed
    page,       \* index of w25qxx_sector_program
    ext,        \* ymodem_ota_ext: enable, sizes, fill level of the buffer
    bak,        \* what ymodem_ota_ext.buff_bak points to
    dl,         \* the download: image, cells handed over, state
    before,     \* history: the contents when the caller's write began
    erased      \* history: that write erased a sector

driverVars == <<op, addr, base, buf, page>>
extVars == <<ext, bak, dl>>
vars == <<flash, pc, driverVars, extVars, before, erased>>

NoOp == [addr |-> 0, data |-> <<>>]
NoExt == [enable |-> FALSE, current |-> 0, total |-> 0, fill |-> 0]
NoDl == [image |-> <<>>, pos |-> 0, state |-> "none"]
Blank == [i \in Offsets |-> {}]
Unknown == [x \in Cells |-> {}]   \* before, with no write under way

Init ==
    /\ flash \in [Cells -> Values]
    /\ pc = "idle" /\ op = NoOp /\ addr = 0
    /\ base = 0 /\ buf = Blank /\ page = 0
    /\ ext = NoExt /\ bak = Blank /\ dl = NoDl
    /\ before = Unknown /\ erased = FALSE

----------------------------------------------------------------------------
(* w25qxx_write_data *)

End(o) == o.addr + Len(o.data)
InOp(x, o) == o.addr <= x /\ x < End(o)
DataAt(x, o) == o.data[x - o.addr + 1]

\* write of the flash abstraction layer, with the shortcut off.
WriteBegin(a, d) ==
    /\ pc = "idle" /\ ~ext.enable /\ d # <<>>
    /\ op' = [addr |-> a, data |-> d] /\ addr' = a
    /\ before' = flash /\ erased' = FALSE
    /\ dl' = NoDl
    /\ pc' = "read"
    /\ UNCHANGED <<flash, base, buf, page, ext, bak>>

SectorAddr(a) == a - (a % SectorSize)
SectorRemain(a) == SectorSize - (a % SectorSize)
WriteLen == IF End(op) - addr < SectorRemain(addr) THEN End(op) - addr ELSE SectorRemain(addr)
InPart(x) == addr <= x /\ x < addr + WriteLen

\* Fault: only the first cell of the part is compared.
NeedsEraseFirst == ~(DataAt(addr, op) \subseteq flash[addr])

\* A bit that is 0 in the flash and 1 in the data.
NeedsErase == \E x \in Cells : InPart(x) /\ ~(DataAt(x, op) \subseteq flash[x])

\* Fault: the swap buffer keeps its zeros around the data.
MergedZeros(s) == [i \in Offsets |-> IF InPart(s + i) THEN DataAt(s + i, op) ELSE {}]

\* swap_buf with the data over it; a part that fills the sector is programmed
\* from the caller's buffer.
Merged(s) == [i \in Offsets |-> IF InPart(s + i) THEN DataAt(s + i, op) ELSE flash[s + i]]

ReadSector ==
    /\ pc = "read"
    /\ base' = SectorAddr(addr)
    /\ buf' = Merged(SectorAddr(addr))
    /\ page' = 0
    /\ pc' = IF NeedsErase THEN "erase" ELSE "program"
    /\ UNCHANGED <<flash, op, addr, extVars, before, erased>>

InSector(x) == base <= x /\ x < base + SectorSize

\* Fault: the erase command for a block instead of the one for a sector.
EraseSectorAsBlock ==
    /\ pc = "erase"
    /\ flash' = [x \in Cells |-> IF base <= x /\ x < base + BlockSize THEN Bits ELSE flash[x]]
    /\ erased' = TRUE
    /\ pc' = "program"
    /\ UNCHANGED <<driverVars, extVars, before>>

EraseSector ==
    /\ pc = "erase"
    /\ flash' = [x \in Cells |-> IF InSector(x) THEN Bits ELSE flash[x]]
    /\ erased' = TRUE
    /\ pc' = "program"
    /\ UNCHANGED <<driverVars, extVars, before>>

\* w25qxx_quad_page_program of one page of w25qxx_sector_program.
Programmed == [flash EXCEPT ![base + page] = @ \intersect buf[page]]

\* The call returns: what it kept on its stack is gone.
Return ==
    /\ pc' = "idle" /\ op' = NoOp /\ addr' = 0
    /\ base' = 0 /\ buf' = Blank /\ page' = 0
    /\ before' = Unknown /\ erased' = FALSE

NextSector ==
    /\ addr' = addr + WriteLen
    /\ pc' = "read"
    /\ UNCHANGED <<op, base, buf, page, before, erased>>

ProgramPage ==
    /\ pc = "program"
    /\ flash' = Programmed
    /\ IF page + 1 < SectorSize
         THEN page' = page + 1 /\ UNCHANGED <<pc, op, addr, base, buf, before, erased>>
         ELSE IF addr + WriteLen = End(op) THEN Return ELSE NextSector
    /\ UNCHANGED extVars

----------------------------------------------------------------------------
(* ymodem_ota_ext_do, http_ota_ext_do: the shortcut *)

\* ymodem_ota_ext_enable(1): rt_malloc leaves anything in the buffer.  A second command
\* after a failed download starts from scratch.
ExtDo(image, c) ==
    /\ pc = "idle"
    /\ ext' = [ext EXCEPT !.enable = TRUE, !.fill = 0]
    /\ bak' = c
    /\ dl' = [image |-> image, pos |-> 0, state |-> "erase"]
    /\ UNCHANGED <<flash, pc, driverVars, before, erased>>

\* Fault: the block the image only begins is left out.
BlocksFloor(n) == n \div BlockSize

\* ymodem_ota_ext_erase: whole blocks, the last one too if it is begun.
Blocks(n) == (n \div BlockSize) + IF n % BlockSize = 0 THEN 0 ELSE 1

ExtErase(a, n) ==
    /\ pc = "idle" /\ ext.enable
    /\ ext' = [ext EXCEPT !.total = n, !.current = 0]
    /\ base' = a - (a % BlockSize) /\ page' = Blocks(n)
    /\ pc' = "ext_erase"
    /\ UNCHANGED <<flash, op, addr, buf, bak, before, erased>>

InBlock(x) == base <= x /\ x < base + BlockSize

ExtEraseBlock ==
    /\ pc = "ext_erase"
    /\ IF page > 0
         THEN /\ flash' = [x \in Cells |-> IF InBlock(x) THEN Bits ELSE flash[x]]
              /\ base' = base + BlockSize /\ page' = page - 1 /\ UNCHANGED pc
         ELSE pc' = "idle" /\ base' = 0 /\ UNCHANGED <<flash, page>>
    /\ UNCHANGED <<op, addr, buf, extVars, before, erased>>

Fill(d) == [i \in Offsets |-> IF ext.fill <= i /\ i < ext.fill + Len(d)
                              THEN d[i - ext.fill + 1] ELSE bak[i]]

ExtFull(d) == (ext.current + Len(d)) % SectorSize = 0
ExtLast(d) == ext.current + Len(d) >= ext.total
\* 24 bits of the address reach the chip.
ExtProgramAt(a, d) ==
    (IF ExtFull(d) THEN Size + a + Len(d) - SectorSize ELSE Size + a - ext.fill) % Size

\* ymodem_ota_ext_write: a full buffer is programmed so that its last cell is
\* where the chunk ends, the rest of an image when the size is reached.
ExtWrite(a, d) ==
    /\ ext.fill + Len(d) <= SectorSize
    /\ bak' = Fill(d)
    /\ ext' = [ext EXCEPT !.enable = ~ExtLast(d), !.current = @ + Len(d),
                          !.fill = IF ExtFull(d) \/ ExtLast(d) THEN 0 ELSE @ + Len(d)]
    /\ IF ExtFull(d) \/ ExtLast(d)
         THEN /\ base' = ExtProgramAt(a, d)
              /\ buf' = Fill(d) /\ page' = 0 /\ pc' = "ext_program"
         ELSE UNCHANGED <<base, buf, page, pc>>

\* The buffer is freed when the size was reached.
ExtProgramPage ==
    /\ pc = "ext_program"
    /\ flash' = [flash EXCEPT ![(base + page) % Size] = @ \intersect buf[page]]
    /\ IF page + 1 < SectorSize
         THEN page' = page + 1 /\ UNCHANGED <<pc, op, addr, base, buf, bak, before, erased>>
         ELSE Return /\ bak' = IF ext.enable THEN bak ELSE Blank
    /\ UNCHANGED <<ext, dl>>

\* The downloader erases as much as the image needs and writes it in chunks,
\* whose size is the sender's.
DlErase ==
    /\ dl.state = "erase"
    /\ ExtErase(Download, Len(dl.image))
    /\ dl' = [dl EXCEPT !.state = "data"]

DlChunk(n) ==
    /\ pc = "idle" /\ ext.enable /\ dl.state = "data" /\ dl.pos + n <= Len(dl.image)
    /\ ExtWrite(Download + dl.pos, SubSeq(dl.image, dl.pos + 1, dl.pos + n))
    /\ dl' = [dl EXCEPT !.pos = @ + n,
                        !.state = IF dl.pos + n = Len(dl.image) THEN "done" ELSE "data"]
    /\ UNCHANGED <<flash, op, addr, before, erased>>

\* Chunks that do not divide the sector run over the end of the buffer: the
\* heap is damaged and nothing can be said any more.
Overrun(n) ==
    /\ pc = "idle" /\ ext.enable /\ ext.fill + n > SectorSize
    /\ pc' = "fault"
    /\ UNCHANGED <<flash, driverVars, extVars, before, erased>>

\* The download ends early: nothing disables the shortcut.
DlAbort ==
    /\ pc = "idle" /\ dl.state \in {"erase", "data"}
    /\ dl' = [dl EXCEPT !.state = "failed"]
    /\ UNCHANGED <<flash, pc, driverVars, ext, bak, before, erased>>

\* A write or an erase of another partition while the shortcut is enabled.
Swallowed(a, d) ==
    /\ pc = "idle" /\ ext.enable /\ d # <<>> /\ ext.current + Len(d) <= MaxSwallowed
    /\ ExtWrite(a, d)
    /\ dl' = [dl EXCEPT !.state = "failed"]
    /\ UNCHANGED <<flash, op, addr, before, erased>>

SwallowedErase(a) ==
    /\ ExtErase(a, SectorSize)
    /\ dl' = [dl EXCEPT !.state = "failed"]

----------------------------------------------------------------------------
(* The supply fails; cells the chip was changing are in between *)

CellsBetween(lo, hi) == {v \in Values : lo \subseteq v /\ v \subseteq hi}

Cut ==
    /\ pc \notin {"off", "fault"}
    /\ pc' = "off"
    /\ ext' = NoExt /\ bak' = Blank
    /\ dl' = IF dl.state \in {"erase", "data"} \/ pc \in {"ext_erase", "ext_program"} THEN NoDl ELSE dl
    /\ UNCHANGED <<driverVars, before>>

CutIdle ==
    /\ Cut /\ pc \in {"idle", "read"}
    /\ UNCHANGED <<flash, erased>>

CutErase(f) ==
    /\ Cut
    /\ \/ /\ pc = "erase" /\ erased' = TRUE
          /\ flash' = [x \in Cells |-> IF InSector(x) THEN f[x - base] ELSE flash[x]]
       \/ /\ pc = "ext_erase" /\ page > 0 /\ UNCHANGED erased
          /\ flash' = [x \in Cells |-> IF InBlock(x) THEN f[x - base] ELSE flash[x]]

CutProgram(v) ==
    /\ Cut /\ pc \in {"program", "ext_program"}
    /\ LET c == IF pc = "program" THEN base + page ELSE (base + page) % Size
       IN  /\ v \in CellsBetween(flash[c] \intersect buf[page], flash[c])
           /\ flash' = [flash EXCEPT ![c] = v]
    /\ UNCHANGED erased

Restart ==
    /\ pc = "off"
    /\ Return
    /\ UNCHANGED <<flash, extVars>>

----------------------------------------------------------------------------
Driver == ReadSector \/ EraseSector \/ ProgramPage \/ ExtEraseBlock \/ ExtProgramPage

\* Other partitions lie before the download partition.
Next ==
    \/ \E d \in Requests : \E a \in 0..Download - Len(d) :
           WriteBegin(a, d) \/ Swallowed(a, d)
    \/ Driver
    \/ \E i \in Images, v \in {{}, Bits} : ExtDo(i, [o \in Offsets |-> v])
    \/ DlErase \/ \E a \in 0..Download - 1 : SwallowedErase(a)
    \/ \E n \in 1..SectorSize : DlChunk(n) \/ Overrun(n)
    \/ DlAbort
    \/ CutIdle \/ (\E f \in [0..BlockSize - 1 -> Values] : CutErase(f)) \/ (\E v \in Values : CutProgram(v))
    \/ Restart

Spec == Init /\ [][Next]_vars
----------------------------------------------------------------------------
(* Properties *)

\* The contents a write is asked for, and the contents it has when it reaches
\* addr.
Wanted(x, o, f) == IF InOp(x, o) THEN DataAt(x, o) ELSE f[x]
Reached(x) == IF x < addr THEN Wanted(x, op, before) ELSE before[x]

(* A write changes one sector at a time: whenever the supply fails, the      *)
(* sectors behind it hold the new data, those before it the old, and only    *)
(* the sector it was rewriting can be damaged.                               *)
OutsideIntact ==
    op # NoOp => \A x \in Cells :
        (pc \in {"erase", "program", "off"} => ~InSector(x)) => flash[x] = Reached(x)

(* A write that returns has stored its data and kept every other cell of the *)
(* sectors it erased.                                                        *)
WriteStores ==
    [][pc = "program" /\ pc' = "idle"
           => \A x \in Cells : flash'[x] = Wanted(x, op, before)]_vars

(* A write that clears bits only does not erase, and then never changes a    *)
(* cell it was not asked to: a power cut leaves the old or the new data or   *)
(* something between them, around it everything as it was.                   *)
InPlace ==
    op # NoOp /\ ~erased => \A x \in Cells :
        IF InOp(x, op) THEN flash[x] \subseteq before[x] /\ (DataAt(x, op) \intersect before[x]) \subseteq flash[x]
        ELSE flash[x] = before[x]

(* A download that came to its end without a power cut or a write of another *)
(* partition in between is in the download partition, cell by cell.          *)
DownloadStored ==
    dl.state = "done" /\ pc = "idle" => \A k \in 1..Len(dl.image) :
        flash[Download + k - 1] = dl.image[k]
=============================================================================
