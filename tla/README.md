# TLA+ specifications of the K210 MicroPython/OpenMV firmware

This directory models the parts of the firmware where two threads, two cores, an
interrupt handler, the host or the power supply meet in shared state, checks them
with TLC on small instances, and proves the central invariants with TLAPS for every
size. `PROJECT.json` maps every definition to the lines it was translated from and
lists components, runs, findings, hazards and theorems. Paths below are relative to
`src/` inside the repository.

## The system

The firmware runs RT-Thread on both cores of a K210. Two threads matter most:

* the **OpenMV thread** (`projects/app_k210/applications/omv_main.c`) runs `main.py`,
  then alternates between the REPL and scripts uploaded by the IDE; camera and
  image functions run on it;
* the **debug thread** (`openmv/omv/rt_thread_dbg.c`, `openmv/omv/usbdbg.c`) reads the
  IDE's commands from a serial port and answers them: upload, start and stop of a
  script, the preview of frames, the console.

They share flags, a text buffer, transfer counters, the console's ring buffer and the
JPEG buffer without kernel locks. Below them, drivers on any thread share the DMA
channels (`bsp/driver/dmalock.c`) and what the DMA controller keeps per channel; an
interrupt handler shares the DVP registers with the code that captures frames
(`openmv/omv/hal/k210/cambus.c`). A boot loader (`projects/boot_k210`) installs downloaded
firmware through the flash driver (`bsp/driver/drv_qspiflash.c`) and starts the application.

### Inventory

| Component | State | Operations | What is hard | What makes it correct |
|---|---|---|---|---|
| DMA channel allocator, `dmalock.c` | semaphore, mutex, tables of used channels and names | take with time-out, release | release stores without the mutex, on the other core; a time-out meets a release | a channel has one owner, a granted take has a channel, none is lost, takers are served |
| DMA clients: `drv_spi.c`, `drv_qspiflash.c`, `drv_i2s.c`, `drv_lcd.c`, `py_fft.c`, `py_kpu.c` | channels held, transfers and callbacks per channel, KPU semaphore | transfer, stream, FFT, KPU run | two channels at once; time-out without release; callbacks left behind; late completion | no leak but the known one, no channel given back under an SPI, flash or KPU transfer, transfers end, a run returns its own result |
| Flash driver, `drv_qspiflash.c` | chip contents, download buffer | write, erase, download shortcut | read-merge-erase-program in place; power cuts; sizes that do not divide | a write stores its data and nothing else; a cut damages one sector |
| Boot loader, `ota_main.c`, `bootloader.c` | partitions, download | verify, upgrade, check, start | power cuts, failing upgrades | only whole firmware is started, an upgrade is resumed and completes |
| Debug transport, `rt_thread_dbg.c`, serial driver, ring buffer | receive FIFO, permits, block read so far, console buffer | receive, dispatch, data phases, print | one permit for many bytes; time-outs inside a command; unlocked ring buffer | commands are never mixed; the console keeps the newest output; commands are carried out |
| Script control, `usbdbg.c`, `omv_main.c` | script flags, text buffer, counters, pending exception | SCRIPT_EXEC, chunks, SCRIPT_STOP, `usbdbg_init`, REPL and script | every store may be interleaved; an interrupt arrives late; chunks are dropped | whole scripts only, accepted scripts start, a stop stops the right script |
| JPEG stream, `framebuffer.c`, `omvhal-mutex.c`, `usbdbg.c` | JPEG buffer header and pixels, two-field mutex, quality and overflow counter | publish a frame, FRAME_SIZE, FRAME_DUMP, FB_ENABLE | try-lock made of plain loads and stores; a dump in many calls; a lock held across calls of the host | the host gets the frame it was promised, frames leave, quality recovers |
| Scratch memory, `fb_alloc.c` and its users | table of 12 slots, count, mark | alloc, free, mark, free till mark, permanent marks | exceptions skip the frees; callbacks into the script; narrow counters that wrap | no double free, nothing freed while in use, stack discipline |
| Camera bus and sensor layer, `cambus.c`, `sensor.c` | DVP configuration and status, finish flag, formats, sizes, MAIN_FB() | setters, reset, shutdown, snapshot, interrupt handler | the handler between any two register accesses; time-outs with a capture armed; stale frames | an image is a whole frame of the size and format it claims; snapshot returns |
| SPI slave link, GPIO, UART, I2C, timers and other drivers | registers | set, get | little | - |
| Image library, camera chip tables, Python bindings, RT-Thread, SDK, LVGL | - | - | computation or vendored code | - |

`hazards` in `PROJECT.json` lists the places in the code that a test would hardly reach,
with the properties that cover them.

## Modules

| Module | Models | Used by |
|---|---|---|
| `DmaPool` | what `dmalock.c` promises: ask, grant, refuse, give back | `DmaLock` (refinement), `DmaClients` (composition) |
| `DmaLock`, `MCDmaLock`, `DmaLockProofs` | `dmalock.c`, one action per shared access | run `dmalock`, six theorems |
| `DmaClients`, `MCDmaClients`, `DmaClientsProofs` | the drivers over `DmaPool`, and the DMA controller's state per channel | run `dma_clients`, five theorems |
| `QspiFlash`, `MCQspiFlash` | the flash driver, the chip and power cuts | run `flash` |
| `OtaBoot` | the boot loader over partitions a cut may damage | run `ota_boot` |
| `FlashProofs` | | eight theorems about `QspiFlash` and `OtaBoot` |
| `RtRingbuffer` | RT-Thread's ring buffer as pure operations | `Console` |
| `Console` | the console, store by store on two threads | `SerialDbg` |
| `SerialDbg`, `MCSerialDbg`, `SerialDbgProofs` | receive interrupt, FIFO, `serial_recv_block`, dispatch | run `serial`, four theorems |
| `JpegQuality` | the quality controller in `fb_update_jpeg_buffer` | `JpegControl`, `JpegStream` |
| `JpegControl` | the controller over an endless stream of frames | run `jpeg_quality` |
| `JpegStream` | `omvhal-mutex.c` load by load, publishing, the IDE's commands | run `jpeg_stream` |
| `JpegProofs` | | six theorems about `JpegStream` and `JpegControl` |
| `FbStack` | the stack `fb_alloc.c` promises to be | `FbAlloc` (refinement) |
| `FbAlloc`, `MCFbAlloc`, `FbAllocProofs` | `fb_alloc.c` and the calling patterns of its users | runs `fb_alloc`, `fb_callback`, four theorems |
| `ScriptControl`, `ScriptControlProofs` | upload, start and stop of scripts, load by load and store by store | run `script`, five theorems |
| `DvpBus` | `cambus_read_pixels`, `sensor_irq`, DVP and camera | `Sensor` |
| `Sensor`, `SensorProofs` | `sensor.c`: setters, reset, snapshot, over `DvpBus` | runs `sensor`, `sensor_fit`, five theorems |

### How state and actions correspond to the code

**DmaLock.** `sem`, `waitq` and `mutex` are the RT-Thread objects as far as
`dmalock.c` depends on them: `rt_sem_release` hands its count to the first waiter
directly, an expired wait leaves the queue. `Take`, `TimeOut`, `LockMutex`, `Scan`,
`Claim`, `UnlockMutex` are `_dmalock_sync_take`; `ReleaseName`, `ReleaseUsed`,
`ReleaseSem` are the three stores of `dmalock_release`. Clients are arbitrary: they
hold up to `MaxHold` channels. The name of a channel is the thread that passed it.

**DmaClients.** The pool is the abstract one, which `DmaLock` implements. `armed` is the
transfer a channel is programmed for, `callback` what `dmac_irq_register` left there:
`dmac_set_single_mode` does not touch it, so the end of a transfer whose driver polls
may run the callback of an earlier user (`Stale`, `Ends`). Each driver is the sequence of
its blocking points: `Spi*` is `drv_spi_xfer` with one or two channels and failing
allocations, `Flash*` the two DMA routines of the flash driver, `I2s*` start and stop of a
stream. Registering a callback and programming the channel are two steps (place "arm"). `_i2s_stop`
gives the channel back without stopping it or unregistering `rx_dmacb`: the transfer in flight
goes on, may end when another client has the channel, and the callback it left there starts
the next buffer of a stream that is open (`Rearms`, `Rearm`). `Kpu*` is `py_kpu_run` with its time-out and late completions, `Fft*` is `fft_run`,
which takes two channels and transfers on two fixed ones. Calls from Python exclude each
other. `spurious`, `clash` and `leaked` record what the code does not guard against; the
properties say what holds until then.

**QspiFlash.** A cell is a page and holds a set of bits; erasing sets bits, programming
clears them. `WriteBegin`, `ReadSector`, `EraseSector`, `ProgramPage` are
`w25qxx_write_data`; `ExtDo`, `ExtErase`, `ExtWrite` and so on the download shortcut
`ymodem_ota_ext`, which takes over writes and erases of every partition while it is enabled
(`Swallowed`). `CutIdle`, `CutErase`, `CutProgram` are power cuts, inside a chip operation too,
whose cells are then anything between old and new. Addresses keep the width that
reaches the chip (`ExtProgramAt`).

**OtaBoot.** A firmware is a header and sectors that remember their version. `Check`,
`VerifyDownload`, `CopySector`, `SaveHeader`, `AppCheck` follow `ota_main` and
`load_application`; the library `rt_ota` is external and modelled by the way it is called.
That a cut damages one sector is `OutsideIntact` of `QspiFlash`; that the erase before an
upgrade does nothing is `erase` of `drv_qspiflash.c`, so the old header stays until the new
one is saved.

**SerialDbg and Console.** A byte is the number of its command and its place in it, so that
bytes of two commands can be told apart. The dispatcher cannot: it tests one byte against 0x30,
which is also the digit 0, and `magic` names the places of a command that hold that byte
(`IsHeader`). After a time-out the rest of a command may then be taken for a header. `Receive` is the interrupt, which posts one permit
for all bytes it found; the read loop of `serial_recv_block` takes one permit per read and
drops what it has on a time-out. Commands with data from the host and to the host both
occur. The console is a ring buffer with mirror bits; every store the other thread can see
is a step, calls of both threads overlap freely, and `overlap` and `wide` record that they
did, or that a write of several bytes was forced. Once an index has left the pool the
widths matter: indexes have 15 bits, the space has 16, and the length of the data is unsigned.

**JpegStream.** A frame is a number, pixels are chunks that remember their frame.
Each load and store of `omvhal-mutex.c` is a step, as on two cores, so both of its faults
happen: the two threads read a free lock before either takes it (`raced`), and the second
store of an unlock wipes the owner of a take that came after the first, after which nobody can
unlock (`LockedOut`). JPEG compression is a choice between fits and
does not fit. The IDE is external and does what the protocol allows.

**ScriptControl.** `script_ready`, `script_running`, `script_buf`, `xfer_bytes` and
`xfer_length` are variables, and every load or store of one of them is a step:
`usbdbg_init` is five, a chunk seven (`usbdbg_data_out` loads the counters, tests,
appends, adds up, stores, compares), because the other thread works on them in between.
A text is a sequence of chunks named after their script. `script_buf` is memory and a
length: `vstr_reset` leaves the memory, an append writes it, and may move it. The interpreter
takes address and length (`Parse`) and then reads the memory chunk by chunk (`Lex`), whatever
is written there meanwhile; `opened` records that `script_running` was down while it read.
`mode` says what may happen: `main.py` exists
("main"), scripts catch the interrupt ("swallow"), the collector is locked when a
chunk arrives ("gc"), the host does not wait for the prompt ("hasty").

**FbAlloc.** `slot`, `count`, `mark` are the table and its counters, taken modulo
`Width`; `heap` is what `malloc` has handed out. `ctx` is the stack of C calls that
use the allocator and the blocks each one believes it holds; an exception removes
calls from `ctx` and leaves the table alone, as `nlr_raise` does. A request of size zero gets
NULL and takes no slot, but the method gives it back all the same, and `fb_free` then takes the
newest block there is. `sensor.dealloc_extra_fb` pops a frame whether or not there is an extra
frame buffer, so the mark may go below zero. `feat` says whether scripts use callbacks, extra
frame buffers, exceptions, restarts or methods that ask for nothing ("zero").

**DvpBus and Sensor.** Every access to `g_dvp_finish_flag` or a DVP register is a
step; a read-modify-write is two, and so is a round of the loop in `cambus_read_pixels`, which
tests the flag and later the tick: it may give up with the flag up. `cfg`, `sts`, `armed`, `busy` and `buf` are the
peripheral, `cam` the camera, modelled from how the code uses them. In a world
without "smp" the handler interrupts the thread; with "smp" it runs beside it on the
other core. In a "slow" world frames may stay away for longer than the time-out.
A frame size is a number of pixels; the crop of `sensor_check_buffsize` may end at
any of the sizes that fit. A buffer holds what kind of pixels (pairs still
swapped, gray planes, corrected, part of a frame, garbage) and their size.
`late` and `refused` record that a capture timed out or that the bus refused a format
the camera had taken; properties of images are stated for behaviours without either.

## Runs

| Run | Instance | Shows |
|---|---|---|
| `dmalock` | 3 threads, 2 channels | channels have one owner and none is lost in every interleaving; takes return; the pool is implemented |
| `dma_clients` | 3 channels, with a screen that keeps one and 2 KPU runs, and without screen and KPU; 1 003 116 states | every call gives back what it took, an SPI, flash or KPU transfer runs on a channel its client holds although stopped streams leave theirs running, SPI callbacks do not stay, a KPU run returns its own result, SPI transfers end while two channels are usable and no FFT cut one off; without a screen an FFT does, and `SpiEnds` fails without that hypothesis |
| `flash` | 4 sectors of 2 pages in 2 blocks, every write of up to 3 pages; 767 436 states | a write stores its data and keeps the rest; a cut damages the sector being rewritten; a finished download is stored |
| `ota_boot` | 2 versions of 2 sectors, 2 cuts, 2 downloads; 48 068 states | only whole firmware is started, upgrades that were cut off go on and complete |
| `serial` | headers of 2 bytes, data of 3, FIFO of 4, console of 2 bytes, commands with and without further bytes 0x30; 508 330 states | without an overrun, headers and data of commands are not mixed, unless a command was cut whose other bytes look like a header; the console keeps the newest output in order, commands are carried out |
| `jpeg_quality` | board constants 50/90/60 | quality is kept for 60 frames after it was lowered, and recovers |
| `jpeg_stream` | 2 frames, 2 chunks, the mutex of the source; 97 000 states | a frame is torn only after both threads read the lock as free; no stale pixels and no orphaned owner; frames leave unless the owner was wiped; both races occur |
| `fb_alloc` | 2 slots, 3 blocks, counters modulo 4; 97 263 states | no double free, with exceptions, callbacks, requests of size zero or extra frame buffers given back too often, although the mark goes below zero; in plain scripts no block in use is lost and the table is a stack |
| `fb_callback` | callbacks, counters modulo 65536 | **violated**: a block in use is freed |
| `script` | 2 scripts of 2 chunks, patient and hasty host; 101 794 states | patient host: whole scripts, started and stopped; any host: no two scripts in one text while `script_running` is up |
| `sensor` | 2 sizes, 3 formats, handler on the core of the thread, slow and steady camera; 1 193 226 states | images and previews are right, the frame that is read is whole, snapshot returns |
| `sensor_fit` | a frame too large | **violated**: the DVP writes past the frame buffer |

Each violated run is a disagreement between the code and a comment of the code; the
entry under `findings` quotes it. Every property of a passing run has a mutant: a faulty
variant of one modelled operation (marked "Fault" in the modules), under which TLC finds the
property violated.

### Bounds, and why they are enough

* `dmalock`: three threads and two channels give a waiter, a releaser and a searcher at
  once; `MaxHold = 1` because `TakeReturns` needs clients that do not wait for each
  other's channels. The theorems hold for any `MaxHold`.
* `dma_clients`: `Boards` are the boards of the run (the screen is an option of the build,
  `bsp/driver/Kconfig:196`). Beside the screen's channel two are left, which SPI or an FFT may need
  both of; the fixed channels of the FFT are these two, so it runs on what it holds.
  Without a screen it may hold the third and run on one of another client's, also under a
  transfer; KPU runs are left out there (`run` starts at `MaxRuns`) to keep the run short. Of two
  KPU runs (`MaxRuns`) one can time out and complete during the other, and two
  time-outs exhaust the pool. `SemMax = 1` lets `k_sem` reach its limit.
* `flash`: a write can begin and end inside a sector, fill one, and span two or three;
  one bit per page is enough, because bits do not depend on each other. Images of one
  page, one sector and one and a half cover the last buffer being partly filled.
  `MaxSwallowed` bounds foreign writes during a download.
* `ota_boot`: a partition can be half old and half new; two cuts can interrupt the upgrade
  and its repetition, two downloads can replace an image that was being installed.
* `serial`: a script of two chunks (`len = 3`, `Chunk = 2`) has a block boundary within its
  data; two bytes per interrupt bring the end of one block and the start of the next
  (`depth`); the FIFO of four bytes overruns; one script has the byte 0x30 in its header and twice
  in its data, on both sides of a block boundary; four printed bytes wrap the console twice.
  Four loads split the product of line faults and console.
* `jpeg_stream`: a frame that is being sent and a newer one; two chunks can be torn.
  `MaxFrames` bounds the camera, `NChunks` the copies.
* `fb_alloc`: with two slots the table gets full, and counters modulo 4 wrap;
  `MaxMark` bounds the nesting of methods. Extra frame buffers that may be given back at any time
  multiply the contexts, so they are not combined with callbacks, and a third slot is left to the
  theorems. `fb_callback` uses the real 16-bit width, so
  that its trace does not depend on wrapping. Blocks are interchangeable (symmetry).
* `script`: two scripts can be mixed up, two chunks can be separated.
* `sensor`: a size that fits (2 pixels in a buffer of 4) and one that has to be cropped
  (5); a steady camera sends three frames within the time-out (`NFrames`), so a call that
  came too late for one still sees a whole one. The camera accepts JPEG, which the bus
  refuses, and refuses BAYER; YUV422 follows the path of RGB565 and is left out of
  the run to keep it short.

### Deadlock

It is checked in `dmalock`, `jpeg_quality`, `jpeg_stream`, `fb_alloc` and `sensor`. Elsewhere the
system may stop: a hard fault of the firmware (`script`, `serial`), a host with nothing
more to send (`serial`), channels that leaked (`dma_clients`), an overrun of the download
buffer (`flash`), a damaged boot loader (`ota_boot`). That callers do not wait for each
other for ever is stated as liveness instead (`SpiEnds`).

### Fairness

RT-Thread schedules every ready thread, so steps inside a call are weakly fair, and
transfers, runs and chip operations that began end. Beyond that: in `dmalock` a thread that
waits for the mutex gets it, and in `dma_clients` who waits for a channel that becomes free
again and again gets one (strong fairness: the kernel's queues are in order); finite
waits expire and clients of `dmalock` release what they hold. In `jpeg_stream` the IDE
keeps polling and dumping (strong fairness, because the buffer is locked now and then); in
`script` both threads go on, but the host need not send anything; in `serial` a command that
was begun is sent to its end; in `jpeg_quality` frames keep coming; in `sensor` the thread,
the handler and the clock go on (strong fairness of the time-out: once the time is up, every
test of the tick says so) and a powered camera sends frames, while setters and
snapshots are the script's choice; in `ota_boot` the board is switched on again after a
cut and the boot loader goes on, and the bound on cuts is what makes them finitely many.

## Proofs

Proofs are for every value of the constants that satisfies the named assumption of the
module (`DmaLockAssumption`, `DmaClientsAssumption`, `QspiFlashAssumption` and so on: finite
or positive sizes, sectors that divide blocks and chips, and the nulls distinct from the
rest).

* **DmaLockProofs.** `IInv` is the type invariant, `QueueInv` (the wait list has no
  duplicates and holds only threads that wait; a time-out is pending exactly during a
  take), `SearchInv` (the searching thread has the mutex, and a free channel lies at
  or after its index), `OwnerInv` (owned channels are marked used, under their owner's name, and
  owners differ) and `Conservation`. `SearchInv` is what makes the search succeed although
  releases go on without the mutex: a permit stands for a free entry, entries become
  free during a search but are taken only under the mutex. From it follow
  `ExclusiveChannel`, `EokHasChannel`, `NameOfHolder`, and `Refinement`: each step is a step of
  `DmaPool` or a stutter.
* **DmaClientsProofs.** One invariant per client over its place and its channels (`SpiInv`,
  `FlashCl`, `I2sCl`, `FftCl`, `KpuCl`) and one about the transfers of each of SPI, flash and KPU
  (`SpiArm` and so on: armed only at the place where the driver waits, on a channel it holds;
  a stream that was stopped has no such invariant, its channel runs on). A step of
  another client leaves them alone (`MovesFrame` and the frame lemmas), which keeps the proof linear
  in the number of drivers. `KpuArm`, `KpuSem` and `JobInv` are what `KpuReturnsResult`
  needs: run numbers are unique, a channel that is armed without being leaked belongs to the
  run in progress, and without spurious posts `k_sem` is 1 only when that run's output is there.
* **FlashProofs**, the driver. The sector being rewritten is the one of `addr` (`SectorInv`),
  the buffer holds what the sector should hold (`BufInv`), before the erase nothing has
  changed (`ReadInv`), then pages before `page` are final and the others still have every bit
  they need (`ProgramInv`), and outside the sector everything is as `addr` says (`OutInv`).
  `OutsideIntact`, `InPlace` and `WriteStores` follow for any sizes, contents and requests.
  `DownloadInv` follows an image through the shortcut: the shortcut and the downloader count
  alike, the blocks left to erase reach the end of the image, whole sectors are programmed and
  the rest of the partition is erased, and the buffer holds what is between. Hence
  `DownloadStored`, for every image that fits, also one that ends in the middle of a sector.
  The arithmetic of sectors and blocks is in lemmas of its own.
* **FlashProofs**, the boot loader. `BootInv`: what the boot loader has established when it
  decides (`Decided`) and `Resumable` itself. Also proved: partitions change
  only to install an encrypted download that verifies (`OnlyGoodDownloads`).
* **FbAllocProofs.** `IInv` is the type invariant and `SlotsOwnBlocks`; it is
  inductive although counters may be out of step with the table, which is the point: no
  sequence of calls, exceptions, callbacks or restarts frees a block twice. Where the features
  are plain (no permanent slots, no callbacks, no requests of size zero), `PlainTable` says that the table is a stack -
  the counts of the valid slots are `1 .. count`, each once, and marks follow that order - and
  `PlainCalls` that a call's blocks are those of its mark, newest last, where marks that an
  exception left behind are counted in. From them follow `PlainHeldIsLive` and, step by step,
  `ImplementsStack`: the valid slots ordered by count are the stack of `FbStack`
  (`ViewOfTable`; pushing, popping and cutting a frame are one lemma each).
* **JpegProofs**, the stream, over the loads and stores of the source. The owner field is honest
  by itself (`OwnerIsInside`). `NoStalePixels` needs no mutex, only that one thread writes the
  pixels, never older ones, and the header last (`WriterInv`, `FreshInv`). `NoTornFrame` needs
  that the two threads have not both read the lock as free: then one thread at most is
  inside and the lock field is set from FRAME_SIZE to the end of the dump, even when the owner
  field was wiped (`MutexInv`), so the announced frame stays whole (`FrameInv`). For any number
  of frames and of pieces of a frame.
* **JpegProofs**, the controller (from `JpegQualityAssumption`: 1 <= low <= high, at least one
  frame of retention). `ControlInv` adds to the type invariant that the counter and the frames
  that fitted since the quality was lowered sum up to `KeepFrames`; range, `NeverZero` and
  `KeptForFrames` follow for all constants, where TLC checks those of one board.
* **ScriptControlProofs.** The chunks within the length of the buffer belong to one script, the
  one being received (`BufInv`); a chunk that passed the test of `script_running` is on its way
  only while the flag is down, so nobody writes to a text that is read with the flag up
  (`LexInv`). Hence `OneScriptText` for any number of scripts and chunks and any host, until the
  flag is taken down under the reader, by SCRIPT_STOP for one. For a patient
  host, `PlacesInv` (an upload meets the REPL only), `UploadInv` (the counter is the length of
  the buffer, and a buffer that is ready is full) and `InterruptInv` (an interrupt nobody asked
  for is the one that wakes the REPL) give `PatientRunsWhole` and `OnlyStopInterrupts`.
* **SensorProofs** (from `DvpAssumption`). On one core the thread stands still while the
  handler runs, and the invariant says how they agree: while a frame is written the handler has
  nothing to do (`WritingInv`); from the moment the DVP is armed until the flag is up the
  interrupt stays enabled, although setters store a copy of `dvp_cfg` they loaded earlier
  (`AnnouncedInv`); from frame finish on the DVP stays still and the buffer whole (`DoneInv`);
  between calls the flag is up or the interrupt is off (`RestInv`). None of the four is
  inductive alone. `WholeWhenSeen` and `QuietOutside` follow for every camera and time-out.
  `TypeOK` is proved without the assumption of one core. `ImageRight` and `PreviewRight` need
  a second layer on top: camera, DVP, bus and sensor agree on size and format except inside a
  setter and after a refused format (`CopyInv`, `FormatInv`), a finished frame has the
  settings of now (`CaptureInv`), and `bpp` is -1 or describes the buffer (`ShownInv`,
  `ImageInv`).
* **SerialDbgProofs**, the line. `StreamInv` holds until the FIFO overruns: the bytes collected
  by `serial_recv_block`, in the FIFO and in the receiver are bytes of commands (`RangeInv`),
  follow each other without a gap inside a command (`OrderInv`), end with the last byte sent
  (`EndInv`) and in a data phase begin where `usbdbg_data_out` is (`DataInv`, `OutInv`). A
  time-out takes bytes from the front only, so what is left is still such a piece. What the
  dispatcher takes for a header begins a command either because nothing was cut (`StartInv`)
  or because no other byte is 0x30 (`Plain`). `HeadersIntact` and `DataInOrder` follow under
  that condition (`InStep`) for every set of commands, all sizes and any burst.
* **SerialDbgProofs**, the console. Between the stores of a call the ring buffer is in no
  good state, so the invariant speaks of the buffer as the call in progress is going to leave
  it (`Settled`): most stores do not change that at all. `Ring` is the meaning of the mirror
  bits, `RingInv` says that the buffer holds the last bytes printed, `ReadInv` that the host
  has earlier ones in order, `NewestInv` that the sequence kept beside it is the same. Two
  lemmas carry the proof, `GetRing` and `PutRing`: what `rt_ringbuffer_get` and
  `rt_ringbuffer_put_force` do to indexes, mirrors and contents for every buffer size, a
  forced write and a wrap included. `ConsoleIsNewest` and `ConsoleInOrder` follow.

The type invariants, `EokHasChannel`, `NameOfHolder`, `NeverZero`, `QuietOutside` and
`OnlyGoodDownloads` are stated by theorems only; the runs spend their time on the rest.

Every safety property of a passing run is stated by a theorem. Only model-checked is
liveness (`TakeReturns`, `SpiEnds`, `Completes`, `Delivered`, `FrameLeaves`, `Recovers`,
`AcceptedStarts`, `PatientStops`, `SnapshotReturns`), which is outside the prover's reach. The
theorems carry the hypotheses of the properties: the handler on the core of the thread in
`Sensor`, so what the handler on the other core does to `dvp_cfg` is not caught by any of them;
no overrun and no overlapping calls in `SerialDbg`, a patient host or `script_running` up in
`ScriptControl`, plain features in `FbAlloc`, no double read of a free lock in `JpegStream`. Outside of them the code does what the next section lists.

## What the models show the code does

These behaviours are in the models, and the properties above are stated around them.

* `omvhal-mutex.c:22`: both threads can pass the test of `lock` on two cores and be in the
  JPEG buffer together (`raced`). `omvhal-mutex.c:37`: an unlock can wipe the owner
  of a take that came after its first store, and the buffer stays locked (`LockedOut`);
  `FB_ENABLE` off does not free it.
* `omv_main.c:169`: a script uploaded while `main.py` runs is forgotten by `usbdbg_init`;
  `usbdbg.c:303`: a host that does not wait for the prompt can have the counters reset between two
  chunks, and part of a script is run. SCRIPT_STOP and a new upload while the
  interpreter still reads the text rewrite it in place.
* `rt_thread_dbg.c:173`: after a time-out inside a command, a byte '0' of its rest is taken for
  the start of a header.
* `fb_alloc.c:91`: a method that pairs a request of size zero with an `fb_free` loses a block it
  still uses. `py_sensor.c:219`: `dealloc_extra_fb` without an extra frame buffer pops a frame of
  somebody else's.
* `cambus.c:280`: with the handler on the other core, its read-modify-write of `dvp_cfg`
  can undo the enables of a capture, which then sees no frame (`Worlds` with "smp").
* `ringbuffer.c:141`: a forced write that wraps turns the reader's mirror although the
  reader has not wrapped: the full console becomes empty.
* `py_kpu.c:386`: a KPU run that times out keeps its channel; if it completes later,
  `k_sem` is posted and the next run returns early. `py_fft.c:83`: an FFT transfers on
  channels 3 and 4 whoever holds them. `drv_i2s.c:507`: a stopped stream gives its channel back
  while it runs; the callbacks of the KPU and of stopped streams stay on their channels.
* `drv_qspiflash.c:438`: after an aborted download the shortcut stays enabled and swallows
  writes of other partitions. `drv_qspiflash.c:347`: `erase` does nothing outside a download, so an
  upgrade keeps the old header until the new one is saved.
* `ota_main.c:40`: the test that refuses images for the boot loader is commented out; an
  upgrade of it that is cut off leaves a dead board. The model installs such downloads.

Not in a property: `fb_alloc.c:45` clears the table without freeing; `sensor.c:494` leaves
the camera with a format the bus refused; `sensor.c:557` changes the window while the DVP goes
on writing full lines; `cambus.c:604` places the KPU's planes behind the frame buffer
without comparing sizes; `usbdbg.c:143` lets SENSOR_ID run on into TX_BUF (modelled in
`SerialDbg`, where the console stays in order); `drv_i2s.c:51` keeps the index of the last
buffer of an earlier stream.

## What is not modelled

* The SPI slave link: a second host link with a register protocol of its own.
* GPIO, UART, I2C, timers, watchdog and the remaining drivers: thin layers that set registers
  of one peripheral for one caller and keep no state of their own worth a property.
* SCCB access and probing for the camera chip; image quality setters, which pass a value on;
  register tables of camera chips.
* The image library, FFT and KPU arithmetic: computation over large arrays, not
  protocols. Its use of scratch memory is `FbAlloc`.
* Audio data: of I2S the channel and the callback are modelled, not the buffers.
* Vendored code: RT-Thread, the Kendryte SDK, MicroPython, LVGL, FatFs and their tables are
  nearly all of the repository's lines. They appear where the models need them, as
  far as the firmware's own code depends on them (semaphores, ring buffer, serial FIFO, DMA
  controller), and `rt_ota` as external.
* In the image pipeline, planes for the KPU other than the gray one are left out, and a camera
  that does not accept a frame size changes nothing.

## Plan

1. *Done:* `DmaLock` and `DmaPool`, `DmaClients`, `QspiFlash`, `OtaBoot`, `SerialDbg` with
   `Console` and `RtRingbuffer`, `JpegStream`, `FbAlloc` and `FbStack`, `ScriptControl`,
   `DvpBus` and `Sensor`, and the theorems above.
2. `SpiSlave`: the second host link over the same commands.
3. `GpioPins`: pin to channel table and interrupt table.
4. Theorems about what is left without the hypotheses above: the console after a forced write
   of several bytes (full or empty, by `PutRing`), and the camera on two cores.
