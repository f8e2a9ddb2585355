----------------------------- MODULE DmaClients -----------------------------
(***************************************************************************)
(* The drivers that share the DMA controller, composed with the channel    *)
(* pool dmalock.c implements: SPI transfers (drv_spi.c), flash transfers   *)
(* (drv_qspiflash.c), audio streams (drv_i2s.c), KPU runs (py_kpu.c), FFTs *)
(* (py_fft.c) and the screen (drv_lcd.c), which keeps its channel.         *)
(*                                                                         *)
(* Besides the pool they share what the controller keeps for a channel:    *)
(* the transfer it was last programmed for and the completion callback     *)
(* dmac_irq_register left there.  dmac_set_single_mode does not touch the  *)
(* callback: a transfer whose driver polls for its end calls whatever an   *)
(* earlier user of the channel registered.                                 *)
(*                                                                         *)
(* Calls from Python (KPU runs, FFTs) exclude each other: the interpreter  *)
(* keeps its lock in them.  The other clients run on threads of their own. *)
(* DMA transfers and the KPU are external and end at any time.             *)
(***************************************************************************)
EXTENDS DmaPool, FiniteSets

CONSTANTS None,
          Boards,        \* the channels rt_hw_lcd_init took for good, and the KPU
                         \* runs already made
          FftChannels,   \* DMAC_CHANNEL3 and DMAC_CHANNEL4, whatever was taken
          MaxRuns,       \* bound: KPU runs
          SemMax         \* RT_SEM_VALUE_MAX, small

Clients == {"spi", "flash", "i2s", "kpu", "fft", "lcd"}

ASSUME DmaClientsAssumption ==
    /\ Threads = Clients /\ None \notin Channels \union Clients
    /\ Boards \subseteq [screen : SUBSET Channels, run : 0..MaxRuns]
    /\ FftChannels \subseteq Channels
    /\ MaxRuns \in Nat /\ SemMax \in Nat

VARIABLES
    pc,          \* where each client is
    kind,        \* the buffers of the SPI message
    recvChannel, \* bus->dma_recv_channel, None once its transfer is over
    spiDone,     \* dma_completion of the SPI bus
    armed,       \* armed[c]: the client whose transfer runs on c
    callback,    \* callback[c]: the client whose callback is registered for c
    k_sem,       \* the KPU object's semaphore
    run,         \* KPU runs so far
    jobs,        \* runs whose output is not complete
    leaked,      \* history: channels of KPU runs that timed out
    spurious,    \* history: k_sem was posted, but not by the run in progress
    clash        \* history: an FFT ran on a channel of another client

kpuVars == <<k_sem, run, jobs, leaked, spurious>>
spiVars == <<kind, recvChannel, spiDone>>
dmacVars == <<armed, callback, clash>>
vars == <<poolVars, pc, spiVars, dmacVars, kpuVars>>

Init ==
    /\ \E b \in Boards :
         /\ holds = [t \in Clients |-> IF t = "lcd" THEN b.screen ELSE {}]
         /\ run = b.run
    /\ asking = [t \in Clients |-> "none"]
    /\ pc = [t \in Clients |-> "idle"]
    /\ kind = {} /\ recvChannel = None /\ spiDone = FALSE
    /\ armed = [c \in Channels |-> None] /\ callback = [c \in Channels |-> None]
    /\ k_sem = 0 /\ jobs = {} /\ leaked = {}
    /\ spurious = FALSE /\ clash = FALSE

Goto(t, l) == pc' = [pc EXCEPT ![t] = l]

----------------------------------------------------------------------------
(* The controller: dmac_set_single_mode, dmac_irq_register and the interrupt
   at the end of a transfer *)

Arm(cs, t) == armed' = [c \in Channels |-> IF c \in cs THEN t ELSE armed[c]]

Post == k_sem' = IF k_sem < SemMax THEN k_sem + 1 ELSE k_sem

\* rx_dmacb and dmacb program the channel of the stream again; after _i2s_stop
\* that is DMAC_CHANNEL_MAX, which is none.
Streaming == pc["i2s"] \in {"open", "stream"}
Rearms(c) == Streaming /\ callback[c] = "i2s"

\* They wait (dmac_wait_done) until nothing else runs on that channel.
Rearm(c) ==
    /\ \A d \in holds["i2s"] \ {c} : armed[d] \in {None, "i2s"}
    /\ armed' = [d \in Channels |-> IF d \in holds["i2s"] THEN "i2s"
                                   ELSE IF d = c THEN None ELSE armed[d]]

\* The transfer of t on c ends.  The interrupt runs the callback that is on the
\* channel, whoever left it there (seen), unless the driver polls and clears the
\* interrupt before it is taken.  A post of k_sem that is not due is spurious.
Ends(t, c, seen, due) ==
    /\ armed[c] = t
    /\ IF seen /\ Rearms(c)
         THEN Rearm(c)
         ELSE armed' = [armed EXCEPT ![c] = None]
    /\ IF seen /\ callback[c] = "kpu"
         THEN Post /\ spurious' = (spurious \/ ~due)
         ELSE UNCHANGED <<k_sem, spurious>>
    /\ spiDone' = (spiDone \/ (seen /\ callback[c] = "spi"))
    /\ UNCHANGED <<kind, recvChannel, callback, clash, run, leaked>>

----------------------------------------------------------------------------
(* drv_spi_xfer; the bus mutex lets one transfer in *)

SpiBegin(k) ==
    /\ pc["spi"] = "idle"
    /\ kind' = k /\ spiDone' = FALSE
    /\ UNCHANGED recvChannel
    /\ Ask("spi", "forever")
    /\ Goto("spi", IF "recv" \in k THEN "recv" ELSE "send")
    /\ UNCHANGED <<dmacVars, kpuVars>>

SpiRecvChannel(c) ==
    /\ pc["spi"] = "recv" /\ asking["spi"] # "none"
    /\ Grant("spi", c)
    /\ recvChannel' = c
    /\ Goto("spi", "rx_buff")
    /\ UNCHANGED <<kind, spiDone, dmacVars, kpuVars>>

\* rt_calloc may fail: the channel is given back without a transfer.
SpiRxBuff(ok) ==
    /\ pc["spi"] = "rx_buff"
    /\ IF ok /\ "send" \in kind
         THEN Ask("spi", "forever") /\ Goto("spi", "send")
         ELSE Goto("spi", IF ok THEN "start" ELSE "done") /\ UNCHANGED poolVars
    /\ UNCHANGED <<spiVars, dmacVars, kpuVars>>

SpiSendChannel(c, ok) ==
    /\ pc["spi"] = "send" /\ asking["spi"] # "none"
    /\ Grant("spi", c)
    /\ Goto("spi", IF ok THEN "start" ELSE "done")
    /\ UNCHANGED <<spiVars, dmacVars, kpuVars>>

\* Of two channels only the receiving one gets a callback.
Watched == IF "recv" \in kind THEN recvChannel ELSE CHOOSE c \in holds["spi"] : TRUE

\* A transfer that is still on the channel may end in between and complete this
\* one.
SpiRegister ==
    /\ pc["spi"] = "start"
    /\ callback' = [callback EXCEPT ![Watched] = "spi"]
    /\ Goto("spi", "arm")
    /\ UNCHANGED <<poolVars, spiVars, armed, clash, kpuVars>>

SpiStart ==
    /\ pc["spi"] = "arm"
    /\ Arm(holds["spi"], "spi")
    /\ Goto("spi", "wait")
    /\ UNCHANGED <<poolVars, spiVars, callback, clash, kpuVars>>

SpiTransferEnds(c) ==
    /\ Ends("spi", c, TRUE, FALSE)
    /\ UNCHANGED <<poolVars, pc, jobs>>

\* Fault: the callback stays when the transfer is over.
SpiWaitKeepsCallback ==
    /\ pc["spi"] = "wait" /\ spiDone
    /\ \A c \in Channels : armed[c] # "spi"
    /\ Goto("spi", "done")
    /\ UNCHANGED <<poolVars, spiVars, dmacVars, kpuVars>>

\* rt_completion_wait, dmac_irq_unregister, and the loop that waits for the
\* shift register to empty.
SpiWait ==
    /\ pc["spi"] = "wait" /\ spiDone
    /\ \A c \in Channels : armed[c] # "spi"
    /\ callback' = [callback EXCEPT ![Watched] = None]
    /\ spiDone' = FALSE
    /\ Goto("spi", "done")
    /\ UNCHANGED <<poolVars, kind, recvChannel, armed, clash, kpuVars>>

\* Fault: only one of two channels is given back.
SpiReleaseOne(c) ==
    /\ pc["spi"] = "done"
    /\ GiveBack("spi", c)
    /\ Goto("spi", "idle") /\ kind' = {} /\ recvChannel' = None
    /\ UNCHANGED <<spiDone, dmacVars, kpuVars>>

\* transfer_done: both channels, as far as they were taken.
SpiRelease(c) ==
    /\ pc["spi"] = "done"
    /\ GiveBack("spi", c)
    /\ IF holds["spi"] = {c}
         THEN Goto("spi", "idle") /\ kind' = {} /\ recvChannel' = None
         ELSE UNCHANGED <<pc, kind, recvChannel>>
    /\ UNCHANGED <<spiDone, dmacVars, kpuVars>>

----------------------------------------------------------------------------
(* drv_qspiflash.c: w25qxx_receive_data_enhanced_dma and its twin *)

FlashBegin ==
    /\ pc["flash"] = "idle"
    /\ Ask("flash", "forever")
    /\ Goto("flash", "take")
    /\ UNCHANGED <<spiVars, dmacVars, kpuVars>>

FlashStart(c) ==
    /\ pc["flash"] = "take"
    /\ Grant("flash", c)
    /\ Arm({c}, "flash")
    /\ Goto("flash", "wait")
    /\ UNCHANGED <<spiVars, callback, clash, kpuVars>>

FlashTransferEnds(c, seen) ==
    /\ Ends("flash", c, seen, FALSE)
    /\ Goto("flash", "done")
    /\ UNCHANGED <<poolVars, jobs>>

FlashRelease(c) ==
    /\ pc["flash"] = "done"
    /\ GiveBack("flash", c)
    /\ Goto("flash", "idle")
    /\ UNCHANGED <<spiVars, dmacVars, kpuVars>>

----------------------------------------------------------------------------
(* _i2s_start and _i2s_stop, one stream *)

I2sBegin ==
    /\ pc["i2s"] = "idle"
    /\ Ask("i2s", "finite")
    /\ Goto("i2s", "take")
    /\ UNCHANGED <<spiVars, dmacVars, kpuVars>>

I2sRefused ==
    /\ pc["i2s"] = "take"
    /\ Refuse("i2s")
    /\ Goto("i2s", "idle")
    /\ UNCHANGED <<spiVars, dmacVars, kpuVars>>

I2sStart(c) ==
    /\ pc["i2s"] = "take"
    /\ Grant("i2s", c)
    /\ callback' = [callback EXCEPT ![c] = "i2s"]
    /\ Goto("i2s", "open")
    /\ UNCHANGED <<spiVars, armed, clash, kpuVars>>

\* The first transfer waits until an earlier one on the channel is over.
I2sFirst ==
    /\ pc["i2s"] = "open"
    /\ \A c \in holds["i2s"] : armed[c] = None
    /\ Arm(holds["i2s"], "i2s")
    /\ Goto("i2s", "stream")
    /\ UNCHANGED <<poolVars, spiVars, callback, clash, kpuVars>>

\* Also a transfer a stopped stream has left behind.
I2sTransferEnds(c, seen) ==
    /\ Ends("i2s", c, seen, FALSE)
    /\ UNCHANGED <<poolVars, pc, jobs>>

\* The I2S block is disabled and the channel is given back as it is: programmed,
\* enabled and with the callback on it.
I2sStop(c) ==
    /\ pc["i2s"] = "stream"
    /\ GiveBack("i2s", c)
    /\ Goto("i2s", "idle")
    /\ UNCHANGED <<spiVars, dmacVars, kpuVars>>

----------------------------------------------------------------------------
(* py_kpu_run *)

PythonFree == pc["kpu"] = "idle" /\ pc["fft"] = "idle"

KpuBegin ==
    /\ PythonFree /\ run < MaxRuns
    /\ Ask("kpu", "finite")
    /\ Goto("kpu", "take")
    /\ UNCHANGED <<spiVars, dmacVars, kpuVars>>

KpuRefused ==
    /\ pc["kpu"] = "take"
    /\ Refuse("kpu")
    /\ Goto("kpu", "idle")
    /\ UNCHANGED <<spiVars, dmacVars, kpuVars>>

KpuRegister(c) ==
    /\ pc["kpu"] = "take"
    /\ Grant("kpu", c)
    /\ callback' = [callback EXCEPT ![c] = "kpu"]
    /\ Goto("kpu", "arm")
    /\ UNCHANGED <<spiVars, armed, clash, kpuVars>>

KpuStart(c) ==
    /\ pc["kpu"] = "arm" /\ c \in holds["kpu"] \ leaked
    /\ Arm({c}, "kpu")
    /\ run' = run + 1
    /\ jobs' = jobs \union {[run |-> run + 1, channel |-> c]}
    /\ Goto("kpu", "wait")
    /\ UNCHANGED <<poolVars, spiVars, callback, clash, k_sem, leaked, spurious>>

\* The last transfer of a run: kpu_kmodel_done, ai_done.
KpuDone(j) ==
    /\ Ends("kpu", j.channel, TRUE, pc["kpu"] = "wait" /\ j.run = run)
    /\ jobs' = jobs \ {j}
    /\ UNCHANGED <<poolVars, pc>>

KpuReturns ==
    /\ pc["kpu"] = "wait" /\ k_sem > 0
    /\ k_sem' = k_sem - 1
    /\ Goto("kpu", "done")
    /\ UNCHANGED <<poolVars, spiVars, dmacVars, run, jobs, leaked, spurious>>

\* Fault: the result of rt_sem_take is not looked at.
KpuTimeOutIgnored ==
    /\ pc["kpu"] = "wait" /\ k_sem = 0
    /\ Goto("kpu", "done")
    /\ UNCHANGED <<poolVars, spiVars, dmacVars, kpuVars>>

\* The exception leaves with the channel.
KpuTimeOut ==
    /\ pc["kpu"] = "wait" /\ k_sem = 0
    /\ leaked' = leaked \union holds["kpu"]
    /\ Goto("kpu", "idle")
    /\ UNCHANGED <<poolVars, spiVars, dmacVars, k_sem, run, jobs, spurious>>

KpuRelease(c) ==
    /\ pc["kpu"] = "done" /\ c \notin leaked
    /\ GiveBack("kpu", c)
    /\ Goto("kpu", "idle")
    /\ UNCHANGED <<spiVars, dmacVars, kpuVars>>

----------------------------------------------------------------------------
(* fft_run *)

FftBegin ==
    /\ PythonFree
    /\ Ask("fft", "finite")
    /\ Goto("fft", "send")
    /\ UNCHANGED <<spiVars, dmacVars, kpuVars>>

FftSendChannel(c) ==
    /\ pc["fft"] = "send" /\ asking["fft"] # "none"
    /\ Grant("fft", c)
    /\ Goto("fft", "ask")
    /\ UNCHANGED <<spiVars, dmacVars, kpuVars>>

FftAsksRecv ==
    /\ pc["fft"] = "ask"
    /\ Ask("fft", "finite")
    /\ Goto("fft", "recv")
    /\ UNCHANGED <<spiVars, dmacVars, kpuVars>>

\* Fault: the error path forgets the first channel.
FftRefusedLeaks ==
    /\ pc["fft"] \in {"send", "recv"}
    /\ Refuse("fft")
    /\ Goto("fft", "idle")
    /\ UNCHANGED <<spiVars, dmacVars, kpuVars>>

FftRefused ==
    /\ pc["fft"] \in {"send", "recv"}
    /\ Refuse("fft")
    /\ Goto("fft", IF pc["fft"] = "recv" THEN "done" ELSE "idle")
    /\ UNCHANGED <<spiVars, dmacVars, kpuVars>>

\* The transfer runs on two fixed channels, taken or not: a transfer that
\* another client has there is lost.
FftStart(c) ==
    /\ pc["fft"] = "recv" /\ asking["fft"] # "none"
    /\ Grant("fft", c)
    /\ Arm(FftChannels, "fft")
    /\ clash' = (clash \/ \E f \in FftChannels : \E t \in Clients \ {"fft"} : f \in holds[t])
    /\ Goto("fft", "wait")
    /\ UNCHANGED <<spiVars, callback, kpuVars>>

FftTransferEnds(c, seen) ==
    /\ Ends("fft", c, seen, FALSE)
    /\ UNCHANGED <<poolVars, pc, jobs>>

FftWait ==
    /\ pc["fft"] = "wait"
    /\ \A c \in Channels : armed[c] # "fft"
    /\ Goto("fft", "done")
    /\ UNCHANGED <<poolVars, spiVars, dmacVars, kpuVars>>

FftRelease(c) ==
    /\ pc["fft"] = "done"
    /\ GiveBack("fft", c)
    /\ Goto("fft", IF holds["fft"] = {c} THEN "idle" ELSE "done")
    /\ UNCHANGED <<spiVars, dmacVars, kpuVars>>

----------------------------------------------------------------------------
Messages == {{"send"}, {"recv"}, {"send", "recv"}}

SpiStep ==
    \/ \E ok \in BOOLEAN : SpiRxBuff(ok)
    \/ SpiRegister \/ SpiStart \/ SpiWait
    \/ \E c \in Channels : SpiTransferEnds(c) \/ SpiRelease(c)
SpiGrant ==
    \E c \in Channels : SpiRecvChannel(c) \/ \E ok \in BOOLEAN : SpiSendChannel(c, ok)

FlashStep ==
    \/ \E c \in Channels : FlashRelease(c) \/ \E s \in BOOLEAN : FlashTransferEnds(c, s)
FlashGrant == \E c \in Channels : FlashStart(c)

I2sStep ==
    \/ I2sRefused \/ I2sFirst
    \/ \E c \in Channels : \/ I2sStart(c) \/ I2sStop(c)
                           \/ \E s \in BOOLEAN : I2sTransferEnds(c, s)

KpuStep ==
    \/ KpuRefused \/ KpuReturns \/ KpuTimeOut
    \/ \E j \in jobs : KpuDone(j)
    \/ \E c \in Channels : KpuRegister(c) \/ KpuStart(c) \/ KpuRelease(c)

FftStep ==
    \/ FftRefused \/ FftAsksRecv \/ FftWait
    \/ \E c \in Channels : \/ FftSendChannel(c) \/ FftStart(c) \/ FftRelease(c)
                           \/ \E s \in BOOLEAN : FftTransferEnds(c, s)

Next ==
    \/ \E k \in Messages : SpiBegin(k)
    \/ SpiStep \/ SpiGrant
    \/ FlashBegin \/ FlashStep \/ FlashGrant
    \/ I2sBegin \/ I2sStep
    \/ KpuBegin \/ KpuStep
    \/ FftBegin \/ FftStep

Spec == Init /\ [][Next]_vars

\* Calls go on until they return; the semaphore of dmalock serves waiters in
\* order, so who waits for a channel that becomes free again and again gets
\* one.  Nobody has to begin anything.
FairSpec ==
    /\ Spec
    /\ WF_vars(SpiStep) /\ SF_vars(SpiGrant)
    /\ WF_vars(FlashStep) /\ SF_vars(FlashGrant)
    /\ WF_vars(KpuStep) /\ WF_vars(FftStep)

----------------------------------------------------------------------------
(* Properties *)

Held == UNION {holds[t] : t \in Clients}

TypeOK ==
    /\ PoolTypeOK
    /\ pc \in [Clients -> {"idle", "recv", "rx_buff", "send", "start", "arm", "wait", "done",
                           "take", "open", "stream", "ask"}]
    /\ kind \subseteq {"send", "recv"} /\ recvChannel \in Channels \union {None}
    /\ armed \in [Channels -> Clients \union {None}]
    /\ callback \in [Channels -> Clients \union {None}]
    /\ k_sem \in 0..SemMax /\ run \in 0..MaxRuns
    /\ jobs \subseteq [run : 1..MaxRuns, channel : Channels]
    /\ leaked \subseteq holds["kpu"]

(* Between calls a client holds nothing, apart from an open audio stream,   *)
(* the screen and the KPU runs that timed out, one channel each: every path *)
(* through drv_spi_xfer and fft_run gives back all it took.                 *)
Accounted ==
    \A t \in {"spi", "flash", "i2s", "kpu", "fft"} :
        pc[t] = "idle" => holds[t] = IF t = "kpu" THEN leaked ELSE {}

(* SPI, flash and KPU transfers run on channels their clients hold, as long *)
(* as k_sem is only posted by the run in progress: no path gives a channel  *)
(* back under them, not even the time-out of a KPU run, which keeps it, and *)
(* no callback that a stopped stream left behind takes the channel over.    *)
(* (Audio does give channels back under its transfers, and FFTs run where   *)
(* they like.)                                                              *)
ArmedIsHeld ==
    ~spurious => \A c \in Channels :
        armed[c] \in {"spi", "flash", "kpu"} => c \in holds[armed[c]]

(* The callback of an SPI transfer never outlives it: once the channel is   *)
(* given back nobody completes the next SPI transfer through it.            *)
SpiCallbackClean ==
    \A c \in Channels : callback[c] = "spi" => pc["spi"] \in {"arm", "wait"} /\ c \in holds["spi"]

(* A KPU run that returns has its output, unless an earlier run that timed  *)
(* out or a stale callback posted k_sem.                                    *)
KpuReturnsResult ==
    [][pc["kpu"] = "wait" /\ pc'["kpu"] = "done" /\ ~spurious
           => \A j \in jobs : j.run # run]_vars

(* As long as two channels are free of streams, the screen and leaks, and   *)
(* no FFT ran on a channel of another client, an SPI transfer that began    *)
(* ends, whoever else holds one channel and waits for another.              *)
Usable == Channels \ (leaked \union holds["i2s"] \union holds["lcd"])
SpiEnds ==
    [](Cardinality(Usable) >= 2 /\ ~clash)
        => ((pc["spi"] # "idle") ~> (pc["spi"] = "idle"))
=============================================================================
