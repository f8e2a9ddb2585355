-------------------------- MODULE DmaClientsProofs --------------------------
(***************************************************************************)
(* The DMA clients for any number of channels and runs.  Each client has   *)
(* an invariant of its own over its program counter and the channels it    *)
(* holds; steps of the others leave both alone.                            *)
(***************************************************************************)
EXTENDS DmaClients, TLAPS

SpiAct == (\E k \in Messages : SpiBegin(k)) \/ SpiStep \/ SpiGrant
FlashAct == FlashBegin \/ FlashStep \/ FlashGrant
I2sAct == I2sBegin \/ I2sStep
KpuAct == KpuBegin \/ KpuStep
FftAct == FftBegin \/ FftStep

Places == {"idle", "recv", "rx_buff", "send", "start", "arm", "wait", "done", "take", "open", "stream", "ask"}
Owners == Clients \union {None}

HoldsType == holds \in [Clients -> SUBSET Channels]
AskType == asking \in [Clients -> Waits \union {"none"}]
PcType == pc \in [Clients -> Places]
SpiType == kind \subseteq {"send", "recv"} /\ recvChannel \in Channels \union {None}
DmacType == armed \in [Channels -> Owners] /\ callback \in [Channels -> Owners]
RunType == k_sem \in 0..SemMax /\ run \in 0..MaxRuns
JobsType == jobs \subseteq [run : 1..MaxRuns, channel : Channels]
LeakType == leaked \subseteq holds["kpu"]

(* The type invariant in parts. *)
LEMMA TypeParts ==
    TypeOK <=> /\ HoldsType /\ AskType /\ PcType /\ SpiType /\ DmacType
               /\ RunType /\ JobsType /\ LeakType
  <1>1. Threads = Clients
    BY DmaClientsAssumption DEF DmaClientsAssumption
  <1>2. QED
    BY <1>1 DEF TypeOK, PoolTypeOK, HoldsType, AskType, PcType, SpiType, DmacType, RunType, JobsType,
                LeakType, Places, Owners

(* The same after a step. *)
LEMMA TypePartsAfter ==
    (/\ HoldsType' /\ AskType' /\ PcType' /\ SpiType' /\ DmacType'
     /\ RunType' /\ JobsType' /\ LeakType') => TypeOK'
  <1>1. Threads = Clients
    BY DmaClientsAssumption DEF DmaClientsAssumption
  <1>2. QED
    BY <1>1 DEF TypeOK, PoolTypeOK, HoldsType, AskType, PcType, SpiType, DmacType, RunType, JobsType,
                LeakType, Places, Owners

----------------------------------------------------------------------------
(* A client's step moves that client and changes its channels only. *)
Moves(t) ==
    /\ \E l \in Places : pc' = [pc EXCEPT ![t] = l]
    /\ \/ UNCHANGED poolVars
       \/ \E w \in Waits : Ask(t, w)
       \/ \E c \in Channels : Grant(t, c)
       \/ Refuse(t)
       \/ \E c \in Channels : GiveBack(t, c)

(* Where a client goes is a place. *)
LEMMA GotoPlace ==
    ASSUME PcType, NEW t \in Clients
    PROVE  /\ pc' = pc => \E l \in Places : pc' = [pc EXCEPT ![t] = l]
           /\ \A l \in Places : Goto(t, l) => \E m \in Places : pc' = [pc EXCEPT ![t] = m]
           /\ {"idle", "recv", "rx_buff", "send", "start", "arm", "wait", "done", "take", "open", "stream", "ask"} \subseteq Places
           /\ {"forever", "finite"} \subseteq Waits
  <1>1. pc' = pc => \E l \in Places : pc' = [pc EXCEPT ![t] = l]
    <2>1. pc[t] \in Places /\ pc = [pc EXCEPT ![t] = pc[t]]
      BY DEF PcType
    <2>2. QED
      BY <2>1
  <1>2. QED
    BY <1>1 DEF Goto, Places, Waits

(* The steps of the SPI driver. *)
LEMMA SpiMoves == ASSUME PcType, SpiAct PROVE Moves("spi")
  <1> USE GotoPlace
  <1>0. "spi" \in Clients
    BY DEF Clients
  <1>4. ASSUME NEW k \in Messages, SpiBegin(k) PROVE Moves("spi")
    <2>1. Ask("spi", "forever")
      BY <1>4 DEF SpiBegin
    <2>2. \E l \in Places : pc' = [pc EXCEPT !["spi"] = l]
      BY <1>0, <1>4 DEF SpiBegin
    <2>3. QED
      BY <1>0, <2>1, <2>2 DEF Moves
  <1>5. ASSUME NEW ok \in BOOLEAN, SpiRxBuff(ok) PROVE Moves("spi")
    <2>1. Ask("spi", "forever") \/ UNCHANGED poolVars
      BY <1>5 DEF SpiRxBuff
    <2>2. \E l \in Places : pc' = [pc EXCEPT !["spi"] = l]
      BY <1>0, <1>5 DEF SpiRxBuff
    <2>3. QED
      BY <1>0, <2>1, <2>2 DEF Moves
  <1>6. CASE SpiRegister \/ SpiStart
    BY <1>0, <1>6 DEF SpiRegister, SpiStart, Moves
  <1>7. CASE SpiWait
    BY <1>0, <1>7 DEF SpiWait, Moves
  <1>8. ASSUME NEW c \in Channels, SpiTransferEnds(c) PROVE Moves("spi")
    BY <1>0, <1>8 DEF SpiTransferEnds, Moves
  <1>9. ASSUME NEW c \in Channels, SpiRelease(c) PROVE Moves("spi")
    BY <1>0, <1>9 DEF SpiRelease, Moves
  <1>10. ASSUME NEW c \in Channels, SpiRecvChannel(c) PROVE Moves("spi")
    BY <1>0, <1>10 DEF SpiRecvChannel, Moves
  <1>11. ASSUME NEW c \in Channels, NEW ok \in BOOLEAN, SpiSendChannel(c, ok) PROVE Moves("spi")
    <2>1. \E l \in Places : pc' = [pc EXCEPT !["spi"] = l]
      BY <1>0, <1>11 DEF SpiSendChannel
    <2>2. QED
      BY <1>11, <2>1 DEF SpiSendChannel, Moves
  <1>12. QED
    BY <1>4, <1>5, <1>6, <1>7, <1>8, <1>9, <1>10, <1>11 DEF SpiAct, SpiStep, SpiGrant

(* The steps of the flash driver. *)
LEMMA FlashMoves == ASSUME PcType, FlashAct PROVE Moves("flash")
  <1> USE GotoPlace
  <1>0. "flash" \in Clients
    BY DEF Clients
  <1>1. CASE FlashBegin
    BY <1>0, <1>1 DEF FlashBegin, Moves
  <1>2. ASSUME NEW c \in Channels, FlashStart(c) PROVE Moves("flash")
    BY <1>0, <1>2 DEF FlashStart, Moves
  <1>3. ASSUME NEW c \in Channels, NEW s \in BOOLEAN, FlashTransferEnds(c, s) PROVE Moves("flash")
    BY <1>0, <1>3 DEF FlashTransferEnds, Moves
  <1>4. ASSUME NEW c \in Channels, FlashRelease(c) PROVE Moves("flash")
    BY <1>0, <1>4 DEF FlashRelease, Moves
  <1>5. QED
    BY <1>1, <1>2, <1>3, <1>4 DEF FlashAct, FlashStep, FlashGrant

(* The steps of the audio driver. *)
LEMMA I2sMoves == ASSUME PcType, I2sAct PROVE Moves("i2s")
  <1> USE GotoPlace
  <1>0. "i2s" \in Clients
    BY DEF Clients
  <1>1. CASE I2sBegin
    BY <1>0, <1>1 DEF I2sBegin, Moves
  <1>2. CASE I2sRefused
    BY <1>0, <1>2 DEF I2sRefused, Moves
  <1>3. ASSUME NEW c \in Channels, I2sStart(c) PROVE Moves("i2s")
    BY <1>0, <1>3 DEF I2sStart, Moves
  <1>4. ASSUME NEW c \in Channels, I2sStop(c) PROVE Moves("i2s")
    BY <1>0, <1>4 DEF I2sStop, Moves
  <1>5. CASE I2sFirst
    BY <1>0, <1>5 DEF I2sFirst, Moves
  <1>6. ASSUME NEW c \in Channels, NEW s \in BOOLEAN, I2sTransferEnds(c, s) PROVE Moves("i2s")
    BY <1>0, <1>6 DEF I2sTransferEnds, Moves
  <1>7. QED
    BY <1>1, <1>2, <1>3, <1>4, <1>5, <1>6 DEF I2sAct, I2sStep

(* The steps of a KPU run. *)
LEMMA KpuMoves == ASSUME PcType, KpuAct PROVE Moves("kpu")
  <1> USE GotoPlace
  <1>0. "kpu" \in Clients
    BY DEF Clients
  <1>1. CASE KpuBegin
    BY <1>0, <1>1 DEF KpuBegin, Moves
  <1>2. CASE KpuRefused
    BY <1>0, <1>2 DEF KpuRefused, Moves
  <1>3. CASE KpuReturns
    BY <1>0, <1>3 DEF KpuReturns, Moves
  <1>4. CASE KpuTimeOut
    BY <1>0, <1>4 DEF KpuTimeOut, Moves
  <1>5. ASSUME NEW j \in jobs, KpuDone(j) PROVE Moves("kpu")
    BY <1>0, <1>5 DEF KpuDone, Moves
  <1>6. ASSUME NEW c \in Channels, KpuRegister(c) \/ KpuStart(c) PROVE Moves("kpu")
    BY <1>0, <1>6 DEF KpuRegister, KpuStart, Moves
  <1>7. ASSUME NEW c \in Channels, KpuRelease(c) PROVE Moves("kpu")
    BY <1>0, <1>7 DEF KpuRelease, Moves
  <1>8. QED
    BY <1>1, <1>2, <1>3, <1>4, <1>5, <1>6, <1>7 DEF KpuAct, KpuStep

(* The steps of an FFT. *)
LEMMA FftMoves == ASSUME PcType, FftAct PROVE Moves("fft")
  <1> USE GotoPlace
  <1>0. "fft" \in Clients
    BY DEF Clients
  <1>1. CASE FftBegin
    BY <1>0, <1>1 DEF FftBegin, Moves
  <1>2. CASE FftRefused
    <2>1. \E l \in Places : pc' = [pc EXCEPT !["fft"] = l]
      BY <1>0, <1>2 DEF FftRefused
    <2>2. QED
      BY <1>2, <2>1 DEF FftRefused, Moves
  <1>3. CASE FftAsksRecv
    BY <1>0, <1>3 DEF FftAsksRecv, Moves
  <1>4. CASE FftWait
    BY <1>0, <1>4 DEF FftWait, Moves
  <1>5. ASSUME NEW c \in Channels, FftSendChannel(c) PROVE Moves("fft")
    BY <1>0, <1>5 DEF FftSendChannel, Moves
  <1>6. ASSUME NEW c \in Channels, FftStart(c) PROVE Moves("fft")
    BY <1>0, <1>6 DEF FftStart, Moves
  <1>7. ASSUME NEW c \in Channels, FftRelease(c) PROVE Moves("fft")
    <2>1. \E l \in Places : pc' = [pc EXCEPT !["fft"] = l]
      BY <1>0, <1>7 DEF FftRelease
    <2>2. QED
      BY <1>7, <2>1 DEF FftRelease, Moves
  <1>8. ASSUME NEW c \in Channels, NEW s \in BOOLEAN, FftTransferEnds(c, s) PROVE Moves("fft")
    BY <1>0, <1>8 DEF FftTransferEnds, Moves
  <1>9. QED
    BY <1>1, <1>2, <1>3, <1>4, <1>5, <1>6, <1>7, <1>8 DEF FftAct, FftStep

(* What follows for the rest of the pool. *)
LEMMA MovesFrame ==
    ASSUME HoldsType, AskType, PcType, NEW t \in Clients, Moves(t)
    PROVE  /\ HoldsType' /\ AskType' /\ PcType'
           /\ \A u \in Clients : u # t => pc'[u] = pc[u] /\ holds'[u] = holds[u]
  <1>1. PcType' /\ \A u \in Clients : u # t => pc'[u] = pc[u]
    BY DEF Moves, PcType
  <1>2. HoldsType' /\ \A u \in Clients : u # t => holds'[u] = holds[u]
    BY DEF Moves, HoldsType, Ask, Grant, Refuse, GiveBack, poolVars
  <1>3. AskType'
    BY DEF Moves, AskType, Ask, Grant, Refuse, GiveBack, poolVars
  <1>4. QED
    BY <1>1, <1>2, <1>3

----------------------------------------------------------------------------
(* What a step may do to the controller and to the KPU's state *)

\* The callback of a stream may program the channel of the stream at any end.
ArmsFor(t) == \A c \in Channels : armed'[c] \in {armed[c], None, t, "i2s"}
Registers(t) == \A c \in Channels : callback'[c] \in {callback[c], None, t}
KpuQuiet == UNCHANGED <<run, jobs, leaked>> /\ ((Post /\ spurious' = TRUE) \/ UNCHANGED <<k_sem, spurious>>)
SpiQuiet == UNCHANGED <<kind, recvChannel>>

(* The end of a transfer: the channel is free or the stream's. *)
LEMMA EndsEffect ==
    ASSUME DmacType, NEW t \in Clients, NEW c \in Channels, NEW s \in BOOLEAN, NEW due, Ends(t, c, s, due)
    PROVE  /\ ArmsFor(t) /\ Registers(t) /\ armed[c] = t /\ armed'[c] \in {None, "i2s"}
           /\ \A d \in Channels : d # c => armed'[d] \in {armed[d], "i2s"}
           /\ armed' \in [Channels -> Owners] /\ SpiQuiet
           /\ UNCHANGED <<callback, run, leaked>>
           /\ (Post /\ spurious' = (spurious \/ ~due)) \/ UNCHANGED <<k_sem, spurious>>
  <1>1. armed[c] = t /\ UNCHANGED <<callback, run, leaked>> /\ SpiQuiet
    BY DEF Ends, SpiQuiet
  <1>2. (Post /\ spurious' = (spurious \/ ~due)) \/ UNCHANGED <<k_sem, spurious>>
    BY DEF Ends
  <1>3. "i2s" \in Owners /\ None \in Owners
    BY DEF Owners, Clients
  <1>4. Rearm(c) \/ armed' = [armed EXCEPT ![c] = None]
    BY DEF Ends
  <1>5. /\ armed'[c] \in {None, "i2s"} /\ \A d \in Channels : d # c => armed'[d] \in {armed[d], "i2s"}
        /\ armed' \in [Channels -> Owners]
    BY <1>3, <1>4 DEF DmacType, Rearm
  <1>6. QED
    BY <1>1, <1>2, <1>5 DEF ArmsFor, Registers

(* A post at the end of a transfer that is not the KPU's is spurious. *)
LEMMA EndsQuiet ==
    ASSUME DmacType, NEW t \in Clients, NEW c \in Channels, NEW s \in BOOLEAN, Ends(t, c, s, FALSE), UNCHANGED jobs
    PROVE  KpuQuiet
  <1>1. (Post /\ spurious' = (spurious \/ ~FALSE)) \/ UNCHANGED <<k_sem, spurious>>
    BY DEF Ends
  <1>2. UNCHANGED <<run, leaked>>
    BY DEF Ends
  <1>3. QED
    BY <1>1, <1>2 DEF KpuQuiet

(* A channel is programmed. *)
LEMMA ArmEffect ==
    ASSUME DmacType, NEW t \in Clients, NEW S, Arm(S, t)
    PROVE  /\ ArmsFor(t) /\ armed' \in [Channels -> Owners]
           /\ \A d \in Channels : armed'[d] = IF d \in S THEN t ELSE armed[d]
  BY DEF Arm, ArmsFor, DmacType, Owners

(* Nothing is programmed. *)
LEMMA SameDmac ==
    ASSUME DmacType, NEW t, UNCHANGED armed
    PROVE  ArmsFor(t) /\ armed' \in [Channels -> Owners]
  BY DEF DmacType, ArmsFor

(* No callback is registered. *)
LEMMA SameCallback ==
    ASSUME DmacType, NEW t, UNCHANGED callback
    PROVE  Registers(t) /\ callback' \in [Channels -> Owners]
  BY DEF DmacType, Registers

(* The flash driver. *)
LEMMA FlashEffect ==
    ASSUME TypeOK, FlashAct
    PROVE  ArmsFor("flash") /\ Registers("flash") /\ DmacType' /\ KpuQuiet /\ SpiQuiet
  <1>0. DmacType /\ "flash" \in Clients
    BY TypeParts DEF Clients
  <1>1. CASE FlashBegin
    BY <1>0, <1>1, SameDmac, SameCallback
       DEF FlashBegin, dmacVars, kpuVars, spiVars, DmacType, KpuQuiet, SpiQuiet
  <1>2. ASSUME NEW c \in Channels, FlashStart(c) PROVE ArmsFor("flash") /\ Registers("flash") /\ DmacType' /\ KpuQuiet /\ SpiQuiet
    <2>1. Arm({c}, "flash") /\ UNCHANGED callback
      BY <1>2 DEF FlashStart
    <2>2. ArmsFor("flash") /\ Registers("flash") /\ DmacType'
      BY <1>0, <2>1, ArmEffect, SameCallback DEF DmacType
    <2>3. KpuQuiet /\ SpiQuiet
      BY <1>2 DEF FlashStart, kpuVars, spiVars, KpuQuiet, SpiQuiet
    <2>4. QED
      BY <2>2, <2>3
  <1>3. ASSUME NEW c \in Channels, NEW s \in BOOLEAN, FlashTransferEnds(c, s)
        PROVE  ArmsFor("flash") /\ Registers("flash") /\ DmacType' /\ KpuQuiet /\ SpiQuiet
    <2>1. Ends("flash", c, s, FALSE) /\ UNCHANGED jobs
      BY <1>3 DEF FlashTransferEnds
    <2>2. QED
      BY <1>0, <2>1, EndsEffect, EndsQuiet DEF DmacType
  <1>4. ASSUME NEW c \in Channels, FlashRelease(c) PROVE ArmsFor("flash") /\ Registers("flash") /\ DmacType' /\ KpuQuiet /\ SpiQuiet
    BY <1>0, <1>4, SameDmac, SameCallback
       DEF FlashRelease, dmacVars, kpuVars, spiVars, DmacType, KpuQuiet, SpiQuiet
  <1>5. QED
    BY <1>1, <1>2, <1>3, <1>4 DEF FlashAct, FlashStep, FlashGrant

(* The audio driver. *)
LEMMA I2sEffect ==
    ASSUME TypeOK, I2sAct
    PROVE  ArmsFor("i2s") /\ Registers("i2s") /\ DmacType' /\ KpuQuiet /\ SpiQuiet
  <1>0. DmacType /\ "i2s" \in Clients /\ "i2s" \in Owners /\ None \in Owners
    BY TypeParts DEF Clients, Owners
  <1>1. CASE I2sBegin \/ I2sRefused
    BY <1>0, <1>1, SameDmac, SameCallback
       DEF I2sBegin, I2sRefused, dmacVars, kpuVars, spiVars, DmacType, KpuQuiet, SpiQuiet
  <1>2. ASSUME NEW c \in Channels, I2sStart(c) PROVE ArmsFor("i2s") /\ Registers("i2s") /\ DmacType' /\ KpuQuiet /\ SpiQuiet
    <2>1. UNCHANGED armed /\ callback' = [callback EXCEPT ![c] = "i2s"]
      BY <1>2 DEF I2sStart
    <2>2. ArmsFor("i2s") /\ armed' \in [Channels -> Owners]
      BY <1>0, <2>1, SameDmac
    <2>3. Registers("i2s") /\ callback' \in [Channels -> Owners]
      BY <1>0, <2>1 DEF DmacType, Registers
    <2>4. KpuQuiet /\ SpiQuiet
      BY <1>2 DEF I2sStart, kpuVars, spiVars, KpuQuiet, SpiQuiet
    <2>5. QED
      BY <2>2, <2>3, <2>4 DEF DmacType
  <1>3. ASSUME NEW c \in Channels, I2sStop(c) PROVE ArmsFor("i2s") /\ Registers("i2s") /\ DmacType' /\ KpuQuiet /\ SpiQuiet
    BY <1>0, <1>3, SameDmac, SameCallback
       DEF I2sStop, dmacVars, kpuVars, spiVars, DmacType, KpuQuiet, SpiQuiet
  <1>4. CASE I2sFirst
    <2>1. Arm(holds["i2s"], "i2s") /\ UNCHANGED callback
      BY <1>4 DEF I2sFirst
    <2>2. ArmsFor("i2s") /\ Registers("i2s") /\ DmacType'
      BY <1>0, <2>1, ArmEffect, SameCallback DEF DmacType
    <2>3. KpuQuiet /\ SpiQuiet
      BY <1>4 DEF I2sFirst, kpuVars, spiVars, KpuQuiet, SpiQuiet
    <2>4. QED
      BY <2>2, <2>3
  <1>5. ASSUME NEW c \in Channels, NEW s \in BOOLEAN, I2sTransferEnds(c, s)
        PROVE  ArmsFor("i2s") /\ Registers("i2s") /\ DmacType' /\ KpuQuiet /\ SpiQuiet
    <2>1. Ends("i2s", c, s, FALSE) /\ UNCHANGED jobs
      BY <1>5 DEF I2sTransferEnds
    <2>2. QED
      BY <1>0, <2>1, EndsEffect, EndsQuiet DEF DmacType
  <1>6. QED
    BY <1>1, <1>2, <1>3, <1>4, <1>5 DEF I2sAct, I2sStep

(* The FFT. *)
LEMMA FftEffect ==
    ASSUME TypeOK, FftAct
    PROVE  ArmsFor("fft") /\ Registers("fft") /\ DmacType' /\ KpuQuiet /\ SpiQuiet
  <1>0. DmacType /\ "fft" \in Clients
    BY TypeParts DEF Clients
  <1>1. CASE FftBegin \/ FftRefused \/ FftAsksRecv \/ FftWait
    BY <1>0, <1>1, SameDmac, SameCallback
       DEF FftBegin, FftRefused, FftAsksRecv, FftWait, dmacVars, kpuVars, spiVars, DmacType, KpuQuiet, SpiQuiet
  <1>2. ASSUME NEW c \in Channels, FftSendChannel(c) \/ FftRelease(c)
        PROVE  ArmsFor("fft") /\ Registers("fft") /\ DmacType' /\ KpuQuiet /\ SpiQuiet
    BY <1>0, <1>2, SameDmac, SameCallback
       DEF FftSendChannel, FftRelease, dmacVars, kpuVars, spiVars, DmacType, KpuQuiet, SpiQuiet
  <1>3. ASSUME NEW c \in Channels, FftStart(c) PROVE ArmsFor("fft") /\ Registers("fft") /\ DmacType' /\ KpuQuiet /\ SpiQuiet
    <2>1. Arm(FftChannels, "fft") /\ UNCHANGED callback
      BY <1>3 DEF FftStart
    <2>2. ArmsFor("fft") /\ Registers("fft") /\ DmacType'
      BY <1>0, <2>1, ArmEffect, SameCallback DEF DmacType
    <2>3. KpuQuiet /\ SpiQuiet
      BY <1>3 DEF FftStart, kpuVars, spiVars, KpuQuiet, SpiQuiet
    <2>4. QED
      BY <2>2, <2>3
  <1>4. ASSUME NEW c \in Channels, NEW s \in BOOLEAN, FftTransferEnds(c, s)
        PROVE  ArmsFor("fft") /\ Registers("fft") /\ DmacType' /\ KpuQuiet /\ SpiQuiet
    <2>1. Ends("fft", c, s, FALSE) /\ UNCHANGED jobs
      BY <1>4 DEF FftTransferEnds
    <2>2. QED
      BY <1>0, <2>1, EndsEffect, EndsQuiet DEF DmacType
  <1>5. QED
    BY <1>1, <1>2, <1>3, <1>4 DEF FftAct, FftStep

----------------------------------------------------------------------------
(* The invariants of the clients *)

SpiInv ==
    /\ pc["spi"] = "idle" => holds["spi"] = {}
    /\ pc["spi"] \in {"recv", "rx_buff"} => "recv" \in kind
    /\ pc["spi"] = "rx_buff" => recvChannel \in holds["spi"]
    /\ pc["spi"] = "send" => ("recv" \in kind => recvChannel \in holds["spi"])
    /\ pc["spi"] \in {"start", "arm", "wait"} => Watched \in holds["spi"]

SpiArm == \A c \in Channels : armed[c] = "spi" => pc["spi"] = "wait" /\ c \in holds["spi"]

\* The callback of the transfer in progress, on the channel it watches.
SpiCb == \A c \in Channels : callback[c] = "spi" => pc["spi"] \in {"arm", "wait"} /\ c = Watched

FlashCl ==
    /\ pc["flash"] \in {"idle", "take"} => holds["flash"] = {}
    /\ pc["flash"] \in {"wait", "done"} => \E c \in Channels : holds["flash"] = {c}

FlashArm ==
    \A c \in Channels : armed[c] = "flash" => pc["flash"] = "wait" /\ c \in holds["flash"]

I2sCl ==
    /\ pc["i2s"] \in {"idle", "take"} => holds["i2s"] = {}
    /\ pc["i2s"] \in {"open", "stream"} => \E c \in Channels : holds["i2s"] = {c}

FftCl == pc["fft"] \in {"idle", "send"} => holds["fft"] = {}

LcdArm == \A c \in Channels : armed[c] # "lcd"

KpuCl ==
    /\ pc["kpu"] \in {"idle", "take"} => holds["kpu"] = leaked
    /\ pc["kpu"] \in {"arm", "wait", "done"} => \E c \in Channels \ leaked : holds["kpu"] = leaked \union {c}

\* Runs are numbered: no two outputs are missing under one number.
JobInv ==
    /\ \A j \in jobs : j.run <= run
    /\ \A i, j \in jobs : i.run = j.run => i = j

\* A transfer of the KPU belongs to the run in progress, whose output is
\* missing, or to one that timed out; a post of k_sem to the run in progress.
KpuArm ==
    ~spurious => \A c \in Channels : armed[c] = "kpu" =>
        /\ c \in holds["kpu"]
        /\ c \notin leaked => pc["kpu"] = "wait" /\ \E j \in jobs : j.run = run /\ j.channel = c
KpuSem ==
    ~spurious => /\ k_sem \in {0, 1}
                 /\ k_sem # 0 => pc["kpu"] = "wait" /\ \A j \in jobs : j.run # run

\* A run that is asking for its channel is within the bound.
KpuBounded == pc["kpu"] \in {"take", "arm"} => run < MaxRuns

ClientInv ==
    /\ SpiInv /\ SpiArm /\ SpiCb /\ FlashCl /\ FlashArm /\ I2sCl /\ FftCl /\ LcdArm
    /\ KpuCl /\ JobInv /\ KpuArm /\ KpuSem

(* A step of another client leaves the SPI driver's part alone. *)
LEMMA SpiFrame ==
    ASSUME ClientInv, NEW t \in Clients \ {"spi"}, Registers(t), ArmsFor(t), SpiQuiet, None \notin Clients,
           pc'["spi"] = pc["spi"], holds'["spi"] = holds["spi"]
    PROVE  SpiInv' /\ SpiArm' /\ SpiCb'
  <1>0. t # "spi" /\ None # "spi" /\ "spi" \in Clients
    BY DEF Clients
  <1>1. Watched' = Watched
    BY DEF Watched, SpiQuiet
  <1>2. SpiInv'
    BY <1>1 DEF ClientInv, SpiInv, SpiQuiet
  <1>3. SpiArm'
    BY <1>0 DEF ClientInv, SpiArm, ArmsFor
  <1>4. SpiCb'
    BY <1>0, <1>1 DEF ClientInv, SpiCb, Registers
  <1>5. QED
    BY <1>2, <1>3, <1>4

(* And the flash driver's, *)
LEMMA FlashFrame ==
    ASSUME ClientInv, NEW t \in Clients \ {"flash"}, ArmsFor(t), None \notin Clients,
           pc'["flash"] = pc["flash"], holds'["flash"] = holds["flash"]
    PROVE  FlashCl' /\ FlashArm'
  <1>0. t # "flash" /\ None # "flash"
    BY DEF Clients
  <1>1. QED
    BY <1>0 DEF ClientInv, FlashCl, FlashArm, ArmsFor

(* the audio driver's, *)
LEMMA I2sFrame ==
    ASSUME ClientInv, pc'["i2s"] = pc["i2s"], holds'["i2s"] = holds["i2s"]
    PROVE  I2sCl'
  BY DEF ClientInv, I2sCl

(* the KPU's, where posts from elsewhere count as spurious, *)
LEMMA KpuFrame ==
    ASSUME ClientInv, NEW t \in Clients \ {"kpu"}, ArmsFor(t), KpuQuiet, None \notin Clients,
           pc'["kpu"] = pc["kpu"], holds'["kpu"] = holds["kpu"]
    PROVE  KpuCl' /\ JobInv' /\ KpuArm' /\ KpuSem'
  <1>0. t # "kpu" /\ None # "kpu"
    BY DEF Clients
  <1>1. KpuCl'
    BY DEF ClientInv, KpuCl, KpuQuiet
  <1>2. JobInv'
    BY DEF ClientInv, JobInv, KpuQuiet
  <1>3. KpuArm'
    BY <1>0 DEF ClientInv, KpuArm, KpuQuiet, ArmsFor
  <1>4. KpuSem'
    BY DEF ClientInv, KpuSem, KpuQuiet
  <1>5. QED
    BY <1>1, <1>2, <1>3, <1>4

(* the FFT's and the screen's. *)
LEMMA FftFrame ==
    ASSUME ClientInv, pc'["fft"] = pc["fft"], holds'["fft"] = holds["fft"]
    PROVE  FftCl'
  BY DEF ClientInv, FftCl

(* No step programs a channel for the screen. *)
LEMMA LcdFrame ==
    ASSUME ClientInv, NEW t \in Clients \ {"lcd"}, ArmsFor(t), None \notin Clients
    PROVE  LcdArm'
  <1>0. t # "lcd" /\ None # "lcd"
    BY DEF Clients
  <1>1. QED
    BY <1>0 DEF ClientInv, LcdArm, ArmsFor

----------------------------------------------------------------------------
(* A client's own steps *)

(* What a step does to its own client. *)
LEMMA OwnEffect ==
    ASSUME TypeOK, NEW t \in Clients
    PROVE  /\ \A l : Goto(t, l) => pc'[t] = l
           /\ \A w : Ask(t, w) => holds'[t] = holds[t]
           /\ \A c \in Channels : Grant(t, c) => /\ holds'[t] = holds[t] \union {c}
                                              /\ \A u \in Clients : c \notin holds[u]
           /\ Refuse(t) => holds'[t] = holds[t]
           /\ \A c : GiveBack(t, c) => holds'[t] = holds[t] \ {c} /\ c \in holds[t]
  <1>1. HoldsType /\ PcType /\ Threads = Clients
    BY TypeParts, DmaClientsAssumption DEF DmaClientsAssumption
  <1>2. \A l : Goto(t, l) => pc'[t] = l
    BY <1>1 DEF Goto, PcType
  <1>3. \A c \in Channels : Grant(t, c) => /\ holds'[t] = holds[t] \union {c}
                                       /\ \A u \in Clients : c \notin holds[u]
    BY <1>1 DEF Grant, HoldsType
  <1>4. \A c : GiveBack(t, c) => holds'[t] = holds[t] \ {c} /\ c \in holds[t]
    BY <1>1 DEF GiveBack, HoldsType
  <1>5. QED
    BY <1>2, <1>3, <1>4 DEF Ask, Refuse

SpiOwn == SpiInv' /\ SpiArm' /\ SpiCb' /\ ArmsFor("spi") /\ DmacType' /\ KpuQuiet /\ SpiType'

(* drv_spi_xfer. *)
LEMMA SpiOwnStep == ASSUME TypeOK, ClientInv, SpiAct PROVE SpiOwn
  <1>0. /\ "spi" \in Clients /\ DmacType /\ SpiType /\ None \notin Clients /\ HoldsType
        /\ SpiInv /\ SpiArm /\ SpiCb /\ None # "spi" /\ "spi" \in Owners /\ None \in Owners
    BY TypeParts, DmaClientsAssumption DEF DmaClientsAssumption, Clients, ClientInv, Owners
  <1>1. ASSUME UNCHANGED <<armed, callback, run, jobs, leaked, k_sem, spurious>>,
               pc["spi"] \notin {"arm", "wait"}, SpiInv', SpiType'
        PROVE  SpiOwn
    <2>1. ArmsFor("spi") /\ DmacType' /\ KpuQuiet
      BY <1>0, <1>1 DEF ArmsFor, DmacType, KpuQuiet
    <2>2. SpiArm' /\ SpiCb'
      BY <1>0, <1>1 DEF SpiArm, SpiCb
    <2>3. QED
      BY <1>1, <2>1, <2>2 DEF SpiOwn
  <1>2. ASSUME NEW k \in Messages, SpiBegin(k) PROVE SpiOwn
    <2>1. /\ pc["spi"] = "idle" /\ kind' = k /\ UNCHANGED recvChannel
          /\ pc'["spi"] = (IF "recv" \in k THEN "recv" ELSE "send")
          /\ UNCHANGED <<armed, callback, run, jobs, leaked, k_sem, spurious>>
      BY <1>0, <1>2, OwnEffect DEF SpiBegin, dmacVars, kpuVars
    <2>2. SpiInv'
      BY <2>1 DEF SpiInv
    <2>3. SpiType'
      BY <1>0, <2>1 DEF SpiType, Messages
    <2>4. QED
      BY <1>1, <2>1, <2>2, <2>3
  <1>3. ASSUME NEW c \in Channels, SpiRecvChannel(c) PROVE SpiOwn
    <2>1. /\ pc["spi"] = "recv" /\ kind' = kind /\ recvChannel' = c /\ pc'["spi"] = "rx_buff"
          /\ holds'["spi"] = holds["spi"] \union {c}
          /\ UNCHANGED <<armed, callback, run, jobs, leaked, k_sem, spurious>>
      BY <1>0, <1>3, OwnEffect DEF SpiRecvChannel, dmacVars, kpuVars
    <2>2. SpiInv'
      BY <1>0, <2>1 DEF SpiInv
    <2>3. SpiType'
      BY <1>0, <2>1 DEF SpiType
    <2>4. QED
      BY <1>1, <2>1, <2>2, <2>3
  <1>4. ASSUME NEW ok \in BOOLEAN, SpiRxBuff(ok) PROVE SpiOwn
    <2>1. /\ pc["spi"] = "rx_buff" /\ UNCHANGED <<kind, recvChannel>>
          /\ pc'["spi"] \in {"send", "start", "done"}
          /\ holds'["spi"] = holds["spi"]
          /\ UNCHANGED <<armed, callback, run, jobs, leaked, k_sem, spurious>>
      BY <1>0, <1>4, OwnEffect DEF SpiRxBuff, dmacVars, kpuVars, spiVars, poolVars
    <2>2. Watched' \in holds'["spi"]
      BY <1>0, <2>1 DEF SpiInv, Watched
    <2>3. SpiInv'
      BY <1>0, <2>1, <2>2 DEF SpiInv
    <2>4. SpiType'
      BY <1>0, <2>1 DEF SpiType
    <2>5. QED
      BY <1>1, <2>1, <2>3, <2>4
  <1>5. ASSUME NEW c \in Channels, NEW ok \in BOOLEAN, SpiSendChannel(c, ok) PROVE SpiOwn
    <2>1. /\ pc["spi"] = "send" /\ UNCHANGED <<kind, recvChannel>>
          /\ pc'["spi"] \in {"start", "done"}
          /\ holds'["spi"] = holds["spi"] \union {c}
          /\ UNCHANGED <<armed, callback, run, jobs, leaked, k_sem, spurious>>
      BY <1>0, <1>5, OwnEffect DEF SpiSendChannel, dmacVars, kpuVars, spiVars
    <2>2. Watched' \in holds'["spi"]
      BY <1>0, <2>1 DEF SpiInv, Watched
    <2>3. SpiInv'
      BY <1>0, <2>1, <2>2 DEF SpiInv
    <2>4. SpiType'
      BY <1>0, <2>1 DEF SpiType
    <2>5. QED
      BY <1>1, <2>1, <2>3, <2>4
  <1>6. CASE SpiRegister
    <2>1. /\ pc["spi"] = "start" /\ pc'["spi"] = "arm"
          /\ callback' = [callback EXCEPT ![Watched] = "spi"]
          /\ UNCHANGED <<armed, holds, kind, recvChannel, run, jobs, leaked, k_sem, spurious>>
      BY <1>0, <1>6, OwnEffect DEF SpiRegister, poolVars, spiVars, kpuVars
    <2>2. Watched' = Watched /\ Watched \in holds["spi"] /\ Watched \in Channels
      BY <1>0, <2>1 DEF Watched, SpiInv, HoldsType
    <2>3. SpiInv' /\ SpiType'
      BY <1>0, <2>1, <2>2 DEF SpiInv, SpiType
    <2>4. SpiArm' /\ ArmsFor("spi") /\ KpuQuiet
      BY <1>0, <2>1 DEF SpiArm, ArmsFor, KpuQuiet
    <2>5. SpiCb' /\ DmacType'
      BY <1>0, <2>1, <2>2 DEF SpiCb, DmacType
    <2>6. QED
      BY <2>3, <2>4, <2>5 DEF SpiOwn
  <1>61. CASE SpiStart
    <2>1. /\ pc["spi"] = "arm" /\ pc'["spi"] = "wait" /\ Arm(holds["spi"], "spi")
          /\ UNCHANGED <<callback, holds, kind, recvChannel, run, jobs, leaked, k_sem, spurious>>
      BY <1>0, <1>61, OwnEffect DEF SpiStart, poolVars, spiVars, kpuVars
    <2>2. Watched' = Watched
      BY <2>1 DEF Watched
    <2>3. ArmsFor("spi") /\ armed' \in [Channels -> Owners]
          /\ \A d \in Channels : armed'[d] = IF d \in holds["spi"] THEN "spi" ELSE armed[d]
      BY <1>0, <2>1, ArmEffect
    <2>4. SpiInv' /\ SpiType'
      BY <1>0, <2>1, <2>2 DEF SpiInv, SpiType
    <2>5. SpiArm'
      BY <1>0, <2>1, <2>3 DEF SpiArm
    <2>6. SpiCb' /\ DmacType' /\ KpuQuiet
      BY <1>0, <2>1, <2>2, <2>3 DEF SpiCb, DmacType, KpuQuiet
    <2>7. QED
      BY <2>3, <2>4, <2>5, <2>6 DEF SpiOwn
  <1>7. ASSUME NEW c \in Channels, SpiTransferEnds(c) PROVE SpiOwn
    <2>1. Ends("spi", c, TRUE, FALSE) /\ UNCHANGED <<holds, pc, jobs>>
      BY <1>7 DEF SpiTransferEnds, poolVars
    <2>2. /\ ArmsFor("spi") /\ KpuQuiet /\ armed' \in [Channels -> Owners] /\ callback' = callback
          /\ armed[c] = "spi" /\ armed'[c] \in {None, "i2s"}
          /\ \A d \in Channels : d # c => armed'[d] \in {armed[d], "i2s"}
          /\ UNCHANGED <<kind, recvChannel>>
      BY <1>0, <2>1, EndsEffect, EndsQuiet DEF SpiQuiet
    <2>3. Watched' = Watched
      BY <2>1, <2>2 DEF Watched
    <2>4. SpiInv' /\ SpiType'
      BY <1>0, <2>1, <2>2, <2>3 DEF SpiInv, SpiType
    <2>5. SpiArm' /\ SpiCb'
      BY <1>0, <2>1, <2>2, <2>3 DEF SpiArm, SpiCb
    <2>6. QED
      BY <1>0, <2>2, <2>4, <2>5 DEF SpiOwn, DmacType
  <1>8. CASE SpiWait
    <2>1. /\ pc["spi"] = "wait" /\ pc'["spi"] = "done" /\ \A c \in Channels : armed[c] # "spi"
          /\ callback' = [callback EXCEPT ![Watched] = None]
          /\ UNCHANGED <<armed, holds, kind, recvChannel, run, jobs, leaked, k_sem, spurious>>
      BY <1>0, <1>8, OwnEffect DEF SpiWait, poolVars, kpuVars
    <2>2. ArmsFor("spi") /\ DmacType' /\ KpuQuiet
      BY <1>0, <2>1 DEF ArmsFor, DmacType, KpuQuiet
    <2>3. SpiInv' /\ SpiType'
      BY <1>0, <2>1 DEF SpiInv, SpiType
    <2>4. SpiArm'
      BY <2>1 DEF SpiArm
    <2>5. SpiCb'
      <3>1. \A c \in Channels : callback'[c] # "spi"
        BY <1>0, <2>1 DEF SpiCb, DmacType
      <3>2. QED
        BY <3>1 DEF SpiCb
    <2>6. QED
      BY <2>2, <2>3, <2>4, <2>5 DEF SpiOwn
  <1>9. ASSUME NEW c \in Channels, SpiRelease(c) PROVE SpiOwn
    <2>1. /\ pc["spi"] = "done" /\ holds'["spi"] = holds["spi"] \ {c}
          /\ UNCHANGED <<armed, callback, run, jobs, leaked, k_sem, spurious>>
      BY <1>0, <1>9, OwnEffect DEF SpiRelease, dmacVars, kpuVars
    <2>2. CASE holds["spi"] = {c}
      <3>1. pc'["spi"] = "idle" /\ kind' = {} /\ recvChannel' = None
        BY <1>0, <1>9, <2>2, OwnEffect DEF SpiRelease
      <3>2. SpiInv' /\ SpiType'
        BY <2>1, <2>2, <3>1 DEF SpiInv, SpiType
      <3>3. QED
        BY <1>1, <2>1, <3>2
    <2>3. CASE holds["spi"] # {c}
      <3>1. UNCHANGED <<pc, kind, recvChannel>>
        BY <1>9, <2>3 DEF SpiRelease
      <3>2. SpiInv' /\ SpiType'
        BY <1>0, <2>1, <3>1 DEF SpiInv, SpiType
      <3>3. QED
        BY <1>1, <2>1, <3>2
    <2>4. QED
      BY <2>2, <2>3
  <1>10. QED
    BY <1>2, <1>3, <1>4, <1>5, <1>6, <1>61, <1>7, <1>8, <1>9 DEF SpiAct, SpiStep, SpiGrant

(* Flash transfers. *)
LEMMA FlashOwnStep == ASSUME TypeOK, ClientInv, FlashAct PROVE FlashCl' /\ FlashArm'
  <1>0. "flash" \in Clients /\ DmacType /\ FlashCl /\ FlashArm /\ None # "flash"
    BY TypeParts, DmaClientsAssumption DEF DmaClientsAssumption, Clients, ClientInv
  <1>1. CASE FlashBegin
    <2>1. pc["flash"] = "idle" /\ pc'["flash"] = "take" /\ holds'["flash"] = holds["flash"] /\ armed' = armed
      BY <1>0, <1>1, OwnEffect DEF FlashBegin, dmacVars
    <2>2. QED
      BY <1>0, <2>1 DEF FlashCl, FlashArm
  <1>2. ASSUME NEW c \in Channels, FlashStart(c) PROVE FlashCl' /\ FlashArm'
    <2>1. /\ pc["flash"] = "take" /\ pc'["flash"] = "wait" /\ holds'["flash"] = holds["flash"] \union {c}
          /\ Arm({c}, "flash")
      BY <1>0, <1>2, OwnEffect DEF FlashStart
    <2>2. \A d \in Channels : armed'[d] = IF d \in {c} THEN "flash" ELSE armed[d]
      BY <1>0, <2>1, ArmEffect
    <2>3. holds'["flash"] = {c}
      BY <1>0, <2>1 DEF FlashCl
    <2>4. QED
      BY <1>0, <2>1, <2>2, <2>3 DEF FlashCl, FlashArm
  <1>3. ASSUME NEW c \in Channels, NEW s \in BOOLEAN, FlashTransferEnds(c, s) PROVE FlashCl' /\ FlashArm'
    <2>1. Ends("flash", c, s, FALSE) /\ pc'["flash"] = "done" /\ UNCHANGED holds
      BY <1>0, <1>3, OwnEffect DEF FlashTransferEnds, poolVars
    <2>2. /\ armed[c] = "flash" /\ armed'[c] \in {None, "i2s"}
          /\ \A d \in Channels : d # c => armed'[d] \in {armed[d], "i2s"}
      <3>1. armed[c] = "flash" /\ (Rearm(c) \/ armed' = [armed EXCEPT ![c] = None])
        BY <2>1 DEF Ends
      <3>2. QED
        BY <1>0, <3>1 DEF Rearm, DmacType
    <2>3. pc["flash"] = "wait" /\ holds["flash"] = {c}
      BY <1>0, <2>2 DEF FlashArm, FlashCl
    <2>4. \A d \in Channels : armed'[d] # "flash"
      BY <1>0, <2>2, <2>3 DEF FlashArm
    <2>5. QED
      BY <2>1, <2>3, <2>4 DEF FlashCl, FlashArm
  <1>4. ASSUME NEW c \in Channels, FlashRelease(c) PROVE FlashCl' /\ FlashArm'
    <2>1. /\ pc["flash"] = "done" /\ pc'["flash"] = "idle" /\ armed' = armed
          /\ holds'["flash"] = holds["flash"] \ {c} /\ c \in holds["flash"]
      BY <1>0, <1>4, OwnEffect DEF FlashRelease, dmacVars
    <2>2. holds'["flash"] = {}
      BY <1>0, <2>1 DEF FlashCl
    <2>3. QED
      BY <1>0, <2>1, <2>2 DEF FlashCl, FlashArm
  <1>5. QED
    BY <1>1, <1>2, <1>3, <1>4 DEF FlashAct, FlashStep, FlashGrant

(* Audio streams. *)
LEMMA I2sOwnStep == ASSUME TypeOK, ClientInv, I2sAct PROVE I2sCl'
  <1>0. "i2s" \in Clients /\ I2sCl
    BY DEF Clients, ClientInv
  <1>1. CASE I2sBegin \/ I2sRefused
    <2>1. /\ pc["i2s"] \in {"idle", "take"} /\ pc'["i2s"] \in {"idle", "take"}
          /\ holds'["i2s"] = holds["i2s"]
      BY <1>0, <1>1, OwnEffect DEF I2sBegin, I2sRefused
    <2>2. QED
      BY <1>0, <2>1 DEF I2sCl
  <1>2. ASSUME NEW c \in Channels, I2sStart(c) PROVE I2sCl'
    <2>1. pc["i2s"] = "take" /\ pc'["i2s"] = "open" /\ holds'["i2s"] = holds["i2s"] \union {c}
      BY <1>0, <1>2, OwnEffect DEF I2sStart
    <2>2. holds'["i2s"] = {c}
      BY <1>0, <2>1 DEF I2sCl
    <2>3. QED
      BY <2>1, <2>2 DEF I2sCl
  <1>3. CASE I2sFirst
    <2>1. pc["i2s"] = "open" /\ pc'["i2s"] = "stream" /\ holds'["i2s"] = holds["i2s"]
      BY <1>0, <1>3, OwnEffect DEF I2sFirst, poolVars
    <2>2. QED
      BY <1>0, <2>1 DEF I2sCl
  <1>4. ASSUME NEW c \in Channels, I2sStop(c) PROVE I2sCl'
    <2>1. /\ pc["i2s"] = "stream" /\ pc'["i2s"] = "idle"
          /\ holds'["i2s"] = holds["i2s"] \ {c} /\ c \in holds["i2s"]
      BY <1>0, <1>4, OwnEffect DEF I2sStop
    <2>2. holds'["i2s"] = {}
      BY <1>0, <2>1 DEF I2sCl
    <2>3. QED
      BY <2>1, <2>2 DEF I2sCl
  <1>5. ASSUME NEW c \in Channels, NEW s \in BOOLEAN, I2sTransferEnds(c, s) PROVE I2sCl'
    <2>1. UNCHANGED <<holds, pc>>
      BY <1>5 DEF I2sTransferEnds, poolVars
    <2>2. QED
      BY <1>0, <2>1 DEF I2sCl
  <1>6. QED
    BY <1>1, <1>2, <1>3, <1>4, <1>5 DEF I2sAct, I2sStep

(* FFTs: both error paths and the normal one give everything back. *)
LEMMA FftOwnStep == ASSUME TypeOK, ClientInv, FftAct PROVE FftCl'
  <1>0. "fft" \in Clients /\ FftCl
    BY DEF Clients, ClientInv
  <1>1. CASE FftBegin
    <2>1. pc["fft"] = "idle" /\ holds'["fft"] = holds["fft"]
      BY <1>0, <1>1, OwnEffect DEF FftBegin, PythonFree
    <2>2. QED
      BY <1>0, <2>1 DEF FftCl
  <1>2. CASE FftRefused
    <2>1. /\ pc["fft"] \in {"send", "recv"} /\ holds'["fft"] = holds["fft"]
          /\ pc'["fft"] = (IF pc["fft"] = "recv" THEN "done" ELSE "idle")
      BY <1>0, <1>2, OwnEffect DEF FftRefused
    <2>2. QED
      BY <1>0, <2>1 DEF FftCl
  <1>3. CASE FftAsksRecv
    <2>1. pc'["fft"] = "recv"
      BY <1>0, <1>3, OwnEffect DEF FftAsksRecv
    <2>2. QED
      BY <2>1 DEF FftCl
  <1>4. CASE FftWait
    <2>1. pc'["fft"] = "done"
      BY <1>0, <1>4, OwnEffect DEF FftWait
    <2>2. QED
      BY <2>1 DEF FftCl
  <1>5. ASSUME NEW c \in Channels, FftSendChannel(c) \/ FftStart(c) PROVE FftCl'
    <2>1. pc'["fft"] \in {"ask", "wait"}
      BY <1>0, <1>5, OwnEffect DEF FftSendChannel, FftStart
    <2>2. QED
      BY <2>1 DEF FftCl
  <1>6. ASSUME NEW c \in Channels, FftRelease(c) PROVE FftCl'
    <2>1. /\ pc'["fft"] = (IF holds["fft"] = {c} THEN "idle" ELSE "done")
          /\ holds'["fft"] = holds["fft"] \ {c}
      BY <1>0, <1>6, OwnEffect DEF FftRelease
    <2>2. QED
      BY <2>1 DEF FftCl
  <1>7. ASSUME NEW c \in Channels, NEW s \in BOOLEAN, FftTransferEnds(c, s) PROVE FftCl'
    <2>1. UNCHANGED <<holds, pc>>
      BY <1>7 DEF FftTransferEnds, poolVars
    <2>2. QED
      BY <1>0, <2>1 DEF FftCl
  <1>8. QED
    BY <1>1, <1>2, <1>3, <1>4, <1>5, <1>6, <1>7 DEF FftAct, FftStep

KpuOwn ==
    /\ KpuCl' /\ JobInv' /\ KpuArm' /\ KpuSem' /\ ArmsFor("kpu") /\ Registers("kpu") /\ DmacType' /\ SpiQuiet
    /\ RunType' /\ JobsType' /\ LeakType'

(* A run starts with a number that is new, on a channel that is not leaked. *)
LEMMA KpuStartStep ==
    ASSUME TypeOK, ClientInv, NEW c \in Channels, KpuStart(c), KpuBounded
    PROVE  KpuOwn
  <1>0. /\ "kpu" \in Clients /\ DmacType /\ KpuCl /\ JobInv /\ KpuArm /\ KpuSem /\ None # "kpu" /\ None \in Owners
        /\ "kpu" \in Owners /\ RunType /\ JobsType /\ LeakType
    BY TypeParts, DmaClientsAssumption DEF DmaClientsAssumption, Clients, ClientInv, Owners
  <1>1. /\ pc["kpu"] = "arm" /\ pc'["kpu"] = "wait" /\ Arm({c}, "kpu")
        /\ UNCHANGED <<callback, holds>> /\ c \in holds["kpu"] /\ c \notin leaked
    BY <1>0, OwnEffect DEF KpuStart, poolVars
  <1>2. /\ run' = run + 1 /\ jobs' = jobs \union {[run |-> run + 1, channel |-> c]}
        /\ UNCHANGED <<kind, recvChannel, k_sem, leaked, spurious>>
    BY DEF KpuStart, spiVars
  <1>3. run \in Nat /\ run + 1 \in 1..MaxRuns /\ MaxRuns \in Nat
    <2>1. run < MaxRuns
      BY <1>1 DEF KpuBounded
    <2>2. QED
      BY <1>0, <2>1, DmaClientsAssumption DEF DmaClientsAssumption, RunType
  <1>4. ArmsFor("kpu") /\ armed' \in [Channels -> Owners]
        /\ \A d \in Channels : armed'[d] = IF d \in {c} THEN "kpu" ELSE armed[d]
    BY <1>0, <1>1, ArmEffect
  <1>5. Registers("kpu") /\ callback' \in [Channels -> Owners]
    BY <1>0, <1>1 DEF DmacType, Registers
  <1>6. holds["kpu"] = leaked \union {c} /\ holds'["kpu"] = leaked' \union {c} /\ c \notin leaked'
    BY <1>0, <1>1, <1>2 DEF KpuCl
  <1>7. KpuCl' /\ LeakType'
    BY <1>1, <1>6 DEF KpuCl, LeakType
  <1>8. JobsType' /\ RunType'
    BY <1>0, <1>2, <1>3 DEF JobsType, RunType
  <1>9. \A j \in jobs : j.run \in Nat /\ j.run <= run /\ j.run # run + 1
    BY <1>0, <1>3 DEF JobInv, JobsType
  <1>10. JobInv'
    <2>1. \A j \in jobs' : j.run <= run'
      BY <1>2, <1>3, <1>9
    <2>2. ASSUME NEW i \in jobs', NEW j \in jobs', i.run = j.run PROVE i = j
      BY <1>0, <1>2, <1>9, <2>2 DEF JobInv
    <2>3. QED
      BY <2>1, <2>2 DEF JobInv
  <1>11. KpuArm'
    <2> SUFFICES ASSUME ~spurious, NEW d \in Channels, armed'[d] = "kpu"
                 PROVE  /\ d \in holds'["kpu"]
                        /\ d \notin leaked' => pc'["kpu"] = "wait" /\ \E j \in jobs' : j.run = run' /\ j.channel = d
      BY <1>2 DEF KpuArm
    <2>1. CASE d = c
      <3> DEFINE job == [run |-> run + 1, channel |-> c]
      <3>1. job \in jobs' /\ job.run = run' /\ job.channel = d
        BY <1>2, <2>1
      <3>2. QED
        BY <1>1, <1>6, <2>1, <3>1
    <2>2. CASE d # c
      <3>1. armed[d] = "kpu"
        BY <1>4, <2>2
      <3>2. d \in holds["kpu"]
        BY <1>0, <3>1 DEF KpuArm
      <3>3. QED
        BY <1>2, <1>6, <2>2, <3>2
    <2>3. QED
      BY <2>1, <2>2
  <1>12. KpuSem'
    BY <1>0, <1>1, <1>2 DEF KpuSem
  <1>13. QED
    BY <1>2, <1>4, <1>5, <1>7, <1>8, <1>10, <1>11, <1>12 DEF KpuOwn, DmacType, SpiQuiet

(* The output of a run is complete: of the run in progress, or the post is  *)
(* spurious.                                                                *)
LEMMA KpuDoneStep ==
    ASSUME TypeOK, ClientInv, NEW j \in jobs, KpuDone(j)
    PROVE  KpuOwn
  <1>0. /\ "kpu" \in Clients /\ DmacType /\ KpuCl /\ JobInv /\ KpuArm /\ KpuSem /\ None # "kpu"
        /\ None \in Owners /\ RunType /\ JobsType /\ LeakType
    BY TypeParts, DmaClientsAssumption DEF DmaClientsAssumption, Clients, ClientInv, Owners
  <1>1. j.channel \in Channels
    BY <1>0 DEF JobsType
  <1>2. /\ Ends("kpu", j.channel, TRUE, pc["kpu"] = "wait" /\ j.run = run)
        /\ jobs' = jobs \ {j} /\ UNCHANGED <<holds, pc>>
    BY DEF KpuDone, poolVars
  <1>3. /\ ArmsFor("kpu") /\ Registers("kpu") /\ armed'[j.channel] \in {None, "i2s"}
        /\ \A d \in Channels : d # j.channel => armed'[d] \in {armed[d], "i2s"}
        /\ armed' \in [Channels -> Owners] /\ SpiQuiet /\ UNCHANGED <<callback, run, leaked>>
        /\ \/ Post /\ spurious' = (spurious \/ ~(pc["kpu"] = "wait" /\ j.run = run))
           \/ UNCHANGED <<k_sem, spurious>>
    BY <1>0, <1>1, <1>2, EndsEffect
  <1>4. KpuCl' /\ LeakType' /\ JobsType' /\ DmacType'
    BY <1>0, <1>2, <1>3 DEF KpuCl, LeakType, JobsType, DmacType
  <1>5. RunType'
    BY <1>0, <1>3, DmaClientsAssumption DEF DmaClientsAssumption, RunType, Post
  <1>6. JobInv'
    BY <1>0, <1>2, <1>3 DEF JobInv
  <1>7. ~spurious' => ~spurious
    BY <1>3
  <1>8. KpuArm'
    <2> SUFFICES ASSUME ~spurious', NEW d \in Channels, armed'[d] = "kpu"
                 PROVE  /\ d \in holds'["kpu"]
                        /\ d \notin leaked' => pc'["kpu"] = "wait" /\ \E i \in jobs' : i.run = run' /\ i.channel = d
      BY DEF KpuArm
    <2>1. d # j.channel /\ armed[d] = "kpu"
      BY <1>0, <1>3
    <2>2. /\ d \in holds["kpu"]
          /\ d \notin leaked => pc["kpu"] = "wait" /\ \E i \in jobs : i.run = run /\ i.channel = d
      BY <1>0, <1>7, <2>1 DEF KpuArm
    <2>3. QED
      BY <1>2, <1>3, <2>1, <2>2
  <1>9. KpuSem'
    <2>1. CASE UNCHANGED <<k_sem, spurious>>
      BY <1>0, <1>2, <1>3, <2>1 DEF KpuSem
    <2>2. CASE Post /\ spurious' = (spurious \/ ~(pc["kpu"] = "wait" /\ j.run = run))
      <3> SUFFICES ASSUME ~spurious'
                   PROVE  k_sem' \in {0, 1} /\ pc'["kpu"] = "wait" /\ \A i \in jobs' : i.run # run'
        BY DEF KpuSem
      <3>1. ~spurious /\ pc["kpu"] = "wait" /\ j.run = run
        BY <2>2
      <3>2. k_sem = 0
        BY <1>0, <3>1 DEF KpuSem
      <3>3. k_sem' \in {0, 1}
        BY <2>2, <3>2 DEF Post
      <3>4. \A i \in jobs' : i.run # run'
        BY <1>0, <1>2, <1>3, <3>1 DEF JobInv
      <3>5. QED
        BY <1>2, <3>1, <3>3, <3>4
    <2>3. QED
      BY <1>3, <2>1, <2>2
  <1>10. QED
    BY <1>3, <1>4, <1>5, <1>6, <1>8, <1>9 DEF KpuOwn

(* py_kpu_run. *)
LEMMA KpuOwnStep == ASSUME TypeOK, ClientInv, KpuBounded, KpuAct PROVE KpuOwn
  <1>0. /\ "kpu" \in Clients /\ DmacType /\ KpuCl /\ JobInv /\ KpuArm /\ KpuSem
        /\ RunType /\ JobsType /\ LeakType
    BY TypeParts DEF Clients, ClientInv
  <1>1. ASSUME UNCHANGED <<armed, callback, kind, recvChannel, run, jobs>>,
               KpuCl', KpuArm', KpuSem', LeakType', k_sem' \in 0..SemMax
        PROVE  KpuOwn
    <2>1. ArmsFor("kpu") /\ Registers("kpu") /\ DmacType' /\ SpiQuiet
      BY <1>0, <1>1 DEF ArmsFor, Registers, DmacType, SpiQuiet
    <2>2. RunType' /\ JobsType' /\ JobInv'
      BY <1>0, <1>1 DEF RunType, JobsType, JobInv
    <2>3. QED
      BY <1>1, <2>1, <2>2 DEF KpuOwn
  <1>2. CASE KpuBegin \/ KpuRefused
    <2>1. /\ pc["kpu"] \in {"idle", "take"} /\ pc'["kpu"] \in {"idle", "take"} /\ holds'["kpu"] = holds["kpu"]
          /\ UNCHANGED <<armed, callback, kind, recvChannel, run, jobs, leaked, k_sem, spurious>>
      BY <1>0, <1>2, OwnEffect DEF KpuBegin, KpuRefused, PythonFree, dmacVars, spiVars, kpuVars
    <2>2. KpuCl' /\ LeakType'
      BY <1>0, <2>1 DEF KpuCl, LeakType
    <2>3. KpuArm' /\ KpuSem'
      BY <1>0, <2>1 DEF KpuArm, KpuSem
    <2>4. k_sem' \in 0..SemMax
      BY <1>0, <2>1 DEF RunType
    <2>5. QED
      BY <1>1, <2>1, <2>2, <2>3, <2>4
  <1>21. ASSUME NEW c \in Channels, KpuRegister(c) PROVE KpuOwn
    <2>1. /\ pc["kpu"] = "take" /\ pc'["kpu"] = "arm" /\ callback' = [callback EXCEPT ![c] = "kpu"]
          /\ holds'["kpu"] = holds["kpu"] \union {c} /\ c \notin holds["kpu"]
          /\ UNCHANGED <<armed, kind, recvChannel, run, jobs, leaked, k_sem, spurious>>
      BY <1>0, <1>21, OwnEffect DEF KpuRegister, spiVars, kpuVars
    <2>2. holds["kpu"] = leaked
      BY <1>0, <2>1 DEF KpuCl
    <2>3. KpuCl' /\ LeakType'
      BY <2>1, <2>2 DEF KpuCl, LeakType
    <2>4. KpuArm' /\ KpuSem'
      BY <1>0, <2>1, <2>2 DEF KpuArm, KpuSem
    <2>5. Registers("kpu") /\ DmacType'
      <3>1. "kpu" \in Owners
        BY DEF Owners, Clients
      <3>2. QED
        BY <1>0, <2>1, <3>1 DEF Registers, DmacType
    <2>6. ArmsFor("kpu") /\ SpiQuiet
      BY <1>0, <2>1 DEF ArmsFor, SpiQuiet
    <2>7. RunType' /\ JobsType' /\ JobInv'
      BY <1>0, <2>1 DEF RunType, JobsType, JobInv
    <2>8. QED
      BY <2>3, <2>4, <2>5, <2>6, <2>7 DEF KpuOwn
  <1>3. CASE KpuReturns
    <2>1. /\ pc["kpu"] = "wait" /\ pc'["kpu"] = "done" /\ UNCHANGED holds
          /\ UNCHANGED <<armed, callback, kind, recvChannel, run, jobs, leaked, spurious>>
      BY <1>0, <1>3, OwnEffect DEF KpuReturns, dmacVars, spiVars, poolVars
    <2>2. k_sem > 0 /\ k_sem' = k_sem - 1
      BY <1>3 DEF KpuReturns
    <2>3. KpuCl' /\ LeakType'
      BY <1>0, <2>1 DEF KpuCl, LeakType
    <2>4. k_sem # 0 /\ k_sem' \in 0..SemMax /\ (k_sem \in {0, 1} => k_sem' = 0)
      BY <1>0, <2>2, DmaClientsAssumption DEF DmaClientsAssumption, RunType
    <2>5. KpuSem'
      BY <1>0, <2>1, <2>4 DEF KpuSem
    <2>6. ~spurious => \A j \in jobs : j.run # run
      BY <1>0, <2>4 DEF KpuSem
    <2>7. KpuArm'
      BY <1>0, <2>1, <2>6 DEF KpuArm
    <2>8. QED
      BY <1>1, <2>1, <2>3, <2>4, <2>5, <2>7
  <1>4. CASE KpuTimeOut
    <2>1. /\ pc["kpu"] = "wait" /\ pc'["kpu"] = "idle" /\ leaked' = leaked \union holds["kpu"] /\ UNCHANGED holds
          /\ UNCHANGED <<armed, callback, kind, recvChannel, run, jobs, k_sem, spurious>>
      BY <1>0, <1>4, OwnEffect DEF KpuTimeOut, dmacVars, spiVars, poolVars
    <2>2. leaked' = holds["kpu"] /\ k_sem = 0
      BY <1>0, <1>4, <2>1 DEF LeakType, KpuTimeOut
    <2>3. KpuCl' /\ LeakType'
      BY <2>1, <2>2 DEF KpuCl, LeakType
    <2>4. KpuArm' /\ KpuSem'
      BY <1>0, <2>1, <2>2 DEF KpuArm, KpuSem
    <2>5. k_sem' \in 0..SemMax
      BY <1>0, <2>1 DEF RunType
    <2>6. QED
      BY <1>1, <2>1, <2>3, <2>4, <2>5
  <1>5. ASSUME NEW c \in Channels, KpuRelease(c) PROVE KpuOwn
    <2>1. /\ pc["kpu"] = "done" /\ pc'["kpu"] = "idle" /\ c \notin leaked
          /\ holds'["kpu"] = holds["kpu"] \ {c} /\ c \in holds["kpu"]
          /\ UNCHANGED <<armed, callback, kind, recvChannel, run, jobs, k_sem, spurious, leaked>>
      BY <1>0, <1>5, OwnEffect DEF KpuRelease, dmacVars, spiVars, kpuVars
    <2>2. holds'["kpu"] = leaked
      BY <1>0, <2>1 DEF KpuCl
    <2>3. KpuCl' /\ LeakType'
      BY <2>1, <2>2 DEF KpuCl, LeakType
    <2>4. KpuArm' /\ KpuSem'
      BY <1>0, <2>1, <2>2 DEF KpuArm, KpuSem
    <2>5. k_sem' \in 0..SemMax
      BY <1>0, <2>1 DEF RunType
    <2>6. QED
      BY <1>1, <2>1, <2>3, <2>4, <2>5
  <1>6. QED
    BY <1>2, <1>21, <1>3, <1>4, <1>5, KpuStartStep, KpuDoneStep DEF KpuAct, KpuStep

(* The steps of the others leave the bound and the types of the KPU alone. *)
LEMMA KpuTypeFrame ==
    ASSUME RunType, JobsType, LeakType, KpuBounded, KpuQuiet,
           pc'["kpu"] = pc["kpu"], holds'["kpu"] = holds["kpu"]
    PROVE  RunType' /\ JobsType' /\ LeakType' /\ KpuBounded'
  <1>1. k_sem' \in 0..SemMax
    BY DmaClientsAssumption DEF DmaClientsAssumption, RunType, KpuQuiet, Post
  <1>2. QED
    BY <1>1 DEF RunType, JobsType, LeakType, KpuBounded, KpuQuiet

(* A run asks for its channel below the bound and counts when it has it. *)
LEMMA KpuBoundStep == ASSUME TypeOK, KpuBounded, KpuAct PROVE KpuBounded'
  <1>0. "kpu" \in Clients
    BY DEF Clients
  <1>1. CASE KpuBegin
    BY <1>1 DEF KpuBegin, KpuBounded, kpuVars
  <1>2. CASE KpuRefused \/ KpuReturns \/ KpuTimeOut
    <2>1. pc'["kpu"] \notin {"take", "arm"}
      BY <1>0, <1>2, OwnEffect DEF KpuRefused, KpuReturns, KpuTimeOut
    <2>2. QED
      BY <2>1 DEF KpuBounded
  <1>3. ASSUME NEW j \in jobs, KpuDone(j) PROVE KpuBounded'
    BY <1>3 DEF KpuDone, KpuBounded, Ends
  <1>4. ASSUME NEW c \in Channels, KpuStart(c) \/ KpuRelease(c) PROVE KpuBounded'
    <2>1. pc'["kpu"] \notin {"take", "arm"}
      BY <1>0, <1>4, OwnEffect DEF KpuStart, KpuRelease
    <2>2. QED
      BY <2>1 DEF KpuBounded
  <1>5. ASSUME NEW c \in Channels, KpuRegister(c) PROVE KpuBounded'
    BY <1>5 DEF KpuRegister, KpuBounded, kpuVars
  <1>6. QED
    BY <1>1, <1>2, <1>3, <1>4, <1>5 DEF KpuAct, KpuStep

----------------------------------------------------------------------------
(* The invariant *)

IInv == TypeOK /\ ClientInv /\ KpuBounded

(* At the start a screen holds its channel, if there is one, and nothing runs. *)
LEMMA InitInv == Init => IInv
  <1> SUFFICES ASSUME Init PROVE IInv
    OBVIOUS
  <1>0. /\ None \notin Clients /\ MaxRuns \in Nat /\ SemMax \in Nat
        /\ "lcd" \in Clients /\ "spi" \in Clients /\ "kpu" \in Clients /\ "i2s" \in Clients
        /\ "flash" \in Clients /\ "fft" \in Clients
    BY DmaClientsAssumption DEF DmaClientsAssumption, Clients
  <1>b. PICK b \in Boards :
            /\ holds = [t \in Clients |-> IF t = "lcd" THEN b.screen ELSE {}]
            /\ run = b.run
    BY DEF Init
  <1>c. b.screen \subseteq Channels /\ b.run \in 0..MaxRuns
    BY <1>b, DmaClientsAssumption DEF DmaClientsAssumption
  <1>1. /\ \A t \in Clients : pc[t] = "idle"
        /\ \A t \in Clients : t # "lcd" => holds[t] = {}
        /\ \A c \in Channels : armed[c] = None /\ callback[c] = None
        /\ kind = {} /\ recvChannel = None /\ k_sem = 0 /\ run \in 0..MaxRuns /\ jobs = {} /\ leaked = {}
    BY <1>b, <1>c DEF Init
  <1>2. HoldsType /\ AskType /\ PcType /\ DmacType
    BY <1>0, <1>b, <1>c DEF Init, HoldsType, AskType, PcType, DmacType, Places, Owners
  <1>3. SpiType /\ RunType /\ JobsType /\ LeakType
    BY <1>0, <1>1 DEF SpiType, RunType, JobsType, LeakType
  <1>4. SpiInv /\ FlashCl /\ I2sCl /\ FftCl /\ KpuCl /\ JobInv /\ KpuSem /\ KpuBounded
    BY <1>0, <1>1 DEF SpiInv, FlashCl, I2sCl, FftCl, KpuCl, JobInv, KpuSem, KpuBounded
  <1>5. SpiArm /\ SpiCb /\ FlashArm /\ LcdArm /\ KpuArm
    BY <1>0, <1>1 DEF SpiArm, SpiCb, FlashArm, LcdArm, KpuArm
  <1>6. QED
    BY <1>2, <1>3, <1>4, <1>5, TypeParts DEF IInv, ClientInv

(* Every step preserves it: its own part by the client's lemma, the parts of *)
(* the others because the step leaves their channels and places alone.       *)
LEMMA StepInv == IInv /\ [Next]_vars => IInv'
  <1> SUFFICES ASSUME IInv, [Next]_vars PROVE IInv'
    OBVIOUS
  <1>0. /\ TypeOK /\ ClientInv /\ KpuBounded /\ HoldsType /\ AskType /\ PcType /\ SpiType
        /\ RunType /\ JobsType /\ LeakType /\ None \notin Clients
    BY TypeParts, DmaClientsAssumption DEF IInv, DmaClientsAssumption
  <1>01. /\ "lcd" \in Clients /\ "spi" \in Clients /\ "kpu" \in Clients /\ "i2s" \in Clients
         /\ "flash" \in Clients /\ "fft" \in Clients
    BY DEF Clients
  <1>02. ASSUME SpiQuiet PROVE SpiType'
    BY <1>0, <1>02 DEF SpiQuiet, SpiType
  <1>1. CASE SpiAct
    <2>1. /\ HoldsType' /\ AskType' /\ PcType'
          /\ \A u \in Clients : u # "spi" => pc'[u] = pc[u] /\ holds'[u] = holds[u]
      BY <1>0, <1>01, <1>1, SpiMoves, MovesFrame
    <2>2. SpiOwn
      BY <1>0, <1>1, SpiOwnStep
    <2>3. /\ ArmsFor("spi") /\ DmacType' /\ KpuQuiet /\ SpiType'
          /\ SpiInv' /\ SpiArm' /\ SpiCb'
      BY <2>2 DEF SpiOwn
    <2>4. FlashCl' /\ FlashArm'
      BY <1>0, <1>01, <2>1, <2>3, FlashFrame
    <2>5. I2sCl'
      BY <1>0, <1>01, <2>1, <2>3, I2sFrame
    <2>6. KpuCl' /\ JobInv' /\ KpuArm' /\ KpuSem'
      BY <1>0, <1>01, <2>1, <2>3, KpuFrame
    <2>7. FftCl'
      BY <1>0, <1>01, <2>1, <2>3, FftFrame
    <2>8. LcdArm'
      BY <1>0, <1>01, <2>3, LcdFrame
    <2>9. RunType' /\ JobsType' /\ LeakType' /\ KpuBounded'
      BY <1>0, <1>01, <2>1, <2>3, KpuTypeFrame
    <2>10. TypeOK'
      BY <2>1, <2>2, <2>3, <2>4, <2>5, <2>6, <2>7, <2>8, <2>9, TypePartsAfter
    <2>11. QED
      BY <2>1, <2>2, <2>3, <2>4, <2>5, <2>6, <2>7, <2>8, <2>9, <2>10 DEF IInv, ClientInv
  <1>2. CASE FlashAct
    <2>1. /\ HoldsType' /\ AskType' /\ PcType'
          /\ \A u \in Clients : u # "flash" => pc'[u] = pc[u] /\ holds'[u] = holds[u]
      BY <1>0, <1>01, <1>2, FlashMoves, MovesFrame
    <2>2. FlashCl' /\ FlashArm'
      BY <1>0, <1>2, FlashOwnStep
    <2>3. ArmsFor("flash") /\ Registers("flash") /\ DmacType' /\ KpuQuiet /\ SpiQuiet /\ SpiType'
      BY <1>0, <1>02, <1>2, FlashEffect
    <2>4. SpiInv' /\ SpiArm' /\ SpiCb'
      BY <1>0, <1>01, <2>1, <2>3, SpiFrame
    <2>5. I2sCl'
      BY <1>0, <1>01, <2>1, <2>3, I2sFrame
    <2>6. KpuCl' /\ JobInv' /\ KpuArm' /\ KpuSem'
      BY <1>0, <1>01, <2>1, <2>3, KpuFrame
    <2>7. FftCl'
      BY <1>0, <1>01, <2>1, <2>3, FftFrame
    <2>8. LcdArm'
      BY <1>0, <1>01, <2>3, LcdFrame
    <2>9. RunType' /\ JobsType' /\ LeakType' /\ KpuBounded'
      BY <1>0, <1>01, <2>1, <2>3, KpuTypeFrame
    <2>10. TypeOK'
      BY <2>1, <2>2, <2>3, <2>4, <2>5, <2>6, <2>7, <2>8, <2>9, TypePartsAfter
    <2>11. QED
      BY <2>1, <2>2, <2>3, <2>4, <2>5, <2>6, <2>7, <2>8, <2>9, <2>10 DEF IInv, ClientInv
  <1>3. CASE I2sAct
    <2>1. /\ HoldsType' /\ AskType' /\ PcType'
          /\ \A u \in Clients : u # "i2s" => pc'[u] = pc[u] /\ holds'[u] = holds[u]
      BY <1>0, <1>01, <1>3, I2sMoves, MovesFrame
    <2>2. I2sCl'
      BY <1>0, <1>3, I2sOwnStep
    <2>3. ArmsFor("i2s") /\ Registers("i2s") /\ DmacType' /\ KpuQuiet /\ SpiQuiet /\ SpiType'
      BY <1>0, <1>02, <1>3, I2sEffect
    <2>4. SpiInv' /\ SpiArm' /\ SpiCb'
      BY <1>0, <1>01, <2>1, <2>3, SpiFrame
    <2>5. FlashCl' /\ FlashArm'
      BY <1>0, <1>01, <2>1, <2>3, FlashFrame
    <2>6. KpuCl' /\ JobInv' /\ KpuArm' /\ KpuSem'
      BY <1>0, <1>01, <2>1, <2>3, KpuFrame
    <2>7. FftCl'
      BY <1>0, <1>01, <2>1, <2>3, FftFrame
    <2>8. LcdArm'
      BY <1>0, <1>01, <2>3, LcdFrame
    <2>9. RunType' /\ JobsType' /\ LeakType' /\ KpuBounded'
      BY <1>0, <1>01, <2>1, <2>3, KpuTypeFrame
    <2>10. TypeOK'
      BY <2>1, <2>2, <2>3, <2>4, <2>5, <2>6, <2>7, <2>8, <2>9, TypePartsAfter
    <2>11. QED
      BY <2>1, <2>2, <2>3, <2>4, <2>5, <2>6, <2>7, <2>8, <2>9, <2>10 DEF IInv, ClientInv
  <1>4. CASE KpuAct
    <2>1. /\ HoldsType' /\ AskType' /\ PcType'
          /\ \A u \in Clients : u # "kpu" => pc'[u] = pc[u] /\ holds'[u] = holds[u]
      BY <1>0, <1>01, <1>4, KpuMoves, MovesFrame
    <2>2. KpuOwn /\ KpuBounded'
      BY <1>0, <1>4, KpuOwnStep, KpuBoundStep
    <2>3. /\ ArmsFor("kpu") /\ Registers("kpu") /\ DmacType' /\ SpiQuiet /\ SpiType' /\ RunType' /\ JobsType' /\ LeakType'
          /\ KpuCl' /\ JobInv' /\ KpuArm' /\ KpuSem'
      BY <1>02, <2>2 DEF KpuOwn
    <2>4. SpiInv' /\ SpiArm' /\ SpiCb'
      BY <1>0, <1>01, <2>1, <2>3, SpiFrame
    <2>5. FlashCl' /\ FlashArm'
      BY <1>0, <1>01, <2>1, <2>3, FlashFrame
    <2>6. I2sCl'
      BY <1>0, <1>01, <2>1, <2>3, I2sFrame
    <2>7. FftCl'
      BY <1>0, <1>01, <2>1, <2>3, FftFrame
    <2>8. LcdArm'
      BY <1>0, <1>01, <2>3, LcdFrame
    <2>9. TypeOK'
      BY <2>1, <2>2, <2>3, <2>4, <2>5, <2>6, <2>7, <2>8, TypePartsAfter
    <2>10. QED
      BY <2>1, <2>2, <2>3, <2>4, <2>5, <2>6, <2>7, <2>8, <2>9 DEF IInv, ClientInv
  <1>5. CASE FftAct
    <2>1. /\ HoldsType' /\ AskType' /\ PcType'
          /\ \A u \in Clients : u # "fft" => pc'[u] = pc[u] /\ holds'[u] = holds[u]
      BY <1>0, <1>01, <1>5, FftMoves, MovesFrame
    <2>2. FftCl'
      BY <1>0, <1>5, FftOwnStep
    <2>3. ArmsFor("fft") /\ Registers("fft") /\ DmacType' /\ KpuQuiet /\ SpiQuiet /\ SpiType'
      BY <1>0, <1>02, <1>5, FftEffect
    <2>4. SpiInv' /\ SpiArm' /\ SpiCb'
      BY <1>0, <1>01, <2>1, <2>3, SpiFrame
    <2>5. FlashCl' /\ FlashArm'
      BY <1>0, <1>01, <2>1, <2>3, FlashFrame
    <2>6. I2sCl'
      BY <1>0, <1>01, <2>1, <2>3, I2sFrame
    <2>7. KpuCl' /\ JobInv' /\ KpuArm' /\ KpuSem'
      BY <1>0, <1>01, <2>1, <2>3, KpuFrame
    <2>8. LcdArm'
      BY <1>0, <1>01, <2>3, LcdFrame
    <2>9. RunType' /\ JobsType' /\ LeakType' /\ KpuBounded'
      BY <1>0, <1>01, <2>1, <2>3, KpuTypeFrame
    <2>10. TypeOK'
      BY <2>1, <2>2, <2>3, <2>4, <2>5, <2>6, <2>7, <2>8, <2>9, TypePartsAfter
    <2>11. QED
      BY <2>1, <2>2, <2>3, <2>4, <2>5, <2>6, <2>7, <2>8, <2>9, <2>10 DEF IInv, ClientInv
  <1>6. CASE UNCHANGED vars
    <2>1. UNCHANGED <<holds, asking, pc, kind, recvChannel, armed, callback, k_sem, run, jobs, leaked, spurious>>
      BY <1>6 DEF vars, poolVars, spiVars, dmacVars, kpuVars
    <2>2. TypeOK'
      BY <1>0, <2>1 DEF TypeOK, PoolTypeOK
    <2>3. Watched' = Watched
      BY <2>1 DEF Watched
    <2>4. SpiInv' /\ SpiArm' /\ SpiCb' /\ FlashCl' /\ FlashArm' /\ I2sCl' /\ FftCl' /\ LcdArm'
      BY <1>0, <2>1, <2>3 DEF ClientInv, SpiInv, SpiArm, SpiCb, FlashCl, FlashArm, I2sCl, FftCl, LcdArm
    <2>5. KpuCl' /\ JobInv' /\ KpuArm' /\ KpuSem' /\ KpuBounded'
      BY <1>0, <2>1 DEF ClientInv, KpuCl, JobInv, KpuArm, KpuSem, KpuBounded
    <2>6. QED
      BY <2>2, <2>4, <2>5 DEF IInv, ClientInv
  <1>7. QED
    BY <1>1, <1>2, <1>3, <1>4, <1>5, <1>6 DEF Next, SpiAct, FlashAct, I2sAct, KpuAct, FftAct

(* The invariant holds throughout. *)
LEMMA Invariance == Spec => []IInv
  BY InitInv, StepInv, PTL DEF Spec

----------------------------------------------------------------------------
(* Types, for any number of channels and runs: k_sem stays within the       *)
(* semaphore's range and only channels the KPU still holds count as leaked. *)
THEOREM TypeCorrect == Spec => []TypeOK
  <1>1. IInv => TypeOK
    BY DEF IInv
  <1>2. QED
    BY <1>1, Invariance, PTL

(* Between calls every client has given back all it took, whatever failed   *)
(* in between, apart from KPU runs that timed out.                          *)
THEOREM CallsGiveBack == Spec => []Accounted
  <1>1. IInv => Accounted
    BY DEF IInv, ClientInv, Accounted, SpiInv, FlashCl, I2sCl, FftCl, KpuCl
  <1>2. QED
    BY <1>1, Invariance, PTL

(* No channel is given back under an SPI, flash or KPU transfer that still  *)
(* uses it, and no callback of a stopped stream takes one over, as long as  *)
(* k_sem is only posted by the run in progress.                             *)
THEOREM TransfersOnHeldChannels == Spec => []ArmedIsHeld
  <1>1. IInv => ArmedIsHeld
    BY DEF IInv, ClientInv, SpiArm, FlashArm, KpuArm, ArmedIsHeld
  <1>2. QED
    BY <1>1, Invariance, PTL

(* The callback of an SPI transfer is gone before its channel is.           *)
THEOREM SpiCallbackGone == Spec => []SpiCallbackClean
  <1>1. IInv => SpiCallbackClean
    BY DEF IInv, ClientInv, SpiCb, SpiInv, SpiCallbackClean
  <1>2. QED
    BY <1>1, Invariance, PTL

(* py_kpu_run returns with its output there, or k_sem was posted by another. *)
THEOREM KpuResultThere == Spec => KpuReturnsResult
  <1> DEFINE Returns == pc["kpu"] = "wait" /\ pc'["kpu"] = "done" /\ ~spurious
                            => \A j \in jobs : j.run # run
  <1>1. IInv /\ [Next]_vars => [Returns]_vars
    <2> SUFFICES ASSUME IInv, Next, pc["kpu"] = "wait", pc'["kpu"] = "done", ~spurious
                 PROVE  \A j \in jobs : j.run # run
      OBVIOUS
    <2>0. TypeOK /\ HoldsType /\ AskType /\ PcType /\ KpuSem /\ RunType /\ "kpu" \in Clients
      BY TypeParts DEF IInv, ClientInv, Clients
    <2>1. ASSUME NEW t \in Clients \ {"kpu"}, Moves(t) PROVE FALSE
      BY <2>0, <2>1, MovesFrame
    <2>2. KpuAct
      <3>1. "spi" \in Clients \ {"kpu"} /\ "flash" \in Clients \ {"kpu"} /\ "i2s" \in Clients \ {"kpu"} /\ "fft" \in Clients \ {"kpu"}
        BY DEF Clients
      <3>2. ~SpiAct /\ ~FlashAct /\ ~I2sAct /\ ~FftAct
        BY <2>0, <2>1, <3>1, SpiMoves, FlashMoves, I2sMoves, FftMoves
      <3>3. QED
        BY <3>2 DEF Next, SpiAct, FlashAct, I2sAct, KpuAct, FftAct
    <2>3. KpuReturns
      <3>1. ~KpuBegin /\ ~KpuRefused
        BY DEF KpuBegin, KpuRefused, PythonFree
      <3>2. ~KpuTimeOut
        BY <2>0, OwnEffect DEF KpuTimeOut
      <3>3. \A j \in jobs : ~KpuDone(j)
        BY DEF KpuDone
      <3>4. \A c \in Channels : ~KpuRegister(c) /\ ~KpuStart(c) /\ ~KpuRelease(c)
        BY DEF KpuRegister, KpuStart, KpuRelease
      <3>5. QED
        BY <2>2, <3>1, <3>2, <3>3, <3>4 DEF KpuAct, KpuStep
    <2>4. k_sem # 0
      BY <2>0, <2>3, DmaClientsAssumption DEF DmaClientsAssumption, RunType, KpuReturns
    <2>5. QED
      BY <2>0, <2>4 DEF KpuSem
  <1>2. QED
    BY <1>1, Invariance, PTL DEF Spec, KpuReturnsResult
=============================================================================
