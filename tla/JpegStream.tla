----------------------------- MODULE JpegStream -----------------------------
(***************************************************************************)
(* The JPEG buffer between two threads of the camera firmware: the OpenMV  *)
(* thread publishes a frame in it (framebuffer.c, fb_update_jpeg_buffer),  *)
(* the debug thread hands it to the IDE (usbdbg.c, FRAME_SIZE, FRAME_DUMP, *)
(* FB_ENABLE).  Both go through hal/k210/omvhal-mutex.c, whose try-lock is *)
(* plain loads and stores.  The K210 runs both threads at the same time on *)
(* its two cores, so every load and store of the mutex is a step.  Two     *)
(* things go wrong with it, and both happen in this model: the two threads *)
(* read a free lock before either takes it (raced), and the second store   *)
(* of an unlock wipes the owner of a take that came after the first, which *)
(* leaves the buffer locked by nobody (LockedOut).                         *)
(*                                                                         *)
(* A frame is a number; pixels are NChunks pieces, each remembering which  *)
(* frame wrote it.  The IDE on the host is external: it polls FRAME_SIZE,  *)
(* dumps a frame that was announced to it, enables and disables the stream.*)
(***************************************************************************)
EXTENDS JpegQuality, Sequences

CONSTANTS NChunks,     \* pieces a frame is copied in
          MaxFrames,   \* bound: frames the camera takes
          Kinds        \* frame kinds: "raw" is compressed, "jpeg" is copied

ASSUME JpegStreamAssumption ==
    /\ NChunks \in Nat \ {0}
    /\ MaxFrames \in Nat
    /\ Kinds \subseteq {"raw", "jpeg"}

OMV == "OMV"    \* MUTEX_TID_OMV
IDE == "IDE"    \* MUTEX_TID_IDE
Tids == {OMV, IDE}

VARIABLES
    lock, tid,   \* the two fields of the mutex
    raced,       \* history: both threads have read the lock as free
    pc, back,    \* where each thread is; where an unlock returns to
    enabled,     \* jpeg_framebuffer->enabled (and streaming_enabled)
    header,      \* jpeg_framebuffer w, h, size: the frame announced, 0 if none
    pix,         \* jpeg_framebuffer->pixels
    copied,      \* history: an image that was a JPEG already has been taken
    frame, kind, fits,   \* the frame fb_update_jpeg_buffer is working on
    pos,         \* chunks of it written
    promise,     \* frame the last FRAME_SIZE answer announced to the host
    sent         \* chunks of the FRAME_DUMP in progress

omvVars == <<frame, kind, fits, pos, copied>>
ideVars == <<promise, sent>>
bufVars == <<enabled, header, pix, qualityVars>>
vars == <<lock, tid, raced, pc, back, bufVars, omvVars, ideVars>>

Goto(th, l) == pc' = [pc EXCEPT ![th] = l]
At(th, l) == pc[th] = l

Init ==
    /\ lock = 0 /\ tid = "none" /\ raced = FALSE
    /\ pc = [th \in Tids |-> "out"]
    /\ back = [th \in Tids |-> "out"]
    /\ enabled = FALSE
    /\ header = 0
    /\ pix = [i \in 1 .. NChunks |-> 0]
    /\ frame = 0 /\ kind \in Kinds /\ fits = TRUE /\ pos = 0
    /\ copied = FALSE
    /\ promise = 0
    /\ sent = <<>>
    /\ QualityInit

----------------------------------------------------------------------------
(* omvhal-mutex.c, one step per load or store *)

\* mutex_try_lock: my own lock is released and the answer is no.
TryTid(th) ==
    /\ At(th, "try")
    /\ \/ tid = th /\ Goto(th, "unl") /\ back' = [back EXCEPT ![th] = "fail"]
       \/ tid # th /\ Goto(th, "chk") /\ UNCHANGED back
    /\ UNCHANGED <<lock, tid, raced>>

\* Fault: the lock field is not looked at.
TryBlind(th) ==
    /\ At(th, "chk")
    /\ Goto(th, "set")
    /\ raced' = (raced \/ (lock = 0 /\ \E other \in Tids \ {th} : At(other, "set")))
    /\ UNCHANGED <<lock, tid, back>>

\* A free lock is about to be taken; the other thread may be about to, as well.
TryLockField(th) ==
    /\ At(th, "chk")
    /\ Goto(th, IF lock = 0 THEN "set" ELSE "fail")
    /\ raced' = (raced \/ (lock = 0 /\ \E other \in Tids \ {th} : At(other, "set")))
    /\ UNCHANGED <<lock, tid, back>>

TrySetLock(th) ==
    /\ At(th, "set")
    /\ lock' = 1
    /\ Goto(th, "own")
    /\ UNCHANGED <<tid, back, raced>>

TrySetTid(th) ==
    /\ At(th, "own")
    /\ tid' = th
    /\ Goto(th, "in")
    /\ UNCHANGED <<lock, back, raced>>

\* mutex_unlock: only the owner's tid releases.
UnlockTid(th) ==
    /\ At(th, "unl")
    /\ Goto(th, IF tid = th THEN "unlLock" ELSE back[th])
    /\ UNCHANGED <<lock, tid, back, raced>>

UnlockLock(th) ==
    /\ At(th, "unlLock")
    /\ lock' = 0
    /\ Goto(th, "unlTid")
    /\ UNCHANGED <<tid, back, raced>>

UnlockDone(th) ==
    /\ At(th, "unlTid")
    /\ tid' = "none"
    /\ Goto(th, back[th])
    /\ UNCHANGED <<lock, back, raced>>

MutexStep(th) ==
    /\ \/ TryTid(th) \/ TryLockField(th) \/ TrySetLock(th) \/ TrySetTid(th)
       \/ UnlockTid(th) \/ UnlockLock(th) \/ UnlockDone(th)
    /\ UNCHANGED <<bufVars, omvVars, ideVars>>

\* Leaving the critical section, or a call of mutex_unlock.
Release(th) ==
    /\ Goto(th, "unl")
    /\ back' = [back EXCEPT ![th] = "out"]

----------------------------------------------------------------------------
(* fb_update_jpeg_buffer, on the OpenMV thread *)

\* A new image in the frame buffer; nothing happens while streaming is off.
Snapshot(k, f) ==
    /\ At(OMV, "out")
    /\ enabled
    /\ frame < MaxFrames
    /\ frame' = frame + 1
    /\ kind' = k /\ fits' = f /\ pos' = 0
    /\ copied' = (copied \/ k = "jpeg")
    /\ Goto(OMV, "try")
    /\ UNCHANGED <<lock, tid, raced, back, bufVars, ideVars>>

\* An image to compress: the pixels are written first, the header last; an
\* overflow leaves no frame.
\* Fault: the header announces the frame before it is compressed.
HeaderFirst ==
    /\ At(OMV, "in") /\ kind = "raw"
    /\ \/ /\ pos < NChunks
          /\ pix' = [pix EXCEPT ![pos + 1] = frame]
          /\ header' = frame
          /\ pos' = pos + 1
          /\ UNCHANGED <<pc, back, qualityVars>>
       \/ /\ pos = NChunks
          /\ IF fits THEN Fitted(FALSE) ELSE Overflowed
          /\ Release(OMV)
          /\ UNCHANGED <<pix, pos, header>>
    /\ UNCHANGED <<lock, tid, raced, enabled, frame, kind, fits, copied, ideVars>>

CompressFrame ==
    /\ At(OMV, "in") /\ kind = "raw"
    /\ \/ /\ pos < NChunks
          /\ pix' = [pix EXCEPT ![pos + 1] = frame]
          /\ pos' = pos + 1
          /\ UNCHANGED <<header, pc, back, qualityVars>>
       \/ /\ pos = NChunks
          /\ IF fits THEN Fitted(FALSE) ELSE Overflowed
          /\ header' = IF fits THEN frame ELSE 0
          /\ Release(OMV)
          /\ UNCHANGED <<pix, pos>>
    /\ UNCHANGED <<lock, tid, raced, enabled, frame, kind, fits, copied, ideVars>>

\* An image that is a JPEG already: the header first, then the copy; one that
\* does not fit leaves no frame (it goes out as text, over the console).
CopyJpeg ==
    /\ kind = "jpeg"
    /\ \/ /\ At(OMV, "in")
          /\ header' = IF fits THEN frame ELSE 0
          /\ IF fits THEN Goto(OMV, "copy") /\ UNCHANGED back ELSE Release(OMV)
          /\ UNCHANGED <<pix, pos>>
       \/ /\ At(OMV, "copy") /\ pos < NChunks
          /\ pix' = [pix EXCEPT ![pos + 1] = frame]
          /\ pos' = pos + 1
          /\ UNCHANGED <<header, pc, back>>
       \/ /\ At(OMV, "copy") /\ pos = NChunks
          /\ Release(OMV)
          /\ UNCHANGED <<pix, pos, header>>
    /\ UNCHANGED <<lock, tid, raced, enabled, qualityVars, frame, kind, fits, copied, ideVars>>

\* sensor.reset() in the script sets the default quality, without the lock.
SensorReset ==
    /\ At(OMV, "out")
    /\ SensorQuality
    /\ UNCHANGED <<lock, tid, raced, pc, back, enabled, header, pix, omvVars, ideVars>>

\* The buffer is locked: this frame is not streamed.
SkipFrame ==
    /\ At(OMV, "fail")
    /\ Goto(OMV, "out")
    /\ UNCHANGED <<lock, tid, raced, back, bufVars, omvVars, ideVars>>

----------------------------------------------------------------------------
(* usbdbg.c, on the debug thread *)

\* The host asks for the frame size: try to lock the buffer.
FrameSize ==
    /\ At(IDE, "out")
    /\ promise' = 0
    /\ Goto(IDE, "try")
    /\ UNCHANGED <<lock, tid, raced, back, bufVars, omvVars, sent>>

\* Locked: announce the frame and keep the lock, or unlock when there is none.
FrameSizeAnswer ==
    /\ At(IDE, "in")
    /\ \/ header = 0 /\ Release(IDE) /\ UNCHANGED promise
       \/ header # 0 /\ promise' = header /\ Goto(IDE, "out") /\ UNCHANGED back
    /\ UNCHANGED <<lock, tid, raced, bufVars, omvVars, sent>>

\* Not locked: answer 0.
FrameSizeBusy ==
    /\ At(IDE, "fail")
    /\ Goto(IDE, "out")
    /\ UNCHANGED <<lock, tid, raced, back, bufVars, omvVars, ideVars>>

\* The host fetches the frame it was told about.
FrameDump ==
    /\ At(IDE, "out")
    /\ promise # 0
    /\ sent' = <<>>
    /\ Goto(IDE, "dump")
    /\ UNCHANGED <<lock, tid, raced, back, bufVars, omvVars, promise>>

DumpChunk ==
    /\ At(IDE, "dump")
    /\ sent' = Append(sent, pix[Len(sent) + 1])
    /\ Goto(IDE, IF Len(sent) + 1 = NChunks THEN "clear" ELSE "dump")
    /\ UNCHANGED <<lock, tid, raced, back, bufVars, omvVars, promise>>

\* Fault: the lock is given back before the header is cleared, for good.
DumpKeepsLock ==
    /\ At(IDE, "clear")
    /\ header' = 0 /\ promise' = 0
    /\ Goto(IDE, "out")
    /\ UNCHANGED <<lock, tid, raced, back, enabled, pix, qualityVars, omvVars, sent>>

\* Fault: the frame stays announced.
DumpKeepsHeader ==
    /\ At(IDE, "clear")
    /\ promise' = 0
    /\ Release(IDE)
    /\ UNCHANGED <<lock, tid, raced, bufVars, omvVars, sent>>

DumpEnd ==
    /\ At(IDE, "clear")
    /\ header' = 0
    /\ promise' = 0
    /\ Release(IDE)
    /\ UNCHANGED <<lock, tid, raced, enabled, pix, qualityVars, omvVars, sent>>

\* FB_ENABLE, also usbdbg_disconnect: switching off drops the IDE's lock.
FbEnable(e) ==
    /\ At(IDE, "out")
    /\ enabled' = e
    /\ \/ e /\ UNCHANGED <<pc, back, promise>>
       \/ ~e /\ promise' = 0 /\ Release(IDE)
    /\ UNCHANGED <<lock, tid, raced, header, pix, qualityVars, omvVars, sent>>

----------------------------------------------------------------------------
OmvStep == CompressFrame \/ CopyJpeg \/ SkipFrame
IdeStep == FrameSizeAnswer \/ FrameSizeBusy \/ DumpChunk \/ DumpEnd

Next ==
    \/ \E th \in Tids : MutexStep(th)
    \/ \E k \in Kinds, f \in BOOLEAN : Snapshot(k, f)
    \/ SensorReset \/ OmvStep
    \/ FrameSize \/ FrameDump \/ IdeStep
    \/ \E e \in BOOLEAN : FbEnable(e)

Spec == Init /\ [][Next]_vars

(* Both threads run on; the IDE keeps polling and fetches what it is told. *)
Fairness ==
    /\ \A th \in Tids : WF_vars(MutexStep(th))
    /\ WF_vars(OmvStep) /\ WF_vars(IdeStep)
    /\ SF_vars(FrameSize) /\ SF_vars(FrameDump)

FairSpec == Spec /\ Fairness

----------------------------------------------------------------------------
(* Properties *)

\* What FRAME_DUMP sends is the frame FRAME_SIZE announced, every piece of it, unless
\* both threads once read the lock as free (omvhal-mutex.c:22): no order of polls, dumps
\* and switches, and no take whose owner was wiped (line 37), tears a frame.
NoTornFrame ==
    ~raced /\ pc[IDE] \in {"dump", "clear"} =>
        \A i \in 1 .. Len(sent) : sent[i] = promise

\* A frame to compress is announced only when all its pixels are in place: even
\* where the mutex fails and newer pixels may come in, a dump that began with
\* compressed frames only never sends pixels older than the announced frame.
NoStalePixels ==
    ~copied /\ pc[IDE] \in {"dump", "clear"} =>
        \A i \in 1 .. Len(sent) : sent[i] >= promise

\* The owner field names a thread only while that thread is inside or on its
\* way out: the lock is never left behind in the name of a thread that moved on.
OwnerIsInside ==
    \A th \in Tids : tid = th =>
        \/ pc[th] \in {"in", "copy", "try", "unl", "unlLock", "unlTid", "dump", "clear"}
        \/ th = IDE /\ At(IDE, "out") /\ promise # 0

\* The lock field is set, no thread is on the way to set or clear a field, and nobody
\* is named: neither thread can lock or unlock the buffer again.
LockedOut ==
    /\ lock = 1 /\ tid = "none"
    /\ \A th \in Tids : pc[th] \notin {"set", "own", "unlLock"}

\* A frame that was published does not stay in the buffer for ever: an IDE that keeps
\* polling fetches it or a later frame replaces it, through every race of the two
\* try-locks, unless the unlock of one thread wiped the owner the other had stored.
FrameLeaves ==
    \A f \in 1 .. MaxFrames : header = f ~> header # f \/ LockedOut
=============================================================================
