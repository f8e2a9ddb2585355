----------------------------- MODULE JpegProofs -----------------------------
(***************************************************************************)
(* Proofs about the JPEG buffer shared by the two threads, for every       *)
(* number of frames and of pieces a frame is copied in, and about the      *)
(* quality controller, for every pair of ceilings and every number of      *)
(* frames a lowered quality is kept.                                       *)
(*                                                                         *)
(* Stream: the owner field is honest on its own.  That a dump sends        *)
(* nothing older than was announced rests on there being one writer, whose *)
(* pieces never get older and whose header comes last; it needs no mutex.  *)
(* That a dump sends the very frame needs the mutex: as long as the two    *)
(* threads have not both read the lock as free, the lock field is set from *)
(* FRAME_SIZE to the end of FRAME_DUMP, even when the owner field was      *)
(* wiped, so the header announced and the pixels under it stay the same.   *)
(*                                                                         *)
(* Controller: the counter of fb_update_jpeg_buffer and the frames that    *)
(* fitted since the quality was lowered always make up KeepFrames          *)
(* together, across sensor resets that leave the counter alone and         *)
(* overflows at quality 1 that do not restart it.                          *)
(***************************************************************************)
EXTENDS JpegStream, JpegControl, SequenceTheorems, TLAPS

----------------------------------------------------------------------------
(* The stream: the inductive invariant *)

\* Where a thread can be.
Labels == {"out", "try", "chk", "set", "own", "in", "copy", "fail", "unl", "unlLock",
           "unlTid", "dump", "clear"}

TypeInv ==
    /\ pc \in [Tids -> Labels] /\ back \in [Tids -> {"out", "fail"}]
    /\ header \in Nat /\ promise \in Nat /\ frame \in Nat
    /\ pix \in [1 .. NChunks -> Nat] /\ pos \in 0 .. NChunks
    /\ sent \in Seq(Nat) /\ raced \in BOOLEAN

\* The dump in progress has chunks left to send.
DumpInv == At(IDE, "dump") => Len(sent) < NChunks

\* Only fb_update_jpeg_buffer writes pixels: the chunks it has written are those of its
\* frame, and none is newer.
WriterInv ==
    /\ \A i \in 1 .. pos : pix[i] = frame
    /\ \A i \in 1 .. NChunks : pix[i] <= frame

\* Without copied frames, no pixel is older than a frame that is announced, in the
\* header or to the host.
FreshInv ==
    ~copied =>
      /\ kind = "jpeg" => At(OMV, "out")
      /\ \A i \in 1 .. NChunks : header <= pix[i] /\ promise <= pix[i]
      /\ pc[IDE] \in {"dump", "clear"} => \A i \in 1 .. Len(sent) : promise <= sent[i]

\* The thread has taken the lock and has not given it back: it is past the test, or the
\* owner that mutex_unlock looks for, or has announced a frame.
Inside(th) ==
    \/ pc[th] \in {"own", "in", "copy", "dump", "clear", "unlLock"}
    \/ pc[th] \in {"try", "unl"} /\ tid = th
    \/ th = IDE /\ promise # 0

\* Unless both threads read the lock as free, one thread at most is inside, and the lock
\* field is set meanwhile, whatever became of the owner field.
MutexInv ==
    /\ \A th \in Tids : Inside(th) => lock = 1
    /\ ~(Inside(OMV) /\ Inside(IDE))
    /\ \A th \in Tids : At(th, "set") => ~Inside(OMV) /\ ~Inside(IDE)
    /\ ~(At(OMV, "set") /\ At(IDE, "set"))
    /\ promise # 0 => pc[IDE] \in {"out", "dump", "clear"} /\ header = promise
    /\ pc[IDE] \in {"dump", "clear"} => promise # 0

\* While the OpenMV thread is not inside, an announced frame is in the buffer as a whole,
\* and so far as it was sent.
FrameInv ==
    /\ header # 0 /\ pc[OMV] \notin {"in", "copy"} => \A i \in 1 .. NChunks : pix[i] = header
    /\ At(OMV, "copy") => header = frame
    /\ pc[IDE] \in {"dump", "clear"} => \A i \in 1 .. Len(sent) : sent[i] = promise

StreamInv ==
    /\ TypeInv /\ DumpInv /\ OwnerIsInside /\ WriterInv /\ FreshInv
    /\ ~raced => MutexInv /\ FrameInv

----------------------------------------------------------------------------
(* The stream: each step preserves it *)

\* mutex_try_lock reads the owner (omvhal-mutex.c).
LEMMA TryTidKeeps ==
    ASSUME StreamInv, NEW th \in Tids, TryTid(th), UNCHANGED <<bufVars, omvVars, ideVars>>
    PROVE  StreamInv'
<1> USE JpegStreamAssumption DEF JpegStreamAssumption
<1>1. TypeInv'
  BY DEF StreamInv, TypeInv, Labels, TryTid, Goto, bufVars, omvVars, ideVars
<1>2. DumpInv'
  BY <1>1 DEF StreamInv, TypeInv, DumpInv, TryTid, Goto, At, Tids, ideVars
<1>3. OwnerIsInside'
  BY <1>1 DEF StreamInv, TypeInv, OwnerIsInside, TryTid, Goto, At, ideVars
<1>4. WriterInv'
  BY <1>1 DEF StreamInv, WriterInv, bufVars, omvVars
<1>5. FreshInv'
  BY <1>1 DEF StreamInv, TypeInv, FreshInv, TryTid, Goto, At, Tids, bufVars, omvVars,
     ideVars
<1>6. ASSUME ~raced' PROVE MutexInv'
  BY <1>1, <1>6 DEF StreamInv, TypeInv, OwnerIsInside, MutexInv, Inside, TryTid, Goto, At,
     Tids, OMV, IDE, bufVars, ideVars
<1>7. ASSUME ~raced' PROVE FrameInv'
  BY <1>1, <1>7 DEF StreamInv, TypeInv, FrameInv, TryTid, Goto, At, Tids, OMV, IDE, bufVars,
     omvVars, ideVars
<1> QED BY <1>1, <1>2, <1>3, <1>4, <1>5, <1>6, <1>7 DEF StreamInv

\* mutex_try_lock reads the lock field.
LEMMA TryLockFieldKeeps ==
    ASSUME StreamInv, NEW th \in Tids, TryLockField(th), UNCHANGED <<bufVars, omvVars,
           ideVars>>
    PROVE  StreamInv'
<1> USE JpegStreamAssumption DEF JpegStreamAssumption
<1>1. TypeInv'
  BY DEF StreamInv, TypeInv, Labels, TryLockField, Goto, bufVars, omvVars, ideVars
<1>2. DumpInv'
  BY <1>1 DEF StreamInv, DumpInv, TryLockField, Goto, At, ideVars
<1>3. OwnerIsInside'
  BY <1>1 DEF StreamInv, OwnerIsInside, TryLockField, Goto, At, ideVars
<1>4. WriterInv'
  BY <1>1 DEF StreamInv, WriterInv, bufVars, omvVars
<1>5. FreshInv'
  BY <1>1 DEF StreamInv, FreshInv, TryLockField, Goto, At, bufVars, omvVars, ideVars
<1>6. ASSUME ~raced' PROVE MutexInv'
  <2>1. ~raced /\ MutexInv /\ (lock = 0 => \A other \in Tids \ {th} : ~At(other, "set"))
    BY <1>6 DEF StreamInv, TypeInv, TryLockField
  <2>2. CASE lock # 0
    BY <1>1, <2>1, <2>2 DEF StreamInv, TypeInv, OwnerIsInside, MutexInv, Inside, TryLockField,
       Goto, At, Tids, OMV, IDE, bufVars, ideVars
  <2>3. CASE lock = 0
    <3>1. ~Inside(OMV) /\ ~Inside(IDE)
      BY <2>1, <2>3 DEF MutexInv, Tids
    <3>2. promise = 0 /\ pc[IDE] \notin {"dump", "clear"}
      BY <3>1 DEF Inside
    <3> QED BY <1>1, <2>1, <2>3, <3>1, <3>2 DEF StreamInv, TypeInv, MutexInv, Inside,
         TryLockField, Goto, At, Tids, OMV, IDE, bufVars, ideVars
  <2> QED BY <2>2, <2>3
<1>7. ASSUME ~raced' PROVE FrameInv'
  BY <1>1, <1>7 DEF StreamInv, TypeInv, FrameInv, TryLockField, Goto, At, Tids, OMV, IDE,
     bufVars,
     omvVars, ideVars
<1> QED BY <1>1, <1>2, <1>3, <1>4, <1>5, <1>6, <1>7 DEF StreamInv

\* mutex_try_lock sets the lock field.
LEMMA TrySetLockKeeps ==
    ASSUME StreamInv, NEW th \in Tids, TrySetLock(th), UNCHANGED <<bufVars, omvVars,
           ideVars>>
    PROVE  StreamInv'
<1> USE JpegStreamAssumption DEF JpegStreamAssumption
<1>1. TypeInv'
  BY DEF StreamInv, TypeInv, Labels, TrySetLock, Goto, bufVars, omvVars, ideVars
<1>2. DumpInv'
  BY <1>1 DEF StreamInv, DumpInv, TrySetLock, Goto, At, ideVars
<1>3. OwnerIsInside'
  BY <1>1 DEF StreamInv, OwnerIsInside, TrySetLock, Goto, At, ideVars
<1>4. WriterInv'
  BY <1>1 DEF StreamInv, WriterInv, bufVars, omvVars
<1>5. FreshInv'
  BY <1>1 DEF StreamInv, FreshInv, TrySetLock, Goto, At, bufVars, omvVars, ideVars
<1>6. ASSUME ~raced' PROVE MutexInv'
  BY <1>1, <1>6 DEF StreamInv, TypeInv, OwnerIsInside, MutexInv, Inside, TrySetLock, Goto, At,
     Tids, OMV, IDE, bufVars, ideVars
<1>7. ASSUME ~raced' PROVE FrameInv'
  BY <1>1, <1>7 DEF StreamInv, TypeInv, FrameInv, TrySetLock, Goto, At, Tids, OMV, IDE, bufVars,
     omvVars, ideVars
<1> QED BY <1>1, <1>2, <1>3, <1>4, <1>5, <1>6, <1>7 DEF StreamInv

\* mutex_try_lock names the owner, its last store.
LEMMA TrySetTidKeeps ==
    ASSUME StreamInv, NEW th \in Tids, TrySetTid(th), UNCHANGED <<bufVars, omvVars,
           ideVars>>
    PROVE  StreamInv'
<1> USE JpegStreamAssumption DEF JpegStreamAssumption
<1>1. TypeInv'
  BY DEF StreamInv, TypeInv, Labels, TrySetTid, Goto, bufVars, omvVars, ideVars
<1>2. DumpInv'
  BY <1>1 DEF StreamInv, DumpInv, TrySetTid, Goto, At, ideVars
<1>3. OwnerIsInside'
  BY <1>1 DEF TypeInv, OwnerIsInside, TrySetTid, Goto
<1>4. WriterInv'
  BY <1>1 DEF StreamInv, WriterInv, bufVars, omvVars
<1>5. FreshInv'
  BY <1>1 DEF StreamInv, FreshInv, TrySetTid, Goto, At, bufVars, omvVars, ideVars
<1>6. ASSUME ~raced' PROVE MutexInv'
  BY <1>1, <1>6 DEF StreamInv, TypeInv, OwnerIsInside, MutexInv, Inside, TrySetTid, Goto, At,
     Tids, OMV, IDE, bufVars, ideVars
<1>7. ASSUME ~raced' PROVE FrameInv'
  BY <1>1, <1>7 DEF StreamInv, TypeInv, FrameInv, TrySetTid, Goto, At, Tids, OMV, IDE, bufVars,
     omvVars, ideVars
<1> QED BY <1>1, <1>2, <1>3, <1>4, <1>5, <1>6, <1>7 DEF StreamInv

\* mutex_unlock reads the owner.
LEMMA UnlockTidKeeps ==
    ASSUME StreamInv, NEW th \in Tids, UnlockTid(th), UNCHANGED <<bufVars, omvVars,
           ideVars>>
    PROVE  StreamInv'
<1> USE JpegStreamAssumption DEF JpegStreamAssumption
<1>1. TypeInv'
  BY DEF StreamInv, TypeInv, Labels, UnlockTid, Goto, bufVars, omvVars, ideVars
<1>2. DumpInv'
  BY <1>1 DEF StreamInv, TypeInv, DumpInv, UnlockTid, Goto, At, Tids, ideVars
<1>3. OwnerIsInside'
  BY <1>1 DEF StreamInv, OwnerIsInside, UnlockTid, Goto, At, ideVars
<1>4. WriterInv'
  BY <1>1 DEF StreamInv, WriterInv, bufVars, omvVars
<1>5. FreshInv'
  BY <1>1 DEF StreamInv, TypeInv, FreshInv, UnlockTid, Goto, At, Tids, bufVars, omvVars,
     ideVars
<1>6. ASSUME ~raced' PROVE MutexInv'
  BY <1>1, <1>6 DEF StreamInv, TypeInv, OwnerIsInside, MutexInv, Inside, UnlockTid, Goto, At,
     Tids, OMV, IDE, bufVars, ideVars
<1>7. ASSUME ~raced' PROVE FrameInv'
  BY <1>1, <1>7 DEF StreamInv, TypeInv, FrameInv, UnlockTid, Goto, At, Tids, OMV, IDE, bufVars,
     omvVars, ideVars
<1> QED BY <1>1, <1>2, <1>3, <1>4, <1>5, <1>6, <1>7 DEF StreamInv

\* mutex_unlock clears the lock field.
LEMMA UnlockLockKeeps ==
    ASSUME StreamInv, NEW th \in Tids, UnlockLock(th), UNCHANGED <<bufVars, omvVars,
           ideVars>>
    PROVE  StreamInv'
<1> USE JpegStreamAssumption DEF JpegStreamAssumption
<1>1. TypeInv'
  BY DEF StreamInv, TypeInv, Labels, UnlockLock, Goto, At, bufVars, omvVars, ideVars
<1>2. DumpInv'
  BY <1>1 DEF StreamInv, DumpInv, UnlockLock, Goto, At, ideVars
<1>3. OwnerIsInside'
  BY <1>1 DEF StreamInv, OwnerIsInside, UnlockLock, Goto, At, ideVars
<1>4. WriterInv'
  BY <1>1 DEF StreamInv, WriterInv, bufVars, omvVars
<1>5. FreshInv'
  BY <1>1 DEF StreamInv, FreshInv, UnlockLock, Goto, At, bufVars, omvVars, ideVars
<1>6. ASSUME ~raced' PROVE MutexInv'
  BY <1>1, <1>6 DEF StreamInv, TypeInv, OwnerIsInside, MutexInv, Inside, UnlockLock, Goto, At,
     Tids, OMV, IDE, bufVars, ideVars
<1>7. ASSUME ~raced' PROVE FrameInv'
  BY <1>1, <1>7 DEF StreamInv, TypeInv, FrameInv, UnlockLock, Goto, At, Tids, OMV, IDE, bufVars,
     omvVars, ideVars
<1> QED BY <1>1, <1>2, <1>3, <1>4, <1>5, <1>6, <1>7 DEF StreamInv

\* mutex_unlock clears the owner and returns.
LEMMA UnlockDoneKeeps ==
    ASSUME StreamInv, NEW th \in Tids, UnlockDone(th), UNCHANGED <<bufVars, omvVars,
           ideVars>>
    PROVE  StreamInv'
<1> USE JpegStreamAssumption DEF JpegStreamAssumption
<1>1. TypeInv'
  BY DEF StreamInv, TypeInv, Labels, UnlockDone, Goto, At, bufVars, omvVars, ideVars
<1>2. DumpInv'
  BY <1>1 DEF StreamInv, TypeInv, DumpInv, UnlockDone, Goto, At, Tids, ideVars
<1>3. OwnerIsInside'
  BY <1>1 DEF StreamInv, TypeInv, OwnerIsInside, UnlockDone, Release, Goto, At, Tids,
     OMV, IDE
<1>4. WriterInv'
  BY <1>1 DEF StreamInv, WriterInv, bufVars, omvVars
<1>5. FreshInv'
  BY <1>1 DEF StreamInv, TypeInv, FreshInv, UnlockDone, Goto, At, Tids, bufVars,
     omvVars, ideVars
<1>6. ASSUME ~raced' PROVE MutexInv'
  BY <1>1, <1>6 DEF StreamInv, TypeInv, OwnerIsInside, MutexInv, Inside, UnlockDone, Goto, At,
     Tids, OMV, IDE, bufVars, ideVars
<1>7. ASSUME ~raced' PROVE FrameInv'
  BY <1>1, <1>7 DEF StreamInv, TypeInv, FrameInv, UnlockDone, Goto, At, Tids, OMV, IDE, bufVars,
     omvVars, ideVars
<1> QED BY <1>1, <1>2, <1>3, <1>4, <1>5, <1>6, <1>7 DEF StreamInv

\* A new image: fb_update_jpeg_buffer starts.
LEMMA SnapshotKeeps ==
    ASSUME StreamInv, NEW k \in Kinds, NEW f \in BOOLEAN, Snapshot(k, f)
    PROVE  StreamInv'
<1> USE JpegStreamAssumption DEF JpegStreamAssumption
<1>1. TypeInv'
  BY DEF StreamInv, TypeInv, Labels, Snapshot, Goto, At, Tids, bufVars, ideVars
<1>2. DumpInv'
  BY <1>1 DEF StreamInv, DumpInv, Snapshot, Goto, At, ideVars
<1>3. OwnerIsInside'
  BY <1>1 DEF StreamInv, OwnerIsInside, Snapshot, Goto, At, ideVars
<1>4. WriterInv'
  <2>1. pos' = 0 /\ frame' = frame + 1 /\ pix' = pix /\ frame \in Nat
        /\ pix \in [1 .. NChunks -> Nat] /\ \A i \in 1 .. NChunks : pix[i] <= frame
    BY DEF StreamInv, TypeInv, WriterInv, Snapshot, bufVars
  <2> QED BY <2>1 DEF WriterInv
<1>5. FreshInv'
  BY <1>1 DEF StreamInv, TypeInv, FreshInv, Snapshot, Goto, At, Tids, bufVars, ideVars
<1>6. ASSUME ~raced' PROVE MutexInv'
  BY <1>1, <1>6 DEF StreamInv, TypeInv, OwnerIsInside, MutexInv,
     Inside, Snapshot, Release, Goto, At, Tids,
     OMV, IDE, bufVars, ideVars
<1>7. ASSUME ~raced' PROVE FrameInv'
  BY <1>1, <1>7 DEF StreamInv, FrameInv, Snapshot, Goto, At, bufVars, ideVars
<1> QED BY <1>1, <1>2, <1>3, <1>4, <1>5, <1>6, <1>7 DEF StreamInv

\* A piece of the frame written: the pieces of the frame are one more, and no piece of the
\* buffer has become older.
LEMMA PieceWritten ==
    ASSUME TypeInv, WriterInv, pos < NChunks, UNCHANGED frame,
           pix' = [pix EXCEPT ![pos + 1] = frame], pos' = pos + 1
    PROVE  /\ pix' \in [1 .. NChunks -> Nat] /\ pos' \in 0 .. NChunks
           /\ WriterInv'
           /\ \A i \in 1 .. NChunks : pix[i] <= pix'[i]
<1> USE JpegStreamAssumption DEF JpegStreamAssumption
<1>1. frame \in Nat /\ pos \in Nat /\ pix \in [1 .. NChunks -> Nat]
  BY DEF TypeInv
<1>2. pix' \in [1 .. NChunks -> Nat] /\ pos' \in 0 .. NChunks
  BY <1>1
<1>3. \A i \in 1 .. NChunks : pix'[i] = IF i = pos + 1 THEN frame ELSE pix[i]
  BY <1>1
<1>4. \A i \in 1 .. NChunks : pix[i] <= frame /\ pix[i] \in Nat
  BY <1>1 DEF WriterInv
<1>5. \A i \in 1 .. NChunks : pix[i] <= pix'[i] /\ pix'[i] <= frame
  BY <1>1, <1>3, <1>4
<1>6. \A i \in 1 .. pos + 1 : pix'[i] = frame
  <2> SUFFICES ASSUME NEW i \in 1 .. pos + 1 PROVE pix'[i] = frame
    OBVIOUS
  <2>1. i \in 1 .. NChunks /\ (i # pos + 1 => i \in 1 .. pos)
    BY <1>1
  <2> QED BY <2>1, <1>3 DEF WriterInv
<1> QED BY <1>2, <1>5, <1>6 DEF WriterInv

\* The last piece is there: the buffer holds the frame and nothing else.
LEMMA FrameComplete ==
    ASSUME WriterInv, pos = NChunks
    PROVE  \A i \in 1 .. NChunks : pix[i] = frame
  BY DEF WriterInv

\* A piece of an image compressed, or the end of it: the header is set last.
LEMMA CompressFrameKeeps ==
    ASSUME StreamInv, CompressFrame
    PROVE  StreamInv'
<1> USE JpegStreamAssumption DEF JpegStreamAssumption
<1>0. At(OMV, "in") /\ kind = "raw" /\ TypeInv /\ DumpInv /\ WriterInv /\ FreshInv
      /\ UNCHANGED <<lock, tid, raced, frame, kind, copied, promise, sent>>
  BY DEF CompressFrame, StreamInv, ideVars
<1>1. CASE pos < NChunks /\ pix' = [pix EXCEPT ![pos + 1] = frame] /\ pos' = pos + 1
           /\ UNCHANGED <<header, pc, back>>
  <2>1. /\ pix' \in [1 .. NChunks -> Nat] /\ pos' \in 0 .. NChunks /\ WriterInv'
        /\ \A i \in 1 .. NChunks : pix[i] <= pix'[i]
    BY <1>0, <1>1, PieceWritten
  <2>2. TypeInv' /\ DumpInv' /\ OwnerIsInside'
    BY <1>0, <1>1, <2>1 DEF StreamInv, TypeInv, DumpInv, OwnerIsInside, At
  <2>3. FreshInv'
    <3>1. \A i \in 1 .. NChunks : pix[i] \in Nat /\ pix'[i] \in Nat /\ header \in Nat /\ promise \in Nat
      BY <2>1, <1>0 DEF TypeInv
    <3> QED BY <1>0, <1>1, <2>1, <3>1 DEF FreshInv, At
  <2>4. ASSUME ~raced' PROVE MutexInv' /\ FrameInv'
    BY <1>0, <1>1, <2>4 DEF StreamInv, MutexInv, Inside, FrameInv, At, OMV, IDE, Tids
  <2> QED BY <2>1, <2>2, <2>3, <2>4 DEF StreamInv
<1>2. CASE pos = NChunks /\ header' = (IF fits THEN frame ELSE 0) /\ Release(OMV)
           /\ UNCHANGED <<pix, pos>>
  <2>1. pc' = [pc EXCEPT ![OMV] = "unl"] /\ back' = [back EXCEPT ![OMV] = "out"]
    BY <1>2 DEF Release, Goto
  <2>2. TypeInv' /\ DumpInv' /\ OwnerIsInside' /\ WriterInv'
    BY <1>0, <1>2, <2>1
       DEF StreamInv, TypeInv, Labels, DumpInv, OwnerIsInside, WriterInv, At, Tids, OMV, IDE
  <2>3. \A i \in 1 .. NChunks : pix[i] = frame /\ pix'[i] = frame
    BY <1>0, <1>2, FrameComplete
  <2>4. frame \in Nat /\ header' \in {frame, 0}
    BY <1>0, <1>2 DEF TypeInv
  <2>5. FreshInv'
    BY <1>0, <1>2, <2>1, <2>3, <2>4 DEF TypeInv, FreshInv, At, Tids, OMV, IDE
  <2>6. ASSUME ~raced' PROVE MutexInv' /\ FrameInv'
    BY <1>0, <1>2, <2>1, <2>3, <2>4, <2>6
       DEF StreamInv, TypeInv, MutexInv, Inside, FrameInv, At, OMV, IDE, Tids
  <2> QED BY <2>2, <2>5, <2>6 DEF StreamInv
<1> QED BY <1>1, <1>2 DEF CompressFrame

\* The header, a piece or the end of an image that is a JPEG already: the header is set
\* first, which FreshInv makes no promise about, and the thread is inside until the end.
LEMMA CopyJpegKeeps ==
    ASSUME StreamInv, CopyJpeg
    PROVE  StreamInv'
<1> USE JpegStreamAssumption DEF JpegStreamAssumption
<1>0. pc[OMV] \in {"in", "copy"} /\ kind = "jpeg" /\ TypeInv /\ DumpInv /\ WriterInv /\ FreshInv
      /\ UNCHANGED <<lock, tid, raced, frame, kind, copied, promise, sent>>
  BY DEF CopyJpeg, StreamInv, ideVars, At
<1>1. FreshInv'
  BY <1>0 DEF FreshInv, At
<1>2. CASE At(OMV, "in") /\ header' = (IF fits THEN frame ELSE 0)
           /\ (IF fits THEN Goto(OMV, "copy") /\ UNCHANGED back ELSE Release(OMV))
           /\ UNCHANGED <<pix, pos>>
  <2>1. TypeInv' /\ DumpInv' /\ OwnerIsInside' /\ WriterInv'
    BY <1>0, <1>2 DEF StreamInv, TypeInv, Labels, DumpInv, OwnerIsInside, WriterInv, Release,
                      Goto, At, Tids, OMV, IDE
  <2>2. ASSUME ~raced' PROVE MutexInv' /\ FrameInv'
    BY <1>0, <1>2, <2>2 DEF StreamInv, TypeInv, MutexInv, Inside, FrameInv, Release, Goto,
       At, OMV, IDE, Tids
  <2> QED BY <1>1, <2>1, <2>2 DEF StreamInv
<1>3. CASE At(OMV, "copy") /\ pos < NChunks /\ pix' = [pix EXCEPT ![pos + 1] = frame]
           /\ pos' = pos + 1 /\ UNCHANGED <<header, pc, back>>
  <2>1. pix' \in [1 .. NChunks -> Nat] /\ pos' \in 0 .. NChunks /\ WriterInv'
    BY <1>0, <1>3, PieceWritten
  <2>2. TypeInv' /\ DumpInv' /\ OwnerIsInside'
    BY <1>0, <1>3, <2>1 DEF StreamInv, TypeInv, DumpInv, OwnerIsInside, At
  <2>3. ASSUME ~raced' PROVE MutexInv' /\ FrameInv'
    BY <1>0, <1>3, <2>3 DEF StreamInv, MutexInv, Inside, FrameInv, At, OMV, IDE, Tids
  <2> QED BY <1>1, <2>1, <2>2, <2>3 DEF StreamInv
<1>4. CASE At(OMV, "copy") /\ pos = NChunks /\ Release(OMV) /\ UNCHANGED <<pix, pos, header>>
  <2>1. pc' = [pc EXCEPT ![OMV] = "unl"] /\ back' = [back EXCEPT ![OMV] = "out"]
    BY <1>4 DEF Release, Goto
  <2>2. TypeInv' /\ DumpInv' /\ OwnerIsInside' /\ WriterInv'
    BY <1>0, <1>4, <2>1
       DEF StreamInv, TypeInv, Labels, DumpInv, OwnerIsInside, WriterInv, At, Tids, OMV, IDE
  <2>3. \A i \in 1 .. NChunks : pix[i] = frame
    BY <1>0, <1>4, FrameComplete
  <2>4. ASSUME ~raced' PROVE MutexInv' /\ FrameInv'
    BY <1>0, <1>4, <2>1, <2>3, <2>4
       DEF StreamInv, TypeInv, MutexInv, Inside, FrameInv, At, OMV, IDE, Tids
  <2> QED BY <1>1, <2>2, <2>4 DEF StreamInv
<1> QED BY <1>2, <1>3, <1>4 DEF CopyJpeg

\* sensor.reset() changes the quality only.
LEMMA SensorResetKeeps ==
    ASSUME StreamInv, SensorReset
    PROVE  StreamInv'
<1> USE JpegStreamAssumption DEF JpegStreamAssumption
<1>1. TypeInv'
  BY DEF StreamInv, TypeInv, Labels, SensorReset, Goto, At, omvVars, ideVars
<1>2. DumpInv'
  BY <1>1 DEF StreamInv, DumpInv, SensorReset, Goto, At, ideVars
<1>3. OwnerIsInside'
  BY <1>1 DEF StreamInv, OwnerIsInside, SensorReset, Goto, At, ideVars
<1>4. WriterInv'
  BY <1>1 DEF StreamInv, WriterInv, SensorReset, Goto, At, omvVars
<1>5. FreshInv'
  BY <1>1 DEF StreamInv, FreshInv, SensorReset, Goto, At, omvVars, ideVars
<1>6. ASSUME ~raced' PROVE MutexInv'
  BY <1>1, <1>6 DEF StreamInv, MutexInv, Inside, SensorReset, Goto, At, ideVars
<1>7. ASSUME ~raced' PROVE FrameInv'
  BY <1>1, <1>7 DEF StreamInv, FrameInv, SensorReset, Goto, At, ideVars
<1> QED BY <1>1, <1>2, <1>3, <1>4, <1>5, <1>6, <1>7 DEF StreamInv

\* fb_update_jpeg_buffer found the buffer locked.
LEMMA SkipFrameKeeps ==
    ASSUME StreamInv, SkipFrame
    PROVE  StreamInv'
<1> USE JpegStreamAssumption DEF JpegStreamAssumption
<1>1. TypeInv'
  BY DEF StreamInv, TypeInv, Labels, SkipFrame, Goto, At, bufVars, omvVars, ideVars
<1>2. DumpInv'
  BY <1>1 DEF StreamInv, DumpInv, SkipFrame, Goto, At, ideVars
<1>3. OwnerIsInside'
  BY <1>1 DEF StreamInv, OwnerIsInside, SkipFrame, Goto, At, ideVars
<1>4. WriterInv'
  BY <1>1 DEF StreamInv, WriterInv, SkipFrame, Goto, At, bufVars, omvVars
<1>5. FreshInv'
  BY <1>1 DEF StreamInv, FreshInv, SkipFrame, Goto, At, bufVars, omvVars, ideVars
<1>6. ASSUME ~raced' PROVE MutexInv'
  BY <1>1, <1>6 DEF StreamInv, MutexInv, Inside, SkipFrame, Goto, At, bufVars, ideVars
<1>7. ASSUME ~raced' PROVE FrameInv'
  BY <1>1, <1>7 DEF StreamInv, FrameInv, SkipFrame, Goto, At, bufVars, ideVars
<1> QED BY <1>1, <1>2, <1>3, <1>4, <1>5, <1>6, <1>7 DEF StreamInv

\* A FRAME_SIZE request.
LEMMA FrameSizeKeeps ==
    ASSUME StreamInv, FrameSize
    PROVE  StreamInv'
<1> USE JpegStreamAssumption DEF JpegStreamAssumption
<1>1. TypeInv'
  BY DEF StreamInv, TypeInv, Labels, FrameSize, Goto, At, bufVars, omvVars
<1>2. DumpInv'
  BY <1>1 DEF StreamInv, DumpInv, FrameSize, Goto, At
<1>3. OwnerIsInside'
  BY <1>1 DEF StreamInv, TypeInv, OwnerIsInside, FrameSize, Goto, At, Tids
<1>4. WriterInv'
  BY <1>1 DEF StreamInv, WriterInv, FrameSize, Goto, At, bufVars, omvVars
<1>5. FreshInv'
  BY <1>1 DEF StreamInv, TypeInv, FreshInv, FrameSize, Release, Goto, At, Tids, OMV,
     IDE, bufVars, omvVars
<1>6. ASSUME ~raced' PROVE MutexInv'
  BY <1>1, <1>6 DEF StreamInv, TypeInv, OwnerIsInside, MutexInv, Inside, FrameSize, Goto,
     At, Tids, OMV, IDE, bufVars
<1>7. ASSUME ~raced' PROVE FrameInv'
  BY <1>1, <1>7 DEF StreamInv, TypeInv, FrameInv, FrameSize, Release, Goto, At, Tids,
     OMV, IDE, bufVars, omvVars
<1> QED BY <1>1, <1>2, <1>3, <1>4, <1>5, <1>6, <1>7 DEF StreamInv

\* The answer with the buffer locked.
LEMMA FrameSizeAnswerKeeps ==
    ASSUME StreamInv, FrameSizeAnswer
    PROVE  StreamInv'
<1> USE JpegStreamAssumption DEF JpegStreamAssumption
<1>1. TypeInv'
  BY DEF StreamInv, TypeInv, Labels, FrameSizeAnswer, Release, Goto, At, Tids, OMV, IDE,
     bufVars, omvVars
<1>2. DumpInv'
  BY <1>1 DEF StreamInv, TypeInv, DumpInv, FrameSizeAnswer, Release, Goto, At, Tids,
     OMV, IDE
<1>3. OwnerIsInside'
  BY <1>1 DEF StreamInv, TypeInv, OwnerIsInside, FrameSizeAnswer, Release, Goto, At,
     Tids, OMV, IDE
<1>4. WriterInv'
  BY <1>1 DEF StreamInv, WriterInv, FrameSizeAnswer, Goto, At, bufVars, omvVars
<1>5. FreshInv'
  BY <1>1 DEF StreamInv, TypeInv, FreshInv, FrameSizeAnswer, Release, Goto, At, Tids,
     OMV, IDE, bufVars, omvVars
<1>6. ASSUME ~raced' PROVE MutexInv'
  BY <1>1, <1>6 DEF StreamInv, TypeInv, MutexInv, Inside, FrameSizeAnswer, Release, Goto, At,
     Tids, OMV, IDE, bufVars
<1>7. ASSUME ~raced' PROVE FrameInv'
  BY <1>1, <1>7 DEF StreamInv, TypeInv, FrameInv, FrameSizeAnswer, Release, Goto, At,
     Tids, OMV, IDE, bufVars, omvVars
<1> QED BY <1>1, <1>2, <1>3, <1>4, <1>5, <1>6, <1>7 DEF StreamInv

\* The answer with the buffer not locked.
LEMMA FrameSizeBusyKeeps ==
    ASSUME StreamInv, FrameSizeBusy
    PROVE  StreamInv'
<1> USE JpegStreamAssumption DEF JpegStreamAssumption
<1>1. TypeInv'
  BY DEF StreamInv, TypeInv, Labels, FrameSizeBusy, Goto, At, bufVars, omvVars, ideVars
<1>2. DumpInv'
  BY <1>1 DEF StreamInv, DumpInv, FrameSizeBusy, Goto, At
<1>3. OwnerIsInside'
  BY <1>1 DEF StreamInv, OwnerIsInside, FrameSizeBusy, Goto, At
<1>4. WriterInv'
  BY <1>1 DEF StreamInv, WriterInv, FrameSizeBusy, Goto, At, bufVars, omvVars
<1>5. FreshInv'
  BY <1>1 DEF StreamInv, FreshInv, FrameSizeBusy, Goto, At, bufVars, omvVars, ideVars
<1>6. ASSUME ~raced' PROVE MutexInv'
  BY <1>1, <1>6 DEF StreamInv, MutexInv, Inside, FrameSizeBusy, Goto, At, ideVars
<1>7. ASSUME ~raced' PROVE FrameInv'
  BY <1>1, <1>7 DEF StreamInv, FrameInv, FrameSizeBusy, Goto, At, bufVars, omvVars
<1> QED BY <1>1, <1>2, <1>3, <1>4, <1>5, <1>6, <1>7 DEF StreamInv

\* A FRAME_DUMP request.
LEMMA FrameDumpKeeps ==
    ASSUME StreamInv, FrameDump
    PROVE  StreamInv'
<1> USE JpegStreamAssumption DEF JpegStreamAssumption
<1>1. TypeInv'
  BY DEF StreamInv, TypeInv, Labels, FrameDump, Goto, At, Tids, bufVars, omvVars
<1>2. DumpInv'
  BY <1>1 DEF StreamInv, DumpInv, FrameDump, Goto, At
<1>3. OwnerIsInside'
  BY <1>1 DEF StreamInv, OwnerIsInside, FrameDump, Goto, At
<1>4. WriterInv'
  BY <1>1 DEF StreamInv, WriterInv, FrameDump, Goto, At, bufVars, omvVars
<1>5. FreshInv'
  BY <1>1 DEF StreamInv, TypeInv, FreshInv, FrameDump, Release, Goto, At, Tids, OMV,
     IDE, bufVars, omvVars
<1>6. ASSUME ~raced' PROVE MutexInv'
  BY <1>1, <1>6 DEF StreamInv, MutexInv, Inside, FrameDump, Goto, At, bufVars
<1>7. ASSUME ~raced' PROVE FrameInv'
  BY <1>1, <1>7 DEF StreamInv, FrameInv, FrameDump, Goto, At, bufVars, omvVars
<1> QED BY <1>1, <1>2, <1>3, <1>4, <1>5, <1>6, <1>7 DEF StreamInv

\* What a sent piece adds to the dump.
LEMMA PieceSent ==
    ASSUME TypeInv, Len(sent) < NChunks, sent' = Append(sent, pix[Len(sent) + 1])
    PROVE  /\ sent' \in Seq(Nat) /\ Len(sent') = Len(sent) + 1
           /\ Len(sent) + 1 \in 1 .. NChunks
           /\ \A i \in 1 .. Len(sent') :
                \/ i \in 1 .. Len(sent) /\ sent'[i] = sent[i]
                \/ sent'[i] = pix[Len(sent) + 1]
<1>1. sent \in Seq(Nat) /\ Len(sent) \in Nat /\ Len(sent) + 1 \in 1 .. NChunks
  BY JpegStreamAssumption DEF JpegStreamAssumption, TypeInv
<1>2. pix[Len(sent) + 1] \in Nat
  BY <1>1 DEF TypeInv
<1> QED BY <1>1, <1>2, AppendProperties

\* FRAME_DUMP sends a piece of what the buffer holds now.
LEMMA DumpChunkKeeps ==
    ASSUME StreamInv, DumpChunk
    PROVE  StreamInv'
<1> USE JpegStreamAssumption DEF JpegStreamAssumption
<1>0. /\ At(IDE, "dump") /\ TypeInv /\ Len(sent) < NChunks
      /\ sent' = Append(sent, pix[Len(sent) + 1])
      /\ pc' = [pc EXCEPT ![IDE] = IF Len(sent) + 1 = NChunks THEN "clear" ELSE "dump"]
      /\ UNCHANGED <<lock, tid, raced, back, header, pix, promise, frame, kind, pos, copied>>
  BY DEF DumpChunk, Goto, StreamInv, DumpInv, bufVars, omvVars
<1>1. /\ sent' \in Seq(Nat) /\ Len(sent') = Len(sent) + 1 /\ Len(sent) + 1 \in 1 .. NChunks
      /\ \A i \in 1 .. Len(sent') :
           \/ i \in 1 .. Len(sent) /\ sent'[i] = sent[i]
           \/ sent'[i] = pix[Len(sent) + 1]
  BY <1>0, PieceSent
<1>2. pc' \in [Tids -> Labels] /\ pc'[OMV] = pc[OMV] /\ pc'[IDE] \in {"dump", "clear"}
      /\ (pc'[IDE] = "dump" => Len(sent) + 1 # NChunks)
  BY <1>0 DEF TypeInv, Labels, Tids, OMV, IDE
<1>3. TypeInv' /\ DumpInv' /\ OwnerIsInside' /\ WriterInv'
  BY <1>0, <1>1, <1>2
     DEF StreamInv, TypeInv, DumpInv, OwnerIsInside, WriterInv, At, Tids, OMV, IDE
<1>4. FreshInv'
  BY <1>0, <1>1, <1>2 DEF StreamInv, FreshInv, At
<1>5. ASSUME ~raced' PROVE MutexInv' /\ FrameInv'
  <2>1. MutexInv'
    BY <1>0, <1>2, <1>5 DEF StreamInv, MutexInv, Inside, At, Tids, OMV, IDE
  <2>2. promise # 0 /\ header = promise /\ pc[OMV] \notin {"in", "copy"}
    BY <1>0, <1>5 DEF StreamInv, MutexInv, Inside, At, Tids, OMV, IDE
  <2>3. pix[Len(sent) + 1] = promise
    BY <1>0, <1>1, <1>5, <2>2 DEF StreamInv, FrameInv
  <2>4. FrameInv'
    BY <1>0, <1>1, <1>2, <1>5, <2>3 DEF StreamInv, FrameInv, At
  <2> QED BY <2>1, <2>4
<1> QED BY <1>3, <1>4, <1>5 DEF StreamInv

\* The dump is over.
LEMMA DumpEndKeeps ==
    ASSUME StreamInv, DumpEnd
    PROVE  StreamInv'
<1> USE JpegStreamAssumption DEF JpegStreamAssumption
<1>1. TypeInv'
  BY DEF StreamInv, TypeInv, Labels, DumpEnd, Release, Goto, At, Tids, OMV, IDE, omvVars
<1>2. DumpInv'
  BY <1>1 DEF StreamInv, TypeInv, DumpInv, DumpEnd, Release, Goto, At, Tids, OMV, IDE
<1>3. OwnerIsInside'
  BY <1>1 DEF StreamInv, TypeInv, OwnerIsInside, DumpEnd, Release, Goto, At, Tids, OMV,
     IDE
<1>4. WriterInv'
  BY <1>1 DEF StreamInv, WriterInv, DumpEnd, Goto, At, omvVars
<1>5. FreshInv'
  BY <1>1 DEF StreamInv, TypeInv, FreshInv, DumpEnd, Release, Goto, At, Tids, OMV, IDE,
     omvVars
<1>6. ASSUME ~raced' PROVE MutexInv'
  BY <1>1, <1>6 DEF StreamInv, TypeInv, MutexInv, Inside, DumpEnd, Release, Goto, At, Tids, OMV,
     IDE
<1>7. ASSUME ~raced' PROVE FrameInv'
  BY <1>1, <1>7 DEF StreamInv, TypeInv, Labels, MutexInv, Inside, WriterInv, FrameInv, DumpEnd,
     Release, Goto, At, Tids, OMV, IDE, omvVars
<1> QED BY <1>1, <1>2, <1>3, <1>4, <1>5, <1>6, <1>7 DEF StreamInv

\* FB_ENABLE.
LEMMA FbEnableKeeps ==
    ASSUME StreamInv, NEW e \in BOOLEAN, FbEnable(e)
    PROVE  StreamInv'
<1> USE JpegStreamAssumption DEF JpegStreamAssumption
<1>1. TypeInv'
  BY DEF StreamInv, TypeInv, Labels, FbEnable, Release, Goto, At, Tids, OMV, IDE,
     omvVars
<1>2. DumpInv'
  BY <1>1 DEF StreamInv, TypeInv, DumpInv, FbEnable, Release, Goto, At, Tids, OMV, IDE
<1>3. OwnerIsInside'
  BY <1>1 DEF StreamInv, TypeInv, OwnerIsInside, FbEnable, Release, Goto, At, Tids, OMV,
     IDE
<1>4. WriterInv'
  BY <1>1 DEF StreamInv, WriterInv, FbEnable, Goto, At, omvVars
<1>5. FreshInv'
  BY <1>1 DEF StreamInv, TypeInv, FreshInv, FbEnable, Release, Goto, At, Tids, OMV, IDE,
     omvVars
<1>6. ASSUME ~raced' PROVE MutexInv'
  BY <1>1, <1>6 DEF StreamInv, TypeInv, OwnerIsInside, MutexInv,
     Inside, FbEnable, Release, Goto, At, Tids,
     OMV, IDE
<1>7. ASSUME ~raced' PROVE FrameInv'
  BY <1>1, <1>7 DEF StreamInv, TypeInv, FrameInv, FbEnable, Release, Goto, At, Tids,
     OMV, IDE, omvVars
<1> QED BY <1>1, <1>2, <1>3, <1>4, <1>5, <1>6, <1>7 DEF StreamInv

\* A step of the mutex, by either thread.
LEMMA MutexStepKeeps ==
    ASSUME StreamInv, NEW th \in Tids, MutexStep(th)
    PROVE  StreamInv'
<1>0. UNCHANGED <<bufVars, omvVars, ideVars>>
  BY DEF MutexStep
<1>1. CASE TryTid(th)
  BY <1>0, <1>1, TryTidKeeps
<1>2. CASE TryLockField(th)
  BY <1>0, <1>2, TryLockFieldKeeps
<1>3. CASE TrySetLock(th)
  BY <1>0, <1>3, TrySetLockKeeps
<1>4. CASE TrySetTid(th)
  BY <1>0, <1>4, TrySetTidKeeps
<1>5. CASE UnlockTid(th)
  BY <1>0, <1>5, UnlockTidKeeps
<1>6. CASE UnlockLock(th)
  BY <1>0, <1>6, UnlockLockKeeps
<1>7. CASE UnlockDone(th)
  BY <1>0, <1>7, UnlockDoneKeeps
<1> QED BY <1>1, <1>2, <1>3, <1>4, <1>5, <1>6, <1>7 DEF MutexStep

\* Nothing is in the buffer at first, and nothing is announced.
LEMMA InitStreamInv == Init => StreamInv
<1> SUFFICES ASSUME Init PROVE StreamInv
  OBVIOUS
<1>1. /\ \A th \in Tids : pc[th] = "out"
      /\ header = 0 /\ promise = 0 /\ frame = 0 /\ pos = 0 /\ sent = <<>> /\ Len(sent) = 0
      /\ tid = "none" /\ pix = [i \in 1 .. NChunks |-> 0]
  BY DEF Init
<1>2. TypeInv
  <2>1. raced \in BOOLEAN /\ sent \in Seq(Nat)
    BY EmptySeq, Zenon DEF Init
  <2>2. pc \in [Tids -> Labels] /\ back \in [Tids -> {"out", "fail"}]
    BY Zenon DEF Init, Labels
  <2>3. pix \in [1 .. NChunks -> Nat] /\ 0 \in 0 .. NChunks
    BY <1>1, JpegStreamAssumption DEF JpegStreamAssumption
  <2> QED BY <1>1, <2>1, <2>2, <2>3, Zenon DEF TypeInv
<1>4. \A i \in 1 .. NChunks : pix[i] = 0
  BY <1>1
<1>5. DumpInv /\ OwnerIsInside /\ WriterInv /\ FreshInv
  BY <1>1, <1>4 DEF DumpInv, OwnerIsInside, WriterInv, FreshInv, At, Tids, OMV, IDE
<1>3. MutexInv /\ FrameInv
  BY <1>1 DEF MutexInv, Inside, FrameInv, At, Tids, OMV, IDE
<1> QED BY <1>2, <1>3, <1>5 DEF StreamInv

\* Every step of the two threads preserves the invariant.
LEMMA StreamStep ==
    ASSUME StreamInv, [Next]_vars
    PROVE  StreamInv'
<1>0. CASE UNCHANGED vars
  BY <1>0 DEF vars, bufVars, omvVars, ideVars, StreamInv, TypeInv, DumpInv, OwnerIsInside,
              WriterInv, FreshInv, MutexInv, Inside, FrameInv, At
<1> SUFFICES ASSUME Next PROVE StreamInv'
  BY <1>0
<1>2. CASE \E th \in Tids : MutexStep(th)
  BY <1>2, MutexStepKeeps
<1>3. CASE \E k \in Kinds, f \in BOOLEAN : Snapshot(k, f)
  BY <1>3, SnapshotKeeps
<1>4. CASE SensorReset \/ OmvStep
  BY <1>4, SensorResetKeeps, CompressFrameKeeps, CopyJpegKeeps, SkipFrameKeeps DEF OmvStep
<1>5. CASE FrameSize \/ FrameDump \/ IdeStep
  BY <1>5, FrameSizeKeeps, FrameDumpKeeps, FrameSizeAnswerKeeps, FrameSizeBusyKeeps,
     DumpChunkKeeps, DumpEndKeeps DEF IdeStep
<1>6. CASE \E e \in BOOLEAN : FbEnable(e)
  BY <1>6, FbEnableKeeps
<1> QED BY <1>2, <1>3, <1>4, <1>5, <1>6 DEF Next

\* The invariant holds in every state of the stream.
LEMMA StreamInvariant == Spec => []StreamInv
  BY InitStreamInv, StreamStep, PTL DEF Spec

\* FRAME_DUMP sends the frame FRAME_SIZE announced and no piece of another, for any frames
\* in any number of pieces, over the loads and stores of omvhal-mutex.c, as long as the
\* two threads have not both read the lock as free; a wiped owner does no harm here.
THEOREM FrameIsWhole == Spec => []NoTornFrame
<1>1. StreamInv => NoTornFrame
  BY DEF StreamInv, FrameInv, NoTornFrame
<1> QED BY StreamInvariant, <1>1, PTL

\* With compressed frames only, a dump sends no pixel older than the frame announced, even
\* over the mutex of the source, which two threads can both get.
THEOREM PixelsAreFresh == Spec => []NoStalePixels
<1>1. StreamInv => NoStalePixels
  BY DEF StreamInv, TypeInv, FreshInv, NoStalePixels
<1> QED BY StreamInvariant, <1>1, PTL

\* The lock is never left in the name of a thread that moved on, whichever way the loads
\* and stores of the two threads on the mutex interleave.
THEOREM OwnerIsHonest == Spec => []OwnerIsInside
<1>1. StreamInv => OwnerIsInside
  BY DEF StreamInv
<1> QED BY StreamInvariant, <1>1, PTL

----------------------------------------------------------------------------
(* The quality controller *)

CountInv == calm + overflow_count = KeepFrames

ControlInv == TypeOK /\ CountInv

\* Halving (framebuffer.c:141) lowers a quality above 1 and stops at 1.
LEMMA HalfInRange ==
    ASSUME NEW q \in Nat, q > 1
    PROVE  q \div 2 \in Nat /\ q \div 2 < q /\ q \div 2 >= 1
  OBVIOUS

\* The quality sensor_init sets lies between the two ceilings.
LEMMA ResetInRange ==
    LET r == ((QualityHigh - QualityLow) \div 2) + QualityLow
    IN  r \in 1 .. QualityHigh
<1> DEFINE d == QualityHigh - QualityLow
<1>1. d \in Nat /\ d \div 2 \in Nat /\ d \div 2 <= d
  BY JpegQualityAssumption DEF JpegQualityAssumption
<1> QED BY <1>1, JpegQualityAssumption DEF JpegQualityAssumption

\* The controller starts with quality 0 and an idle counter.
LEMMA InitControlInv == ControlInit => ControlInv
  BY JpegQualityAssumption
     DEF JpegQualityAssumption, ControlInit, QualityInit, ControlInv, TypeOK, CountInv

\* A frame that did not fit: the quality falls but not to 0.
LEMMA OverflowStep ==
    ASSUME ControlInv, Overflow
    PROVE  ControlInv' /\ quality' <= quality /\ (quality > 0 => quality' > 0)
<1> USE JpegQualityAssumption DEF JpegQualityAssumption, ControlInv, TypeOK, CountInv
<1>1. CASE quality > 1
  <2>1. quality' = quality \div 2 /\ overflow_count' = KeepFrames
        /\ last' = "overflow" /\ calm' = 0
    BY <1>1 DEF Overflow, Overflowed
  <2>2. quality' \in Nat /\ quality' < quality /\ quality' >= 1
    BY <1>1, <2>1, HalfInRange
  <2> QED BY <2>1, <2>2
<1>2. CASE ~(quality > 1)
  <2>1. UNCHANGED <<quality, overflow_count, calm>> /\ last' = "overflow"
    BY <1>2 DEF Overflow, Overflowed, qualityVars
  <2> QED BY <2>1
<1> QED BY <1>1, <1>2

\* A frame that fitted: counter and history move together, and the quality rises
\* only when the counter has run out.
LEMMA FitStep ==
    ASSUME ControlInv, NEW big \in BOOLEAN, Fit(big)
    PROVE  /\ ControlInv' /\ quality' >= quality
           /\ quality' # quality => calm' = KeepFrames
<1> USE JpegQualityAssumption DEF JpegQualityAssumption, ControlInv, TypeOK, CountInv
<1>1. QualityMax(big) \in Nat /\ QualityMax(big) <= QualityHigh
  BY DEF QualityMax
<1>2. /\ overflow_count' = IF overflow_count > 0 THEN overflow_count - 1 ELSE 0
      /\ calm' = IF calm < KeepFrames THEN calm + 1 ELSE calm
      /\ last' \in {"big", "small"}
  BY DEF Fit, Fitted
<1>3. overflow_count' \in 0 .. KeepFrames /\ calm' \in 0 .. KeepFrames /\ CountInv'
  BY <1>2
<1>4. /\ quality' \in 0 .. QualityHigh /\ quality' >= quality
      /\ quality' # quality => overflow_count' = 0
  BY <1>1 DEF Fit, Fitted
<1> QED BY <1>2, <1>3, <1>4

\* sensor_init sets the default quality and leaves the counter alone.
LEMMA ResetStep ==
    ASSUME ControlInv, Reset
    PROVE  ControlInv' /\ quality' > 0 /\ last' = "reset"
<1>1. quality' \in 1 .. QualityHigh
  BY ResetInRange DEF Reset, SensorQuality
<1>2. UNCHANGED <<overflow_count, calm>> /\ last' = "reset"
  BY DEF Reset, SensorQuality
<1> QED
  BY <1>1, <1>2, JpegQualityAssumption DEF JpegQualityAssumption, ControlInv, TypeOK, CountInv

\* What one step of the controller does, beside keeping the invariant.
LEMMA ControlStep ==
    ASSUME ControlInv, [ControlNext]_controlVars
    PROVE  /\ ControlInv'
           /\ quality > 0 => quality' > 0
           /\ quality' = quality + 1 => calm' = KeepFrames \/ last' = "reset"
<1>0. quality \in Nat
  BY DEF ControlInv, TypeOK
<1>1. CASE Overflow
  BY <1>0, <1>1, OverflowStep DEF ControlInv, TypeOK
<1>2. CASE \E big \in BOOLEAN : Fit(big)
  <2>1. PICK big \in BOOLEAN : Fit(big)
    BY <1>2
  <2> QED BY <1>0, <2>1, FitStep DEF ControlInv, TypeOK
<1>3. CASE Reset
  BY <1>3, ResetStep
<1>4. CASE UNCHANGED controlVars
  BY <1>0, <1>4 DEF controlVars, qualityVars, ControlInv, TypeOK, CountInv
<1> QED BY <1>1, <1>2, <1>3, <1>4 DEF ControlNext, Frame

\* The invariant holds in every state.
LEMMA ControlInvariant == ControlSpec => []ControlInv
<1>1. ControlInv /\ [ControlNext]_controlVars => ControlInv'
  BY ControlStep
<1> QED BY InitControlInv, <1>1, PTL DEF ControlSpec

\* Quality, counter and history stay in range for any board constants.
THEOREM TypeCorrect == ControlSpec => []TypeOK
  BY ControlInvariant, PTL DEF ControlInv

\* Once a sensor was initialised, no mix of overflows, fits and resets brings the
\* quality given to jpeg_compress back to 0.
THEOREM QualityStaysPositive == ControlSpec => NeverZero
<1>1. ControlInv /\ [ControlNext]_controlVars => [quality > 0 => quality' > 0]_controlVars
  BY ControlStep
<1> QED BY ControlInvariant, <1>1, PTL DEF ControlSpec, NeverZero

\* "Keep this quality for the next n frames" (framebuffer.c:139), for every n: a
\* frame raises the quality only when n frames fitted since it was lowered.
THEOREM QualityKept == ControlSpec => KeptForFrames
<1>1. ControlInv /\ [ControlNext]_controlVars
        => [quality' = quality + 1 => calm' = KeepFrames \/ last' = "reset"]_controlVars
  BY ControlStep
<1> QED BY ControlInvariant, <1>1, PTL DEF ControlSpec, KeptForFrames
=============================================================================
