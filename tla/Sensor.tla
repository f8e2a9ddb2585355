------------------------------- MODULE Sensor -------------------------------
(***************************************************************************)
(* The sensor layer (openmv/omv/sensor.c) over the camera bus: the setters *)
(* a script calls, sensor_reset, and sensor_snapshot, which previews the   *)
(* frame buffer to the IDE, checks that the next frame fits, reads it and  *)
(* hands it out as an image.  A size is its number of pixels; w x h of the *)
(* main frame buffer is "w", u x v is "u".  cambus_dcmi_abort is empty on  *)
(* this board, so the calls of dcmi_abort leave no trace here.             *)
(***************************************************************************)
EXTENDS DvpBus

VARIABLES
    pixformat,   \* sensor.pixformat
    framesize,   \* sensor.framesize
    fb,          \* MAIN_FB(): w, u and bpp
    image,       \* what the last call returned: an image, or NoImage for other calls
    late,        \* a capture has timed out and the DVP was not reset since
    refused      \* a pixel format was refused since the last reset

sensorVars == <<pixformat, framesize, fb, image>>
history == <<late, refused>>
vars == <<busVars, sensorVars, history>>

NoImage == [w |-> 0, bpp |-> -1]

\* sensor_reset has run once: the sensor module raises before that.
Init ==
    /\ BusInit
    /\ pixformat = "none" /\ framesize = 0
    /\ fb = [w |-> 0, u |-> 0, bpp |-> 0]
    /\ image = NoImage
    /\ late = FALSE /\ refused = FALSE

----------------------------------------------------------------------------
(* The setters: called between snapshots, on the thread.                   *)

Idle == pc = "idle" /\ ThreadRuns

\* sensor_set_pixformat, up to the store in dvp_cfg.  The camera may refuse
\* the format; the DVP refuses what is left of it after the camera took it.
PixformatChange(p) ==
    /\ p # pixformat
    /\ ~(pixformat = "BAYER" /\ p = "RGB565" /\ fb.u * 2 > BufSize /\ fb.u <= BufSize)
    /\ ~(p = "JPEG" /\ fb.u # framesize)

CamRefuses(p) ==
    /\ CamFormat(p) \notin CamFormats
    /\ UNCHANGED <<cam, bus, refused>>

DvpRefuses(p) ==
    /\ CamFormat(p) \in CamFormats
    /\ p \notin DvpFormats
    /\ cam' = [cam EXCEPT !.fmt = CamFormat(p)]
    /\ bus' = [bus EXCEPT !.fmt = p]
    /\ refused' = TRUE

SetPixformat(p) ==
    /\ Idle
    /\ PixformatChange(p)
    /\ image' = NoImage
    /\ \/ /\ CamRefuses(p) \/ DvpRefuses(p)
          /\ UNCHANGED <<pc, arg>>
       \/ /\ CamFormat(p) \in CamFormats /\ p \in DvpFormats
          /\ cam' = [cam EXCEPT !.fmt = CamFormat(p)]
          /\ arg' = p /\ pc' = "settle"
          /\ UNCHANGED <<bus, refused>>
    /\ UNCHANGED <<world, flag, cfg, plic, sts, armed, busy, buf, handler, tmp, frames>>
    /\ UNCHANGED <<pixformat, framesize, fb, late>>

\* "wait for the camera to settle", then the load of dvp_cfg.
LoadFormat ==
    /\ pc = "settle" /\ ThreadRuns
    /\ tmp' = cfg
    /\ pc' = "format"
    /\ UNCHANGED <<world, flag, cfg, plic, hardware, handler, bus, arg, frames>>
    /\ UNCHANGED <<sensorVars, history>>

StoreFormat ==
    /\ pc = "format" /\ ThreadRuns
    /\ cfg' = [tmp EXCEPT !.fmt = arg]
    /\ bus' = [bus EXCEPT !.fmt = BusFormat(arg)]
    /\ pixformat' = BusFormat(arg)
    /\ fb' = [fb EXCEPT !.bpp = -1]
    /\ pc' = "idle" /\ arg' = 0 /\ tmp' = NoCfg
    /\ UNCHANGED <<world, flag, plic, hardware, handler, frames, framesize, image, history>>

SetFramesize(f) ==
    /\ Idle
    /\ f # framesize
    /\ image' = NoImage
    /\ tmp' = cfg
    /\ arg' = f /\ pc' = "size"
    /\ UNCHANGED <<world, flag, cfg, plic, hardware, handler, bus, frames>>
    /\ UNCHANGED <<pixformat, framesize, fb, history>>

\* Fault: the first frame of the new size is not skipped.
StoreSizeKeepsFrame ==
    /\ pc = "size" /\ ThreadRuns
    /\ cfg' = [tmp EXCEPT !.size = arg]
    /\ bus' = [bus EXCEPT !.size = arg]
    /\ framesize' = arg
    /\ fb' = [fb EXCEPT !.w = arg, !.u = arg]
    /\ pc' = "idle" /\ arg' = 0 /\ tmp' = NoCfg
    /\ UNCHANGED <<world, flag, plic, hardware, handler, frames, pixformat, image, history>>

StoreSize ==
    /\ pc = "size" /\ ThreadRuns
    /\ cfg' = [tmp EXCEPT !.size = arg]
    /\ bus' = [bus EXCEPT !.size = arg]
    /\ framesize' = arg
    /\ fb' = [w |-> arg, u |-> arg, bpp |-> -1]
    /\ pc' = "idle" /\ arg' = 0 /\ tmp' = NoCfg
    /\ UNCHANGED <<world, flag, plic, hardware, handler, frames, pixformat, image, history>>

\* sensor_set_windowing: a smaller window inside the frame.
WindowInside(n) == n <= framesize

SetWindowing(n) ==
    /\ Idle
    /\ WindowInside(n)
    /\ pixformat # "JPEG"
    /\ fb' = [fb EXCEPT !.w = n, !.u = n]
    /\ image' = NoImage
    /\ UNCHANGED <<busVars, pixformat, framesize, history>>

\* sensor_shutdown: the camera stops between frames (or starts again).
Shutdown ==
    /\ Idle
    /\ cam.phase = "blank"
    /\ cam' = [cam EXCEPT !.on = ~@]
    /\ image' = NoImage
    /\ UNCHANGED <<world, flag, cfg, plic, sts, armed, busy, buf, handler, caller, frames>>
    /\ UNCHANGED <<pixformat, framesize, fb, history>>

\* sensor_reset: the DVP is reset as a whole and the camera powered up; MAIN_FB()
\* keeps its fields.  The delays outlast any handler that was running.
Reset ==
    /\ Idle
    /\ irq = "none"
    /\ cfg' = NoCfg /\ sts' = {} /\ armed' = FALSE
    /\ cam' = [on |-> TRUE, fmt |-> "none", phase |-> "blank"]
    /\ busy' = FALSE
    /\ bus' = NoBus
    /\ pixformat' = "none" /\ framesize' = 0
    /\ image' = NoImage
    /\ late' = FALSE /\ refused' = FALSE
    /\ UNCHANGED <<world, flag, plic, buf, handler, pc, arg, tmp, frames, fb>>

----------------------------------------------------------------------------
(* sensor_snapshot *)

\* fb_update_jpeg_buffer reads the frame buffer when it holds a frame.
Snapshot ==
    /\ Idle
    /\ image' = NoImage
    /\ pc' = IF fb.bpp >= 0 THEN "preview" ELSE "check"
    /\ UNCHANGED <<world, flag, cfg, plic, hardware, handler, bus, arg, tmp, frames>>
    /\ UNCHANGED <<pixformat, framesize, fb, history>>

PreviewDone ==
    /\ pc = "preview" /\ ThreadRuns
    /\ pc' = "check"
    /\ UNCHANGED <<world, flag, cfg, plic, hardware, handler, bus, arg, tmp, frames>>
    /\ UNCHANGED <<sensorVars, history>>

BytesPerPixel(p) == IF p \in {"RGB565", "YUV422"} THEN 2 ELSE 1

\* sensor_check_buffsize: nothing to do, or RGB565 becomes BAYER (the result of
\* sensor_set_pixformat is not looked at, and the DVP refuses BAYER), and then
\* u x v is cropped to fit, by a step that keeps the aspect ratio (any n here).
Fits(p) == p = "none" \/ fb.u * BytesPerPixel(p) <= BufSize

CheckBuffsize ==
    /\ pc = "check" /\ ThreadRuns
    /\ pc' = "read"
    /\ IF pixformat = "RGB565" /\ ~Fits(pixformat)
       THEN CamRefuses("BAYER") \/ DvpRefuses("BAYER")
       ELSE UNCHANGED <<cam, bus, refused>>
    /\ \/ /\ Fits(pixformat) \/ (pixformat = "RGB565" /\ fb.u <= BufSize)
          /\ UNCHANGED fb
       \/ /\ ~Fits(pixformat) /\ fb.u > BufSize
          /\ \E n \in {s \in Sizes : s <= BufSize} : fb' = [fb EXCEPT !.u = n]
    /\ UNCHANGED <<world, flag, cfg, plic, sts, armed, busy, buf, handler, arg, tmp, frames>>
    /\ UNCHANGED <<pixformat, framesize, image, late>>

ReadPixels ==
    /\ ReadStep \/ NotYet \/ TimeLeft \/ FrameSeen
    /\ UNCHANGED <<sensorVars, history>>

\* sensor_snapshot returns -5: the interrupt stays enabled, the frame may come.
TimedOut ==
    /\ GiveUp
    /\ late' = TRUE
    /\ UNCHANGED <<sensorVars, refused>>

\* The pixels are put right, bpp is set and the image filled in.
Deliver ==
    /\ pc = "fix" /\ ThreadRuns
    /\ buf' = Fixed(buf)
    /\ fb' = [fb EXCEPT !.bpp = CASE pixformat = "GRAYSCALE" -> 1
                                  [] pixformat = "RGB565" -> 2
                                  [] OTHER -> @]
    /\ image' = [w |-> fb.w, bpp |-> fb'.bpp]
    /\ pc' = "idle"
    /\ UNCHANGED <<world, flag, cfg, plic, sts, armed, cam, busy, handler, bus, arg, tmp, frames>>
    /\ UNCHANGED <<pixformat, framesize, history>>

Setter ==
    \/ \E p \in Formats : SetPixformat(p)
    \/ \E f \in Sizes : SetFramesize(f) \/ SetWindowing(f)
    \/ LoadFormat \/ StoreFormat \/ StoreSize \/ Shutdown \/ Reset

Capture == Snapshot \/ PreviewDone \/ CheckBuffsize \/ ReadPixels \/ TimedOut \/ Deliver

Machine == (Irq \/ IrqStep \/ Hardware) /\ UNCHANGED <<sensorVars, history>>

Next == Setter \/ Capture \/ Machine

Spec == Init /\ [][Next]_vars

\* The thread and the handler run on, the camera, while it is powered, sends frames,
\* and the clock moves: once the time is up every test of the tick says so.
Fairness ==
    /\ WF_vars(Capture) /\ SF_vars(TimedOut) /\ WF_vars(LoadFormat \/ StoreFormat \/ StoreSize)
    /\ WF_vars(Machine)

FairSpec == Spec /\ Fairness

----------------------------------------------------------------------------
(* Properties *)

InCapture == pc \in {"clear", "load", "enable", "wait", "delay", "fix"}

\* The DVP registers, the bus, MAIN_FB() and the format of the sensor layer stay in
\* their ranges: a refused format never becomes the sensor's or an image's.
TypeOK ==
    /\ flag \in {0, 1}
    /\ {cfg, icfg, tmp} \subseteq
         [int : BOOLEAN, size : Sizes \cup {0}, fmt : DvpFormats]
    /\ sts \subseteq {"start", "finish"}
    /\ {armed, plic, busy, late, refused} \subseteq BOOLEAN
    /\ bus \in [size : Sizes \cup {0}, fmt : AllFormats \cup {"none"}]
    /\ pixformat \in DvpFormats \cup {"none"}
    /\ framesize \in Sizes \cup {0}
    /\ fb.w \in Nat /\ fb.u \in Nat /\ fb.bpp \in {-1, 0, 1, 2}
    /\ frames \in 0 .. NFrames

\* "w" and "bpp" describe what the frame buffer holds: one whole frame, in that
\* size and format.
Describes(w, bpp) ==
    /\ buf.size = w
    /\ \/ bpp = 2 /\ buf.pixels = "rgb"
       \/ bpp = 1 /\ buf.pixels = "gray"

\* One core, no time-out, no refused format, format and size set, no window and a
\* size that fits.
Regular ==
    /\ ~Smp /\ ~late /\ ~refused
    /\ pixformat # "none" /\ framesize # 0 /\ fb.w = framesize
    /\ 2 * framesize <= BufSize

\* An image a script gets from sensor.snapshot holds one whole frame in the size
\* and format it claims, in spite of setters between snapshots and of a handler
\* that runs late.
ImageRight ==
    image # NoImage /\ Regular => Describes(image.w, image.bpp)

\* The preview for the IDE never compresses a frame that is being written or one
\* of another size or format: setters skip "the first frame" with bpp = -1.
PreviewRight ==
    pc = "preview" /\ Regular => ~busy /\ Describes(fb.w, fb.bpp)

\* Outside cambus_read_pixels the DVP does not write to the frame buffer and is
\* not armed to, unless a capture was given up.
QuietOutside == ~InCapture /\ ~late /\ ~Smp => ~busy /\ ~armed

\* When the loop sees the flag, the frame buffer holds a whole frame and the DVP
\* has stopped writing, also when it is the frame of a call that was given up.
WholeWhenSeen == pc = "fix" /\ ~Smp => ~busy /\ buf.pixels # "part"

\* The RGB565 frame the DVP writes stays inside the frame buffer: snapshot makes
\* "sure the raw frame fits into the FB", switched to BAYER "before being cropped
\* until it fits" (sensor.c:1011).
FrameFits == busy /\ pixformat = "RGB565" => 2 * cfg.size <= BufSize

\* sensor.snapshot does not wait for ever, for a frame or for a camera that is off.
SnapshotReturns == Waiting ~> ~Waiting
=============================================================================
