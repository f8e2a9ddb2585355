------------------------------- MODULE DvpBus -------------------------------
(***************************************************************************)
(* The camera bus (openmv/omv/hal/k210/cambus.c): cambus_read_pixels on    *)
(* the OpenMV thread, the interrupt handler sensor_irq, and the DVP        *)
(* peripheral and camera they drive.  Each action is one access to the     *)
(* shared flag or to a DVP register, because the handler may run on the    *)
(* other core: plic_irq_enable enables the interrupt on the core the       *)
(* thread happens to be on, and the thread migrates.                       *)
(*                                                                         *)
(* The peripheral is external, modelled from how the code uses it: frame   *)
(* start and frame finish are status bits, DVP_EN arms the conversion of   *)
(* one frame, and a converted frame ends with frame finish.  The camera    *)
(* sends frames on its own.  Actions here leave the state of sensor.c to   *)
(* the module that extends this one.                                       *)
(***************************************************************************)
EXTENDS Integers

CONSTANTS Sizes,       \* frame sizes, as numbers of pixels
          Formats,     \* pixel formats the script may ask for
          CamFormats,  \* pixel formats the camera chip can be set to
          Worlds,      \* which of "slow" and "smp" may hold of the machine
          BufSize,     \* framebuffer_get_buffer_size()
          NFrames      \* frames a steady camera sends within timeout_ms

AllFormats == {"RGB565", "YUV422", "GRAYSCALE", "BAYER", "JPEG"}

ASSUME DvpAssumption ==
    /\ Sizes \subseteq Nat \ {0}
    /\ Formats \subseteq AllFormats
    /\ CamFormats \subseteq AllFormats
    /\ Worlds \subseteq SUBSET {"slow", "smp"}
    /\ BufSize \in Nat \ {0}
    /\ NFrames \in Nat

VARIABLES
    world,   \* "slow": frames may stay away longer than timeout_ms;
             \* "smp": the handler runs on the other core
    flag,    \* g_dvp_finish_flag
    cfg,     \* dvp_cfg: interrupt enable, image size and image format
    sts,     \* the status bits that are set: "start", "finish"
    armed,   \* DVP_EN
    plic,    \* the DVP interrupt is enabled
    irq,     \* where the handler is
    icfg,    \* the copy of dvp_cfg the handler modifies
    cam,     \* the camera: powered, its format, the phase of its frame
    busy,    \* the DVP is writing a frame
    buf,     \* what the frame buffer holds
    bus,     \* omvhal_cambus_t: size and pixformat
    pc,      \* where the thread is
    arg,     \* argument of the setter in progress
    tmp,     \* the copy of dvp_cfg the thread modifies
    frames   \* frames sent since the thread began to wait

hardware == <<sts, armed, cam, busy, buf>>
handler == <<irq, icfg>>
caller == <<bus, pc, arg, tmp>>
busVars == <<world, flag, cfg, plic, hardware, handler, caller, frames>>

Slow == "slow" \in world
Smp == "smp" \in world

NoCfg == [int |-> FALSE, size |-> 0, fmt |-> "RGB565"]
NoBus == [size |-> 0, fmt |-> "none"]

BusInit ==
    /\ world \in Worlds
    /\ flag = 0
    /\ cfg = NoCfg /\ sts = {} /\ armed = FALSE /\ plic = FALSE
    /\ irq = "none" /\ icfg = NoCfg
    /\ cam = [on |-> TRUE, fmt |-> "none", phase |-> "blank"]
    /\ busy = FALSE
    /\ buf = [pixels |-> "none", size |-> 0]
    /\ bus = NoBus
    /\ pc = "idle" /\ arg = 0 /\ tmp = NoCfg
    /\ frames = 0

----------------------------------------------------------------------------
(* sensor_irq.  On one core the thread stands still while it runs.         *)

ThreadRuns == Smp \/ irq = "none"
Pending == irq = "none" /\ plic /\ cfg.int /\ sts # {}

Irq ==
    /\ Pending
    /\ irq' = "test"
    /\ UNCHANGED <<world, flag, cfg, plic, hardware, icfg, caller, frames>>

\* A frame is already there: read dvp_cfg to take the interrupt enables out.
IrqTest ==
    /\ irq = "test"
    /\ irq' = IF flag = 1 THEN "mask" ELSE "look"
    /\ icfg' = IF flag = 1 THEN cfg ELSE icfg
    /\ UNCHANGED <<world, flag, cfg, plic, hardware, caller, frames>>

IrqMask ==
    /\ irq = "mask"
    /\ cfg' = [icfg EXCEPT !.int = FALSE]
    /\ irq' = "look" /\ icfg' = NoCfg
    /\ UNCHANGED <<world, flag, plic, hardware, caller, frames>>

IrqLook ==
    /\ irq = "look"
    /\ irq' = IF "finish" \in sts THEN "end" ELSE "begin"
    /\ UNCHANGED <<world, flag, cfg, plic, hardware, icfg, caller, frames>>

IrqEnd ==
    /\ irq = "end"
    /\ sts' = {}
    /\ irq' = "raise"
    /\ UNCHANGED <<world, flag, cfg, plic, armed, cam, busy, buf, icfg, caller, frames>>

IrqRaise ==
    /\ irq = "raise"
    /\ flag' = 1
    /\ irq' = "none"
    /\ UNCHANGED <<world, cfg, plic, hardware, icfg, caller, frames>>

\* Fault: the flag is raised when the conversion starts.
IrqBeginRaises ==
    /\ irq = "begin"
    /\ armed' = (armed \/ flag = 0)
    /\ flag' = 1
    /\ irq' = "ack"
    /\ UNCHANGED <<world, cfg, plic, sts, cam, busy, buf, icfg, caller, frames>>

IrqBegin ==
    /\ irq = "begin"
    /\ armed' = (armed \/ flag = 0)
    /\ irq' = "ack"
    /\ UNCHANGED <<world, flag, cfg, plic, sts, cam, busy, buf, icfg, caller, frames>>

IrqAck ==
    /\ irq = "ack"
    /\ sts' = sts \ {"start"}
    /\ irq' = "none"
    /\ UNCHANGED <<world, flag, cfg, plic, armed, cam, busy, buf, icfg, caller, frames>>

IrqStep == IrqTest \/ IrqMask \/ IrqLook \/ IrqEnd \/ IrqRaise \/ IrqBegin \/ IrqAck

----------------------------------------------------------------------------
(* The camera and the DVP (external).  The phases of a frame are longer    *)
(* than it takes to serve an interrupt.                                    *)

\* Two bytes a pixel go to the frame buffer, the gray plane behind it: a frame that
\* is too large runs into the plane.
Content(camera, dvp) ==
    CASE 2 * cfg.size > BufSize -> "garbage"
      [] dvp = "GRAYSCALE" /\ camera = "YUV422" -> "gray planes"
      [] dvp = camera /\ camera \in {"RGB565", "YUV422"} -> "rgb pairs"
      [] OTHER -> "garbage"

InTime == irq = "none" /\ ~Pending

\* The loop of cambus_read_pixels: it tests the flag, or is between that and the
\* test of the tick.
Waiting == pc \in {"wait", "delay"}

FrameStart ==
    /\ cam.on /\ cam.phase = "blank" /\ InTime
    /\ cam' = [cam EXCEPT !.phase = "sync"]
    /\ sts' = sts \cup {"start"}
    /\ UNCHANGED <<world, flag, cfg, plic, armed, busy, buf, handler, caller, frames>>

\* The DVP looks at DVP_EN when the first line comes.
FirstLine ==
    /\ cam.phase = "sync" /\ InTime
    /\ cam' = [cam EXCEPT !.phase = "lines"]
    /\ busy' = armed
    /\ armed' = FALSE
    /\ buf' = IF armed THEN [pixels |-> "part", size |-> cfg.size] ELSE buf
    /\ UNCHANGED <<world, flag, cfg, plic, sts, handler, caller, frames>>

LastLine ==
    /\ cam.phase = "lines" /\ InTime
    /\ cam' = [cam EXCEPT !.phase = "blank"]
    /\ busy' = FALSE
    /\ sts' = IF busy THEN sts \cup {"finish"} ELSE sts
    /\ buf' = IF ~busy THEN buf
              ELSE [pixels |-> IF buf.size = cfg.size THEN Content(cam.fmt, cfg.fmt)
                               ELSE "garbage", size |-> cfg.size]
    /\ frames' = IF Waiting /\ frames < NFrames THEN frames + 1 ELSE frames
    /\ UNCHANGED <<world, flag, cfg, plic, armed, handler, caller>>

Hardware == FrameStart \/ FirstLine \/ LastLine

----------------------------------------------------------------------------
(* cambus_set_pixformat and cambus_set_image_size: load dvp_cfg, then store *)
(* it with the new field.  A format the DVP does not have is refused after  *)
(* the bus has taken it over.                                               *)

DvpFormats == {"RGB565", "YUV422", "GRAYSCALE"}

\* *pixformat on return: YUV422 comes out of the DVP as RGB565.
BusFormat(p) == IF p = "YUV422" THEN "RGB565" ELSE p

\* cambus_sensor_pixformat_modify: a gray image is taken from YUV.
CamFormat(p) == IF p = "GRAYSCALE" THEN "YUV422" ELSE p

----------------------------------------------------------------------------
(* cambus_read_pixels *)

\* The addresses never change: MAIN_FB()->pixels and what lies behind it.
ClearFlag ==
    /\ pc = "read" /\ ThreadRuns
    /\ flag' = 0
    /\ pc' = "clear"
    /\ UNCHANGED <<world, cfg, plic, hardware, handler, bus, arg, tmp, frames>>

\* sensor_run(1), one DVP register access at a time.
ClearStatus ==
    /\ pc = "clear" /\ ThreadRuns
    /\ sts' = {}
    /\ plic' = TRUE
    /\ pc' = "load"
    /\ UNCHANGED <<world, flag, cfg, armed, cam, busy, buf, handler, bus, arg, tmp, frames>>

LoadCfg ==
    /\ pc = "load" /\ ThreadRuns
    /\ tmp' = cfg
    /\ pc' = "enable"
    /\ UNCHANGED <<world, flag, cfg, plic, hardware, handler, bus, arg, frames>>

EnableInt ==
    /\ pc = "enable" /\ ThreadRuns
    /\ cfg' = [tmp EXCEPT !.int = TRUE]
    /\ tmp' = NoCfg
    /\ frames' = 0
    /\ pc' = "wait"
    /\ UNCHANGED <<world, flag, plic, hardware, handler, bus, arg>>

FrameSeen ==
    /\ pc = "wait" /\ ThreadRuns
    /\ flag = 1
    /\ pc' = "fix"
    /\ frames' = 0
    /\ UNCHANGED <<world, flag, cfg, plic, hardware, handler, bus, arg, tmp>>

NotYet ==
    /\ pc = "wait" /\ ThreadRuns
    /\ flag = 0
    /\ pc' = "delay"
    /\ UNCHANGED <<world, flag, cfg, plic, hardware, handler, bus, arg, tmp, frames>>

TimeLeft ==
    /\ pc = "delay" /\ ThreadRuns
    /\ pc' = "wait"
    /\ UNCHANGED <<world, flag, cfg, plic, hardware, handler, bus, arg, tmp, frames>>

\* Fault: the loop counts frames instead of ticks.
GiveUpAfterFrames ==
    /\ pc = "delay" /\ ThreadRuns
    /\ frames = NFrames
    /\ pc' = "idle"
    /\ frames' = 0
    /\ UNCHANGED <<world, flag, cfg, plic, hardware, handler, bus, arg, tmp>>

\* The time is up (bound: a steady camera has sent NFrames); the flag may have
\* been raised since it was tested.
GiveUp ==
    /\ pc = "delay" /\ ThreadRuns
    /\ Slow \/ ~cam.on \/ frames = NFrames
    /\ pc' = "idle"
    /\ frames' = 0
    /\ UNCHANGED <<world, flag, cfg, plic, hardware, handler, bus, arg, tmp>>

\* Fault: the gray plane is not copied.
FixedNoGray(b) ==
    [b EXCEPT !.pixels =
        IF bus.fmt # "GRAYSCALE" /\ b.pixels = "rgb pairs" THEN "rgb" ELSE b.pixels]

\* The gray plane copied over the buffer, or the pixels of each pair swapped.
Fixed(b) ==
    [b EXCEPT !.pixels =
        CASE bus.size = 0 -> b.pixels
          [] bus.fmt = "GRAYSCALE" /\ b.pixels = "gray planes" -> "gray"
          [] bus.fmt # "GRAYSCALE" /\ b.pixels = "rgb pairs" -> "rgb"
          [] OTHER -> "garbage"]

ReadStep == ClearFlag \/ ClearStatus \/ LoadCfg \/ EnableInt
=============================================================================
