---------------------------- MODULE SensorProofs ----------------------------
(***************************************************************************)
(* What the camera stack promises on one core, proved for every set of     *)
(* frame sizes and formats, every camera, frame buffer size and time-out:  *)
(* the registers and MAIN_FB() stay in their ranges, a frame is whole when *)
(* cambus_read_pixels sees it, the DVP is quiet between two calls, and an  *)
(* image or a preview shows one whole frame of the current settings.       *)
(***************************************************************************)
EXTENDS Sensor, TLAPS

\* What a frame buffer may hold.
Contents == {"none", "part", "garbage", "gray planes", "rgb pairs", "gray", "rgb"}

Cfgs == [int : BOOLEAN, size : Sizes \cup {0}, fmt : DvpFormats]
Buses == [size : Sizes \cup {0}, fmt : AllFormats \cup {"none"}]
Fbs == [w : Nat, u : Nat, bpp : {-1, 0, 1, 2}]
Cams == [on : BOOLEAN, fmt : AllFormats \cup {"none"}, phase : {"blank", "sync", "lines"}]
Bufs == [pixels : Contents, size : Sizes \cup {0}]

\* The registers and the variables of the sensor layer, one by one.
RegisterInv ==
    /\ flag \in {0, 1}
    /\ cfg \in Cfgs /\ icfg \in Cfgs /\ tmp \in Cfgs
    /\ sts \subseteq {"start", "finish"}
    /\ bus \in Buses
    /\ pixformat \in DvpFormats \cup {"none"}
    /\ framesize \in Sizes \cup {0}
    /\ frames \in 0 .. NFrames

BitInv ==
    /\ armed \in BOOLEAN /\ plic \in BOOLEAN /\ busy \in BOOLEAN
    /\ late \in BOOLEAN /\ refused \in BOOLEAN

\* MAIN_FB(), the camera and the frame buffer.
RecordInv ==
    /\ fb \in Fbs /\ cam \in Cams /\ buf \in Bufs
    /\ irq \in {"none", "test", "mask", "look", "end", "raise", "begin", "ack"}

\* The argument of the setter in progress, kept from its first half for its second.
ArgInv ==
    /\ pc \in {"settle", "format"} => arg \in DvpFormats
    /\ pc = "size" => arg \in Sizes

\* While a frame is written the handler has nothing to do: the start of the frame was
\* acknowledged before the first line, and the next start is a frame away.
WritingInv ==
    busy => irq = "none" /\ sts = {} /\ cam.phase = "lines" /\ ~armed

\* A conversion that was asked for is announced: the interrupt stays enabled from the
\* moment the DVP is armed until the flag is up, whatever setter copies dvp_cfg.
AnnouncedInv ==
    /\ armed \/ busy => cfg.int /\ plic
    /\ irq # "none" /\ flag = 0 => cfg.int /\ plic
    /\ pc \in {"format", "size"} /\ cfg.int => tmp.int
    /\ pc \notin {"format", "size", "enable"} => tmp = NoCfg

\* From frame finish on, the DVP stays still and the frame buffer whole until the
\* next call clears the flag.
DoneInv ==
    /\ flag = 1 \/ "finish" \in sts \/ irq = "raise" =>
         ~busy /\ ~armed /\ buf.pixels # "part"
    /\ irq = "begin" => "finish" \notin sts
    /\ irq = "end" => "finish" \in sts
    /\ irq = "mask" => flag = 1
    /\ pc = "fix" => flag = 1

\* Between two calls either the flag is up or the interrupt is off.
RestInv ==
    ~InCapture /\ ~late =>
       /\ ~busy /\ ~armed
       /\ flag = 1 \/ (~cfg.int /\ ~tmp.int /\ irq = "none")

OneCoreInv == ~Smp => WritingInv /\ AnnouncedInv /\ DoneInv /\ RestInv

TypeInv == RegisterInv /\ BitInv /\ RecordInv /\ ArgInv

SensorInv == TypeInv /\ OneCoreInv

\* Every copy of dvp_cfg in flight, the bus and the sensor agree on the frame size, and
\* a copy differs from dvp_cfg only in the field its owner is about to store.
CopyInv ==
    /\ cfg.size = framesize /\ bus.size = framesize
    /\ pc \in {"format", "enable"} => tmp.size = cfg.size
    /\ pc \in {"size", "enable"} => tmp.fmt = cfg.fmt
    /\ irq = "mask" => icfg.size = cfg.size /\ icfg.fmt = cfg.fmt

\* The camera, the DVP, the bus and the sensor agree on the format, except in the
\* middle of sensor_set_pixformat and after a refused format.
FormatInv ==
    /\ pixformat # "none" => BusFormat(cfg.fmt) = pixformat
    /\ ~refused => bus.fmt = pixformat
    /\ pc \in {"settle", "format"} => cam.fmt = CamFormat(arg)
    /\ ~refused /\ pixformat # "none" /\ pc \notin {"settle", "format"} =>
         cam.fmt = CamFormat(cfg.fmt)

\* The frame buffer holds a frame as the DVP writes it now.
FrameRight == buf.size = cfg.size /\ buf.pixels = Content(cam.fmt, cfg.fmt)

\* The frame of a call that is not given up: frame finish is taken once, inside the
\* call, and from then on the buffer holds the frame of the current settings.
CaptureInv ==
    /\ flag = 1 \/ irq = "raise" => "finish" \notin sts
    /\ ~InCapture => "finish" \notin sts
    /\ InCapture /\ busy => buf.size = cfg.size
    /\ InCapture /\ (flag = 1 \/ "finish" \in sts \/ irq = "raise") => FrameRight

\* Regular without the window: the state PreviewRight and ImageRight speak of, on any
\* number of cores.
Clean ==
    /\ ~late /\ ~refused
    /\ pixformat # "none" /\ framesize # 0
    /\ 2 * framesize <= BufSize

\* Between two captures bpp is -1 or says what the frame buffer holds, and a preview
\* is made in the second case only.
ShownInv ==
    /\ pc = "preview" => fb.bpp >= 0
    /\ Clean /\ ~InCapture /\ fb.bpp >= 0 => Describes(framesize, fb.bpp)

\* An image is out only between two calls, and MAIN_FB() still describes it.
ImageInv ==
    image # NoImage =>
      /\ pc = "idle"
      /\ image.w = fb.w /\ image.bpp = fb.bpp
      /\ pixformat # "none" => fb.bpp \in {1, 2}

PictureInv ==
    ~Smp => CopyInv /\ FormatInv /\ (~late => CaptureInv) /\ ShownInv /\ ImageInv

----------------------------------------------------------------------------
(* Assigning a field of a record keeps the record in its type.            *)

\* dvp_cfg: the values the code writes into it one field at a time.
LEMMA CfgFields ==
    /\ NoCfg \in Cfgs
    /\ \A c \in Cfgs :
         /\ [c EXCEPT !.int = TRUE] \in Cfgs /\ [c EXCEPT !.int = FALSE] \in Cfgs
         /\ \A s \in Sizes : [c EXCEPT !.size = s] \in Cfgs
         /\ \A p \in DvpFormats : [c EXCEPT !.fmt = p] \in Cfgs
  BY DEF NoCfg, Cfgs, DvpFormats

\* omvhal_cambus_t takes every size and every format, refused ones included.
LEMMA BusFields ==
    /\ NoBus \in Buses
    /\ \A b \in Buses :
         /\ \A s \in Sizes : [b EXCEPT !.size = s] \in Buses
         /\ \A p \in AllFormats : [b EXCEPT !.fmt = p] \in Buses
    /\ "BAYER" \in AllFormats
  BY DEF NoBus, Buses, AllFormats

\* The conversions of a format on its way to the camera and back.
LEMMA FormatFields ==
    /\ Formats \subseteq AllFormats
    /\ \A p \in DvpFormats : BusFormat(p) \in DvpFormats /\ BusFormat(p) \in AllFormats
    /\ \A p \in AllFormats : CamFormat(p) \in AllFormats
    /\ "BAYER" \in AllFormats
  BY DvpAssumption DEF DvpAssumption, DvpFormats, AllFormats, BusFormat, CamFormat

\* MAIN_FB(): sizes and the byte counts snapshot and the setters store.
LEMMA FbFields ==
    /\ \A b \in Fbs :
         /\ b.w \in Nat /\ b.u \in Nat
         /\ \A n \in Nat : [b EXCEPT !.w = n, !.u = n] \in Fbs /\ [b EXCEPT !.u = n] \in Fbs
         /\ [b EXCEPT !.bpp = -1] \in Fbs
         /\ \A p \in DvpFormats \cup {"none"} :
              [b EXCEPT !.bpp = CASE p = "GRAYSCALE" -> 1 [] p = "RGB565" -> 2
                                  [] OTHER -> @] \in Fbs
    /\ \A n \in Nat : [w |-> n, u |-> n, bpp |-> -1] \in Fbs
  BY DEF Fbs

\* The camera's format, phase and power.
LEMMA CamFields ==
    /\ [on |-> TRUE, fmt |-> "none", phase |-> "blank"] \in Cams
    /\ \A c \in Cams :
         /\ \A p \in AllFormats : [c EXCEPT !.fmt = p] \in Cams
         /\ \A ph \in {"blank", "sync", "lines"} : [c EXCEPT !.phase = ph] \in Cams
         /\ [c EXCEPT !.on = ~@] \in Cams
  BY DEF Cams, AllFormats

\* The frame buffer: a frame begun, a frame converted, a frame put right.
LEMMA BufFields ==
    ASSUME NEW c \in Cfgs, NEW b \in Bufs, NEW x, NEW y
    PROVE  /\ Fixed(b) \in Bufs
           /\ [pixels |-> "part", size |-> c.size] \in Bufs
           /\ [pixels |-> IF b.size = c.size THEN Content(x, y) ELSE "garbage",
               size |-> c.size] \in Bufs
  BY DEF Cfgs, Bufs, Contents, Fixed, Content

----------------------------------------------------------------------------
(* The ranges *)

\* The setters and sensor_reset keep the ranges: what the DVP refuses is never stored.
LEMMA SetterKeepsTypes ==
    ASSUME TypeInv, Setter
    PROVE  TypeInv'
<1> USE DEF TypeInv, hardware, handler, caller, busVars, sensorVars, history
<1>1. ASSUME NEW p \in Formats, SetPixformat(p) PROVE TypeInv'
  <2>1. RegisterInv'
    BY <1>1, BusFields, FormatFields DEF RegisterInv, SetPixformat, CamRefuses,
       DvpRefuses
  <2>2. BitInv'
    BY <1>1 DEF BitInv, SetPixformat, CamRefuses, DvpRefuses
  <2>3. RecordInv'
    BY <1>1, CamFields, FormatFields DEF RecordInv, SetPixformat, CamRefuses, DvpRefuses
  <2>4. ArgInv'
    BY <1>1 DEF ArgInv, SetPixformat, CamRefuses, DvpRefuses
  <2> QED
    BY <2>1, <2>2, <2>3, <2>4
<1>2. CASE LoadFormat
  <2>1. RegisterInv'
    BY <1>2 DEF RegisterInv, LoadFormat
  <2>2. BitInv'
    BY <1>2 DEF BitInv, LoadFormat
  <2>3. RecordInv'
    BY <1>2 DEF RecordInv, LoadFormat
  <2>4. ArgInv'
    BY <1>2 DEF ArgInv, LoadFormat
  <2> QED
    BY <2>1, <2>2, <2>3, <2>4
<1>3. CASE StoreFormat
  <2>0. arg \in DvpFormats
    BY <1>3 DEF ArgInv, StoreFormat
  <2>1. RegisterInv'
    BY <1>3, CfgFields, BusFields, FormatFields, <2>0 DEF RegisterInv, StoreFormat
  <2>2. BitInv'
    BY <1>3 DEF BitInv, StoreFormat
  <2>3. RecordInv'
    BY <1>3, FbFields DEF RecordInv, StoreFormat, RegisterInv
  <2>4. ArgInv'
    BY <1>3 DEF ArgInv, StoreFormat
  <2> QED
    BY <2>1, <2>2, <2>3, <2>4
<1>4. ASSUME NEW f \in Sizes, SetFramesize(f) PROVE TypeInv'
  <2>1. RegisterInv'
    BY <1>4 DEF RegisterInv, SetFramesize
  <2>2. BitInv'
    BY <1>4 DEF BitInv, SetFramesize
  <2>3. RecordInv'
    BY <1>4 DEF RecordInv, SetFramesize
  <2>4. ArgInv'
    BY <1>4 DEF ArgInv, SetFramesize
  <2> QED
    BY <2>1, <2>2, <2>3, <2>4
<1>5. CASE StoreSize
  <2>0. arg \in Sizes
    BY <1>5 DEF ArgInv, StoreSize
  <2>1. RegisterInv'
    BY <1>5, CfgFields, BusFields, <2>0 DEF RegisterInv, StoreSize
  <2>2. BitInv'
    BY <1>5 DEF BitInv, StoreSize
  <2>3. RecordInv'
    BY <1>5, FbFields, <2>0, DvpAssumption DEF RecordInv, StoreSize, DvpAssumption,
       RegisterInv
  <2>4. ArgInv'
    BY <1>5 DEF ArgInv, StoreSize
  <2> QED
    BY <2>1, <2>2, <2>3, <2>4
<1>6. ASSUME NEW n \in Sizes, SetWindowing(n) PROVE TypeInv'
  <2>1. RegisterInv'
    BY <1>6 DEF RegisterInv, SetWindowing
  <2>2. BitInv'
    BY <1>6 DEF BitInv, SetWindowing
  <2>3. RecordInv'
    BY <1>6, FbFields, DvpAssumption DEF RecordInv, SetWindowing, DvpAssumption,
       RegisterInv
  <2>4. ArgInv'
    BY <1>6 DEF ArgInv, SetWindowing
  <2> QED
    BY <2>1, <2>2, <2>3, <2>4
<1>7. CASE Shutdown
  <2>1. RegisterInv'
    BY <1>7 DEF RegisterInv, Shutdown
  <2>2. BitInv'
    BY <1>7 DEF BitInv, Shutdown
  <2>3. RecordInv'
    BY <1>7, CamFields DEF RecordInv, Shutdown
  <2>4. ArgInv'
    BY <1>7 DEF ArgInv, Shutdown
  <2> QED
    BY <2>1, <2>2, <2>3, <2>4
<1>8. CASE Reset
  <2>1. RegisterInv'
    BY <1>8, CfgFields, BusFields DEF RegisterInv, Reset
  <2>2. BitInv'
    BY <1>8 DEF BitInv, Reset
  <2>3. RecordInv'
    BY <1>8, CamFields DEF RecordInv, Reset
  <2>4. ArgInv'
    BY <1>8 DEF ArgInv, Reset
  <2> QED
    BY <2>1, <2>2, <2>3, <2>4
<1> QED
  BY <1>1, <1>2, <1>3, <1>4, <1>5, <1>6, <1>7, <1>8 DEF Setter

\* sensor_snapshot and cambus_read_pixels keep the ranges.
LEMMA CaptureKeepsTypes ==
    ASSUME TypeInv, Capture
    PROVE  TypeInv'
<1> USE DEF TypeInv, hardware, handler, caller, busVars, sensorVars, history
<1>1. CASE Snapshot
  <2>1. RegisterInv'
    BY <1>1 DEF RegisterInv, Snapshot
  <2>2. BitInv'
    BY <1>1 DEF BitInv, Snapshot
  <2>3. RecordInv'
    BY <1>1 DEF RecordInv, Snapshot
  <2>4. ArgInv'
    BY <1>1 DEF ArgInv, Snapshot
  <2> QED
    BY <2>1, <2>2, <2>3, <2>4
<1>2. CASE PreviewDone
  <2>1. RegisterInv'
    BY <1>2 DEF RegisterInv, PreviewDone
  <2>2. BitInv'
    BY <1>2 DEF BitInv, PreviewDone
  <2>3. RecordInv'
    BY <1>2 DEF RecordInv, PreviewDone
  <2>4. ArgInv'
    BY <1>2 DEF ArgInv, PreviewDone
  <2> QED
    BY <2>1, <2>2, <2>3, <2>4
<1>3. CASE CheckBuffsize
  <2>1. RegisterInv'
    BY <1>3, BusFields DEF RegisterInv, CheckBuffsize, CamRefuses, DvpRefuses
  <2>2. BitInv'
    BY <1>3 DEF BitInv, CheckBuffsize, CamRefuses, DvpRefuses
  <2>3. RecordInv'
    <3>1. cam' \in Cams
      <4>1. CASE UNCHANGED cam
        BY <4>1 DEF RecordInv
      <4>2. CASE DvpRefuses("BAYER")
        BY <4>2, CamFields, FormatFields DEF RecordInv, DvpRefuses
      <4> QED
        BY <1>3, <4>1, <4>2 DEF CheckBuffsize, CamRefuses
    <3>2. fb' \in Fbs
      <4>1. CASE UNCHANGED fb
        BY <4>1 DEF RecordInv
      <4>2. ASSUME NEW n \in Sizes, fb' = [fb EXCEPT !.u = n]
            PROVE  fb' \in Fbs
        BY <4>2, FbFields, DvpAssumption DEF RecordInv, DvpAssumption
      <4> QED
        BY <1>3, <4>1, <4>2 DEF CheckBuffsize
    <3> QED
      BY <1>3, <3>1, <3>2 DEF RecordInv, CheckBuffsize
  <2>4. ArgInv'
    BY <1>3 DEF ArgInv, CheckBuffsize, CamRefuses, DvpRefuses
  <2> QED
    BY <2>1, <2>2, <2>3, <2>4
<1>4. CASE ReadPixels /\ ClearFlag
  <2>1. RegisterInv'
    BY <1>4 DEF RegisterInv, ReadPixels, ClearFlag
  <2>2. BitInv'
    BY <1>4 DEF BitInv, ReadPixels, ClearFlag
  <2>3. RecordInv'
    BY <1>4 DEF RecordInv, ReadPixels, ClearFlag
  <2>4. ArgInv'
    BY <1>4 DEF ArgInv, ReadPixels, ClearFlag
  <2> QED
    BY <2>1, <2>2, <2>3, <2>4
<1>5. CASE ReadPixels /\ ClearStatus
  <2>1. RegisterInv'
    BY <1>5 DEF RegisterInv, ReadPixels, ClearStatus
  <2>2. BitInv'
    BY <1>5 DEF BitInv, ReadPixels, ClearStatus
  <2>3. RecordInv'
    BY <1>5 DEF RecordInv, ReadPixels, ClearStatus
  <2>4. ArgInv'
    BY <1>5 DEF ArgInv, ReadPixels, ClearStatus
  <2> QED
    BY <2>1, <2>2, <2>3, <2>4
<1>6. CASE ReadPixels /\ LoadCfg
  <2>1. RegisterInv'
    BY <1>6 DEF RegisterInv, ReadPixels, LoadCfg
  <2>2. BitInv'
    BY <1>6 DEF BitInv, ReadPixels, LoadCfg
  <2>3. RecordInv'
    BY <1>6 DEF RecordInv, ReadPixels, LoadCfg
  <2>4. ArgInv'
    BY <1>6 DEF ArgInv, ReadPixels, LoadCfg
  <2> QED
    BY <2>1, <2>2, <2>3, <2>4
<1>7. CASE ReadPixels /\ EnableInt
  <2>1. RegisterInv'
    <3>1. cfg' \in Cfgs /\ tmp' \in Cfgs
      BY <1>7, CfgFields DEF RegisterInv, EnableInt
    <3>2. frames' \in 0 .. NFrames
      BY <1>7, DvpAssumption DEF EnableInt, DvpAssumption
    <3> QED
      BY <1>7, <3>1, <3>2 DEF RegisterInv, ReadPixels, EnableInt
  <2>2. BitInv'
    BY <1>7 DEF BitInv, ReadPixels, EnableInt
  <2>3. RecordInv'
    BY <1>7 DEF RecordInv, ReadPixels, EnableInt
  <2>4. ArgInv'
    BY <1>7 DEF ArgInv, ReadPixels, EnableInt
  <2> QED
    BY <2>1, <2>2, <2>3, <2>4
<1>8. CASE ReadPixels /\ (NotYet \/ TimeLeft \/ FrameSeen)
  <2>a. /\ UNCHANGED <<flag, cfg, icfg, tmp, sts, bus, pixformat, framesize>>
        /\ frames' = frames \/ frames' = 0
    BY <1>8 DEF ReadPixels, NotYet, TimeLeft, FrameSeen
  <2>1. RegisterInv'
    BY <2>a, DvpAssumption DEF RegisterInv, DvpAssumption
  <2>2. BitInv'
    BY <1>8 DEF BitInv, ReadPixels, NotYet, TimeLeft, FrameSeen
  <2>3. RecordInv'
    BY <1>8 DEF RecordInv, ReadPixels, NotYet, TimeLeft, FrameSeen
  <2>4. ArgInv'
    BY <1>8 DEF ArgInv, ReadPixels, NotYet, TimeLeft, FrameSeen
  <2> QED
    BY <2>1, <2>2, <2>3, <2>4
<1>9. CASE TimedOut
  <2>1. RegisterInv'
    BY <1>9, DvpAssumption DEF RegisterInv, TimedOut, GiveUp, DvpAssumption
  <2>2. BitInv'
    BY <1>9 DEF BitInv, TimedOut, GiveUp
  <2>3. RecordInv'
    BY <1>9 DEF RecordInv, TimedOut, GiveUp
  <2>4. ArgInv'
    BY <1>9 DEF ArgInv, TimedOut, GiveUp
  <2> QED
    BY <2>1, <2>2, <2>3, <2>4
<1>10. CASE Deliver
  <2>1. RegisterInv'
    BY <1>10 DEF RegisterInv, Deliver
  <2>2. BitInv'
    BY <1>10 DEF BitInv, Deliver
  <2>3. RecordInv'
    BY <1>10, FbFields, BufFields DEF RecordInv, Deliver, RegisterInv
  <2>4. ArgInv'
    BY <1>10 DEF ArgInv, Deliver
  <2> QED
    BY <2>1, <2>2, <2>3, <2>4
<1> QED
  BY <1>1, <1>2, <1>3, <1>4, <1>5, <1>6, <1>7, <1>8, <1>9, <1>10 DEF Capture,
     ReadPixels, ReadStep

\* sensor_irq, the DVP and the camera keep the ranges.
LEMMA MachineKeepsTypes ==
    ASSUME TypeInv, Machine
    PROVE  TypeInv'
<1> USE DEF TypeInv, hardware, handler, caller, busVars, sensorVars, history
<1>1. CASE Irq /\ UNCHANGED <<sensorVars, history>>
  <2>1. RegisterInv'
    BY <1>1 DEF RegisterInv, Irq
  <2>2. BitInv'
    BY <1>1 DEF BitInv, Irq
  <2>3. RecordInv'
    BY <1>1 DEF RecordInv, Irq
  <2>4. ArgInv'
    BY <1>1 DEF ArgInv, Irq
  <2> QED
    BY <2>1, <2>2, <2>3, <2>4
<1>2. CASE IrqTest /\ UNCHANGED <<sensorVars, history>>
  <2>1. RegisterInv'
    BY <1>2 DEF RegisterInv, IrqTest
  <2>2. BitInv'
    BY <1>2 DEF BitInv, IrqTest
  <2>3. RecordInv'
    BY <1>2 DEF RecordInv, IrqTest
  <2>4. ArgInv'
    BY <1>2 DEF ArgInv, IrqTest
  <2> QED
    BY <2>1, <2>2, <2>3, <2>4
<1>3. CASE IrqMask /\ UNCHANGED <<sensorVars, history>>
  <2>1. RegisterInv'
    BY <1>3, CfgFields DEF RegisterInv, IrqMask
  <2>2. BitInv'
    BY <1>3 DEF BitInv, IrqMask
  <2>3. RecordInv'
    BY <1>3 DEF RecordInv, IrqMask
  <2>4. ArgInv'
    BY <1>3 DEF ArgInv, IrqMask
  <2> QED
    BY <2>1, <2>2, <2>3, <2>4
<1>4. CASE IrqLook /\ UNCHANGED <<sensorVars, history>>
  <2>1. RegisterInv'
    BY <1>4 DEF RegisterInv, IrqLook
  <2>2. BitInv'
    BY <1>4 DEF BitInv, IrqLook
  <2>3. RecordInv'
    BY <1>4 DEF RecordInv, IrqLook
  <2>4. ArgInv'
    BY <1>4 DEF ArgInv, IrqLook
  <2> QED
    BY <2>1, <2>2, <2>3, <2>4
<1>5. CASE IrqEnd /\ UNCHANGED <<sensorVars, history>>
  <2>1. RegisterInv'
    BY <1>5 DEF RegisterInv, IrqEnd
  <2>2. BitInv'
    BY <1>5 DEF BitInv, IrqEnd
  <2>3. RecordInv'
    BY <1>5 DEF RecordInv, IrqEnd
  <2>4. ArgInv'
    BY <1>5 DEF ArgInv, IrqEnd
  <2> QED
    BY <2>1, <2>2, <2>3, <2>4
<1>6. CASE IrqRaise /\ UNCHANGED <<sensorVars, history>>
  <2>1. RegisterInv'
    BY <1>6 DEF RegisterInv, IrqRaise
  <2>2. BitInv'
    BY <1>6 DEF BitInv, IrqRaise
  <2>3. RecordInv'
    BY <1>6 DEF RecordInv, IrqRaise
  <2>4. ArgInv'
    BY <1>6 DEF ArgInv, IrqRaise
  <2> QED
    BY <2>1, <2>2, <2>3, <2>4
<1>7. CASE IrqBegin /\ UNCHANGED <<sensorVars, history>>
  <2>1. RegisterInv'
    BY <1>7 DEF RegisterInv, IrqBegin
  <2>2. BitInv'
    BY <1>7 DEF BitInv, IrqBegin
  <2>3. RecordInv'
    BY <1>7 DEF RecordInv, IrqBegin
  <2>4. ArgInv'
    BY <1>7 DEF ArgInv, IrqBegin
  <2> QED
    BY <2>1, <2>2, <2>3, <2>4
<1>8. CASE IrqAck /\ UNCHANGED <<sensorVars, history>>
  <2>1. RegisterInv'
    BY <1>8 DEF RegisterInv, IrqAck
  <2>2. BitInv'
    BY <1>8 DEF BitInv, IrqAck
  <2>3. RecordInv'
    BY <1>8 DEF RecordInv, IrqAck
  <2>4. ArgInv'
    BY <1>8 DEF ArgInv, IrqAck
  <2> QED
    BY <2>1, <2>2, <2>3, <2>4
<1>9. CASE FrameStart /\ UNCHANGED <<sensorVars, history>>
  <2>1. RegisterInv'
    BY <1>9 DEF RegisterInv, FrameStart
  <2>2. BitInv'
    BY <1>9 DEF BitInv, FrameStart
  <2>3. RecordInv'
    BY <1>9, CamFields DEF RecordInv, FrameStart
  <2>4. ArgInv'
    BY <1>9 DEF ArgInv, FrameStart
  <2> QED
    BY <2>1, <2>2, <2>3, <2>4
<1>10. CASE FirstLine /\ UNCHANGED <<sensorVars, history>>
  <2>1. RegisterInv'
    BY <1>10 DEF RegisterInv, FirstLine
  <2>2. BitInv'
    BY <1>10 DEF BitInv, FirstLine
  <2>3. RecordInv'
    BY <1>10, CamFields, BufFields DEF RecordInv, FirstLine, RegisterInv
  <2>4. ArgInv'
    BY <1>10 DEF ArgInv, FirstLine
  <2> QED
    BY <2>1, <2>2, <2>3, <2>4
<1>11. CASE LastLine /\ UNCHANGED <<sensorVars, history>>
  <2>1. RegisterInv'
    BY <1>11, DvpAssumption DEF RegisterInv, LastLine, DvpAssumption
  <2>2. BitInv'
    BY <1>11 DEF BitInv, LastLine
  <2>3. RecordInv'
    BY <1>11, CamFields, BufFields DEF RecordInv, LastLine, RegisterInv
  <2>4. ArgInv'
    BY <1>11 DEF ArgInv, LastLine
  <2> QED
    BY <2>1, <2>2, <2>3, <2>4
<1> QED
  BY <1>1, <1>2, <1>3, <1>4, <1>5, <1>6, <1>7, <1>8, <1>9, <1>10, <1>11 DEF Machine,
     IrqStep, Hardware

\* The setters and sensor_reset keep the agreement of the thread and the handler: a
\* setter stores the interrupt enable it loaded, and no handler ran in between that
\* it could undo.
LEMMA SetterKeepsOneCore ==
    ASSUME TypeInv, OneCoreInv, Setter
    PROVE  OneCoreInv'
<1> USE DvpAssumption DEF DvpAssumption, AllFormats, DvpFormats, hardware, handler, caller,
      busVars, sensorVars, history
<1>1. ASSUME NEW p \in Formats, SetPixformat(p) PROVE OneCoreInv'
  BY <1>1 DEF SetPixformat, CamRefuses, DvpRefuses, CamFormat, NoCfg, OneCoreInv, WritingInv,
       AnnouncedInv, DoneInv, RestInv, InCapture, ThreadRuns, Smp, Idle, TypeInv,
       RegisterInv, RecordInv, Cfgs, Cams, Bufs
<1>2. CASE LoadFormat
  BY <1>2 DEF LoadFormat, OneCoreInv, WritingInv, AnnouncedInv, DoneInv, RestInv, InCapture,
       ThreadRuns, Smp, TypeInv, RegisterInv, RecordInv, Cfgs, Cams, Bufs
<1>3. CASE StoreFormat
  BY <1>3 DEF StoreFormat, BusFormat, NoCfg, OneCoreInv, WritingInv, AnnouncedInv, DoneInv,
       RestInv, InCapture, ThreadRuns, Smp, TypeInv, RegisterInv, RecordInv, Cfgs, Cams,
       Bufs
<1>4. ASSUME NEW f \in Sizes, SetFramesize(f) PROVE OneCoreInv'
  BY <1>4 DEF SetFramesize, OneCoreInv, WritingInv, AnnouncedInv, DoneInv, RestInv, InCapture,
       ThreadRuns, Smp, Idle, TypeInv, RegisterInv, RecordInv, Cfgs, Cams, Bufs
<1>5. CASE StoreSize
  BY <1>5 DEF StoreSize, NoCfg, OneCoreInv, WritingInv, AnnouncedInv, DoneInv, RestInv,
       InCapture, ThreadRuns, Smp, TypeInv, RegisterInv, RecordInv, Cfgs, Cams, Bufs
<1>6. ASSUME NEW n \in Sizes, SetWindowing(n) PROVE OneCoreInv'
  BY <1>6 DEF SetWindowing, OneCoreInv, WritingInv, AnnouncedInv, DoneInv, RestInv, InCapture,
       ThreadRuns, Smp, Idle, TypeInv, RegisterInv, RecordInv, Cfgs, Cams, Bufs
<1>7. CASE Shutdown
  BY <1>7 DEF Shutdown, OneCoreInv, WritingInv, AnnouncedInv, DoneInv, RestInv, InCapture,
       ThreadRuns, Smp, Idle, TypeInv, RegisterInv, RecordInv, Cfgs, Cams, Bufs
<1>8. CASE Reset
  BY <1>8 DEF Reset, NoCfg, NoBus, OneCoreInv, WritingInv, AnnouncedInv, DoneInv, RestInv,
       InCapture, ThreadRuns, Smp, Idle, TypeInv, RegisterInv, RecordInv, Cfgs, Cams, Bufs
<1> QED
  BY <1>1, <1>2, <1>3, <1>4, <1>5, <1>6, <1>7, <1>8 DEF Setter

\* cambus_read_pixels clears the flag before it enables the interrupt, and leaves with
\* the flag up or the time-out noted.
LEMMA CaptureKeepsOneCore ==
    ASSUME TypeInv, OneCoreInv, Capture
    PROVE  OneCoreInv'
<1> USE DvpAssumption DEF DvpAssumption, AllFormats, DvpFormats, hardware, handler, caller,
      busVars, sensorVars, history
<1>1. CASE Snapshot
  BY <1>1 DEF Snapshot, OneCoreInv, WritingInv, AnnouncedInv, DoneInv, RestInv, InCapture,
       ThreadRuns, Smp, Idle, TypeInv, RegisterInv, RecordInv, Cfgs, Cams, Bufs
<1>2. CASE PreviewDone
  BY <1>2 DEF PreviewDone, OneCoreInv, WritingInv, AnnouncedInv, DoneInv, RestInv, InCapture,
       ThreadRuns, Smp, TypeInv, RegisterInv, RecordInv, Cfgs, Cams, Bufs
<1>3. CASE CheckBuffsize
  BY <1>3 DEF CheckBuffsize, CamRefuses, DvpRefuses, CamFormat, OneCoreInv, WritingInv,
       AnnouncedInv, DoneInv, RestInv, InCapture, ThreadRuns, Smp, TypeInv, RegisterInv,
       RecordInv, Cfgs, Cams, Bufs
<1>4. CASE ReadPixels /\ ClearFlag
  BY <1>4 DEF ReadPixels, ClearFlag, OneCoreInv, WritingInv, AnnouncedInv, DoneInv, RestInv,
       InCapture, ThreadRuns, Smp, TypeInv, RegisterInv, RecordInv, Cfgs, Cams, Bufs
<1>5. CASE ReadPixels /\ ClearStatus
  BY <1>5 DEF ReadPixels, ClearStatus, OneCoreInv, WritingInv, AnnouncedInv, DoneInv, RestInv,
       InCapture, ThreadRuns, Smp, TypeInv, RegisterInv, RecordInv, Cfgs, Cams, Bufs
<1>6. CASE ReadPixels /\ LoadCfg
  BY <1>6 DEF ReadPixels, LoadCfg, OneCoreInv, WritingInv, AnnouncedInv, DoneInv, RestInv,
       InCapture, ThreadRuns, Smp, TypeInv, RegisterInv, RecordInv, Cfgs, Cams, Bufs
<1>7. CASE ReadPixels /\ EnableInt
  BY <1>7 DEF ReadPixels, EnableInt, NoCfg, OneCoreInv, WritingInv, AnnouncedInv, DoneInv,
       RestInv, InCapture, ThreadRuns, Smp, TypeInv, RegisterInv, RecordInv, Cfgs, Cams,
       Bufs
<1>8. CASE ReadPixels /\ (NotYet \/ TimeLeft \/ FrameSeen)
  <2>1. /\ UNCHANGED <<world, flag, cfg, plic, sts, armed, cam, busy, buf, irq, tmp, late>>
        /\ pc \in {"wait", "delay"}
        /\ pc' \in {"wait", "delay", "fix"}
        /\ pc' = "fix" => flag = 1
    BY <1>8 DEF ReadPixels, NotYet, TimeLeft, FrameSeen
  <2> QED
    BY <2>1 DEF OneCoreInv, WritingInv, AnnouncedInv, DoneInv, RestInv, InCapture, Smp
<1>9. CASE TimedOut
  BY <1>9 DEF TimedOut, GiveUp, OneCoreInv, WritingInv, AnnouncedInv, DoneInv, RestInv,
       InCapture, ThreadRuns, Smp, TypeInv, RegisterInv, RecordInv, Cfgs, Cams, Bufs
<1>10. CASE Deliver
  BY <1>10 DEF Deliver, Fixed, OneCoreInv, WritingInv, AnnouncedInv, DoneInv, RestInv,
       InCapture, ThreadRuns, Smp, TypeInv, RegisterInv, RecordInv, Cfgs, Cams, Bufs
<1> QED
  BY <1>1, <1>2, <1>3, <1>4, <1>5, <1>6, <1>7, <1>8, <1>9, <1>10 DEF Capture,
     ReadPixels, ReadStep

\* sensor_irq arms the DVP only while the flag is down, and raises the flag only after
\* frame finish.
LEMMA MachineKeepsOneCore ==
    ASSUME TypeInv, OneCoreInv, Machine
    PROVE  OneCoreInv'
<1> USE DvpAssumption DEF DvpAssumption, AllFormats, DvpFormats, hardware, handler, caller,
      busVars, sensorVars, history
<1>1. CASE Irq /\ UNCHANGED <<sensorVars, history>>
  BY <1>1 DEF Irq, Pending, OneCoreInv, WritingInv, AnnouncedInv, DoneInv, RestInv, InCapture,
       Smp, TypeInv, RegisterInv, RecordInv, Cfgs, Cams, Bufs
<1>2. CASE IrqTest /\ UNCHANGED <<sensorVars, history>>
  BY <1>2 DEF IrqTest, OneCoreInv, WritingInv, AnnouncedInv, DoneInv, RestInv, InCapture, Smp,
       TypeInv, RegisterInv, RecordInv, Cfgs, Cams, Bufs
<1>3. CASE IrqMask /\ UNCHANGED <<sensorVars, history>>
  BY <1>3 DEF IrqMask, NoCfg, OneCoreInv, WritingInv, AnnouncedInv, DoneInv, RestInv,
       InCapture, Smp, TypeInv, RegisterInv, RecordInv, Cfgs, Cams, Bufs
<1>4. CASE IrqLook /\ UNCHANGED <<sensorVars, history>>
  BY <1>4 DEF IrqLook, OneCoreInv, WritingInv, AnnouncedInv, DoneInv, RestInv, InCapture, Smp,
       TypeInv, RegisterInv, RecordInv, Cfgs, Cams, Bufs
<1>5. CASE IrqEnd /\ UNCHANGED <<sensorVars, history>>
  BY <1>5 DEF IrqEnd, OneCoreInv, WritingInv, AnnouncedInv, DoneInv, RestInv, InCapture, Smp,
       TypeInv, RegisterInv, RecordInv, Cfgs, Cams, Bufs
<1>6. CASE IrqRaise /\ UNCHANGED <<sensorVars, history>>
  BY <1>6 DEF IrqRaise, OneCoreInv, WritingInv, AnnouncedInv, DoneInv, RestInv, InCapture,
       Smp, TypeInv, RegisterInv, RecordInv, Cfgs, Cams, Bufs
<1>7. CASE IrqBegin /\ UNCHANGED <<sensorVars, history>>
  <2> SUFFICES ASSUME ~Smp PROVE (WritingInv /\ AnnouncedInv /\ DoneInv /\ RestInv)'
    BY <1>7 DEF OneCoreInv, Smp, IrqBegin
  <2> USE <1>7 DEF IrqBegin, OneCoreInv
  <2>1. WritingInv'
    BY DEF WritingInv
  <2>2. AnnouncedInv'
    BY DEF AnnouncedInv, RegisterInv
  <2>3. flag = 1 => armed' = armed
    BY DEF TypeInv, BitInv
  <2>4. DoneInv'
    BY <2>3 DEF DoneInv
  <2>5. RestInv'
    BY <2>3 DEF RestInv, InCapture
  <2> QED
    BY <2>1, <2>2, <2>4, <2>5
<1>8. CASE IrqAck /\ UNCHANGED <<sensorVars, history>>
  BY <1>8 DEF IrqAck, OneCoreInv, WritingInv, AnnouncedInv, DoneInv, RestInv, InCapture, Smp,
       TypeInv, RegisterInv, RecordInv, Cfgs, Cams, Bufs
<1>9. CASE FrameStart /\ UNCHANGED <<sensorVars, history>>
  BY <1>9 DEF FrameStart, InTime, Pending, OneCoreInv, WritingInv, AnnouncedInv, DoneInv,
       RestInv, InCapture, Smp, TypeInv, RegisterInv, RecordInv, Cfgs, Cams, Bufs
<1>10. CASE FirstLine /\ UNCHANGED <<sensorVars, history>>
  BY <1>10 DEF FirstLine, InTime, Pending, OneCoreInv, WritingInv, AnnouncedInv, DoneInv,
       RestInv, InCapture, Smp, TypeInv, RegisterInv, RecordInv, Cfgs, Cams, Bufs
<1>11. CASE LastLine /\ UNCHANGED <<sensorVars, history>>
  BY <1>11 DEF LastLine, InTime, Pending, Content, OneCoreInv, WritingInv, AnnouncedInv,
       DoneInv, RestInv, InCapture, Smp, TypeInv, RegisterInv, RecordInv, Cfgs, Cams, Bufs
<1> QED
  BY <1>1, <1>2, <1>3, <1>4, <1>5, <1>6, <1>7, <1>8, <1>9, <1>10, <1>11 DEF Machine,
     IrqStep, Hardware

----------------------------------------------------------------------------
\* The invariant holds of every behaviour of the camera stack.
LEMMA Invariant == Spec => []SensorInv
<1>1. Init => SensorInv
  <2> SUFFICES ASSUME Init PROVE SensorInv
    OBVIOUS
  <2> USE DEF Init, BusInit
  <2>1. RegisterInv
    BY CfgFields, BusFields, DvpAssumption DEF RegisterInv, DvpAssumption
  <2>2. BitInv
    BY DEF BitInv
  <2>3. RecordInv
    BY CamFields DEF RecordInv, Fbs, Bufs, Contents
  <2>4. ArgInv
    BY DEF ArgInv
  <2>5. OneCoreInv
    BY DEF OneCoreInv, WritingInv, AnnouncedInv, DoneInv, RestInv, InCapture, NoCfg
  <2> QED
    BY <2>1, <2>2, <2>3, <2>4, <2>5 DEF SensorInv, TypeInv
<1>2. SensorInv /\ [Next]_vars => SensorInv'
  <2>1. CASE Next
    BY <2>1, SetterKeepsTypes, CaptureKeepsTypes, MachineKeepsTypes,
       SetterKeepsOneCore, CaptureKeepsOneCore, MachineKeepsOneCore DEF Next, SensorInv
  <2>2. CASE UNCHANGED vars
    BY <2>2 DEF vars, busVars, hardware, handler, caller, sensorVars, history, SensorInv,
       TypeInv, RegisterInv, BitInv, RecordInv, ArgInv, OneCoreInv, WritingInv, AnnouncedInv,
       DoneInv, RestInv, InCapture, Smp
  <2> QED
    BY <2>1, <2>2
<1> QED
  BY <1>1, <1>2, PTL DEF Spec

\* The DVP registers, the bus, MAIN_FB() and the sensor's format stay in their ranges,
\* on one core and on two: a format the DVP refuses is never the sensor's.
THEOREM TypeCorrect == Spec => []TypeOK
<1>1. SensorInv => TypeOK
  BY DEF SensorInv, TypeInv, RegisterInv, BitInv, RecordInv, Cfgs, Buses, Fbs, TypeOK
<1> QED
  BY <1>1, Invariant, PTL

\* On one core, the frame cambus_read_pixels goes on with is whole and the DVP has
\* stopped, also when it is the late frame of a call that was given up.
THEOREM FrameIsWhole == Spec => []WholeWhenSeen
<1>1. SensorInv => WholeWhenSeen
  BY DEF SensorInv, OneCoreInv, DoneInv, WholeWhenSeen
<1> QED
  BY <1>1, Invariant, PTL

\* On one core, the DVP neither writes nor is armed between two calls of
\* cambus_read_pixels, unless one was given up and the DVP not reset since.
THEOREM QuietBetweenCalls == Spec => []QuietOutside
<1>1. SensorInv => QuietOutside
  BY DEF SensorInv, OneCoreInv, RestInv, QuietOutside
<1> QED
  BY <1>1, Invariant, PTL

----------------------------------------------------------------------------
(* The picture *)

\* The machine stays what it is: no step changes the number of cores.
LEMMA WorldFixed == Next => world' = world
  BY DEF Next, Setter, SetPixformat, LoadFormat, StoreFormat, SetFramesize, StoreSize,
     SetWindowing, Shutdown, Reset, Capture, Snapshot, PreviewDone, CheckBuffsize,
     ReadPixels, ReadStep, ClearFlag, ClearStatus, LoadCfg, EnableInt,
     FrameSeen, NotYet, TimeLeft, TimedOut,
     GiveUp, Deliver, Machine, Irq, IrqStep, IrqTest, IrqMask, IrqLook, IrqEnd, IrqRaise,
     IrqBegin, IrqAck, Hardware, FrameStart, FirstLine, LastLine, busVars

\* The setters and sensor_reset keep the picture right: each setter stores its own field
\* of dvp_cfg and marks the frame of the old settings with bpp = -1.
LEMMA SetterKeepsPicture ==
    ASSUME SensorInv, PictureInv, Setter
    PROVE  PictureInv'
<1> SUFFICES ASSUME ~Smp, WritingInv, AnnouncedInv, DoneInv, RestInv,
                     CopyInv, FormatInv, ~late => CaptureInv, ShownInv, ImageInv
             PROVE  CopyInv' /\ FormatInv' /\ (~late' => CaptureInv') /\ ShownInv' /\ ImageInv'
  BY WorldFixed DEF Next, Smp, SensorInv, OneCoreInv, PictureInv
<1> USE DvpAssumption DEF DvpAssumption, AllFormats, DvpFormats, hardware, handler, caller,
        busVars, sensorVars, history, SensorInv, TypeInv
<1>1. ASSUME NEW p \in Formats, SetPixformat(p)
      PROVE  CopyInv' /\ FormatInv' /\ (~late' => CaptureInv') /\ ShownInv' /\ ImageInv'
  <2>1. CopyInv'
    BY <1>1 DEF SetPixformat, CamRefuses, DvpRefuses, CopyInv, RegisterInv, Buses
  <2>2. FormatInv'
    BY <1>1 DEF SetPixformat, CamRefuses, DvpRefuses, Idle, FormatInv, RecordInv, Cams
  <2>3. ~late' => CaptureInv'
    BY <1>1 DEF SetPixformat, CamRefuses, DvpRefuses, Idle, CaptureInv, InCapture,
       FrameRight, Content
  <2>4. ShownInv'
    BY <1>1 DEF SetPixformat, CamRefuses, DvpRefuses, Idle, ShownInv, Clean, InCapture,
       Describes
  <2>5. ImageInv'
    BY <1>1 DEF SetPixformat, CamRefuses, DvpRefuses, Idle, ImageInv
  <2> QED
    BY <2>1, <2>2, <2>3, <2>4, <2>5
<1>2. CASE LoadFormat
  <2>1. CopyInv'
    BY <1>2 DEF LoadFormat, CopyInv
  <2>2. FormatInv'
    BY <1>2 DEF LoadFormat, FormatInv, BusFormat, CamFormat
  <2>3. ~late' => CaptureInv'
    BY <1>2 DEF LoadFormat, CaptureInv, InCapture, FrameRight, Content
  <2>4. ShownInv'
    BY <1>2 DEF LoadFormat, ShownInv, Clean, InCapture, Describes
  <2>5. ImageInv'
    BY <1>2 DEF LoadFormat, ImageInv
  <2> QED
    BY <2>1, <2>2, <2>3, <2>4, <2>5
<1>3. CASE StoreFormat
  <2>1. CopyInv'
    BY <1>3 DEF StoreFormat, NoCfg, CopyInv, ThreadRuns, Smp, RestInv, InCapture
  <2>2. FormatInv'
    BY <1>3 DEF StoreFormat, NoCfg, FormatInv, BusFormat, CamFormat
  <2>3. ~late' => CaptureInv'
    BY <1>3 DEF StoreFormat, NoCfg, CaptureInv, InCapture, FrameRight, Content
  <2>4. ShownInv'
    BY <1>3 DEF StoreFormat, NoCfg, ShownInv, Clean, InCapture, Describes
  <2>5. ImageInv'
    BY <1>3 DEF StoreFormat, NoCfg, ImageInv
  <2> QED
    BY <2>1, <2>2, <2>3, <2>4, <2>5
<1>4. ASSUME NEW f \in Sizes, SetFramesize(f)
      PROVE  CopyInv' /\ FormatInv' /\ (~late' => CaptureInv') /\ ShownInv' /\ ImageInv'
  <2>1. CopyInv'
    BY <1>4 DEF SetFramesize, Idle, CopyInv
  <2>2. FormatInv'
    BY <1>4 DEF SetFramesize, Idle, FormatInv, BusFormat, CamFormat
  <2>3. ~late' => CaptureInv'
    BY <1>4 DEF SetFramesize, Idle, CaptureInv, InCapture, FrameRight, Content
  <2>4. ShownInv'
    BY <1>4 DEF SetFramesize, Idle, ShownInv, Clean, InCapture, Describes
  <2>5. ImageInv'
    BY <1>4 DEF SetFramesize, Idle, ImageInv
  <2> QED
    BY <2>1, <2>2, <2>3, <2>4, <2>5
<1>5. CASE StoreSize
  <2>1. CopyInv'
    BY <1>5 DEF StoreSize, NoCfg, CopyInv, ThreadRuns, Smp, RestInv, InCapture
  <2>2. FormatInv'
    BY <1>5 DEF StoreSize, FormatInv, CopyInv
  <2>3. ~late' => CaptureInv'
    BY <1>5 DEF StoreSize, NoCfg, CaptureInv, InCapture, FrameRight, Content
  <2>4. ShownInv'
    BY <1>5 DEF StoreSize, NoCfg, ShownInv, Clean, InCapture, Describes
  <2>5. ImageInv'
    BY <1>5 DEF StoreSize, NoCfg, ImageInv
  <2> QED
    BY <2>1, <2>2, <2>3, <2>4, <2>5
<1>6. ASSUME NEW n \in Sizes, SetWindowing(n)
      PROVE  CopyInv' /\ FormatInv' /\ (~late' => CaptureInv') /\ ShownInv' /\ ImageInv'
  <2>1. CopyInv'
    BY <1>6 DEF SetWindowing, Idle, CopyInv
  <2>2. FormatInv'
    BY <1>6 DEF SetWindowing, Idle, FormatInv, BusFormat, CamFormat
  <2>3. ~late' => CaptureInv'
    BY <1>6 DEF SetWindowing, Idle, CaptureInv, InCapture, FrameRight, Content
  <2>4. ShownInv'
    BY <1>6 DEF SetWindowing, Idle, ShownInv, Clean, InCapture, Describes
  <2>5. ImageInv'
    BY <1>6 DEF SetWindowing, Idle, ImageInv
  <2> QED
    BY <2>1, <2>2, <2>3, <2>4, <2>5
<1>7. CASE Shutdown
  <2>1. CopyInv'
    BY <1>7 DEF Shutdown, Idle, CopyInv
  <2>2. FormatInv'
    BY <1>7 DEF Shutdown, Idle, FormatInv, BusFormat, CamFormat
  <2>3. ~late' => CaptureInv'
    BY <1>7 DEF Shutdown, Idle, CaptureInv, InCapture, FrameRight, Content
  <2>4. ShownInv'
    BY <1>7 DEF Shutdown, Idle, ShownInv, Clean, InCapture, Describes
  <2>5. ImageInv'
    BY <1>7 DEF Shutdown, Idle, ImageInv
  <2> QED
    BY <2>1, <2>2, <2>3, <2>4, <2>5
<1>8. CASE Reset
  <2>1. CopyInv'
    BY <1>8 DEF Reset, NoCfg, NoBus, Idle, CopyInv
  <2>2. FormatInv'
    BY <1>8 DEF Reset, NoCfg, NoBus, Idle, FormatInv, BusFormat, CamFormat
  <2>3. ~late' => CaptureInv'
    BY <1>8 DEF Reset, NoCfg, NoBus, Idle, CaptureInv, InCapture, FrameRight, Content
  <2>4. ShownInv'
    BY <1>8 DEF Reset, NoCfg, NoBus, Idle, ShownInv, Clean, InCapture, Describes
  <2>5. ImageInv'
    BY <1>8 DEF Reset, NoCfg, NoBus, Idle, ImageInv
  <2> QED
    BY <2>1, <2>2, <2>3, <2>4, <2>5
<1> QED
  BY <1>1, <1>2, <1>3, <1>4, <1>5, <1>6, <1>7, <1>8 DEF Setter

\* sensor_snapshot keeps the picture right: the settings stand still while a frame is
\* taken, and bpp is set after the frame of those settings was put right.
LEMMA CaptureKeepsPicture ==
    ASSUME SensorInv, PictureInv, Capture
    PROVE  PictureInv'
<1> SUFFICES ASSUME ~Smp, WritingInv, AnnouncedInv, DoneInv, RestInv,
                     CopyInv, FormatInv, ~late => CaptureInv, ShownInv, ImageInv
             PROVE  CopyInv' /\ FormatInv' /\ (~late' => CaptureInv') /\ ShownInv' /\ ImageInv'
  BY WorldFixed DEF Next, Smp, SensorInv, OneCoreInv, PictureInv
<1> USE DvpAssumption DEF DvpAssumption, AllFormats, DvpFormats, hardware, handler, caller,
        busVars, sensorVars, history, SensorInv, TypeInv
<1>1. CASE Snapshot
  <2>1. CopyInv'
    BY <1>1 DEF Snapshot, Idle, CopyInv
  <2>2. FormatInv'
    BY <1>1 DEF Snapshot, Idle, FormatInv, BusFormat, CamFormat
  <2>3. ~late' => CaptureInv'
    BY <1>1 DEF Snapshot, Idle, CaptureInv, InCapture, FrameRight, Content
  <2>4. ShownInv'
    BY <1>1 DEF Snapshot, Idle, ShownInv, Clean, InCapture, Describes
  <2>5. ImageInv'
    BY <1>1 DEF Snapshot, Idle, ImageInv
  <2> QED
    BY <2>1, <2>2, <2>3, <2>4, <2>5
<1>2. CASE PreviewDone
  <2>1. CopyInv'
    BY <1>2 DEF PreviewDone, CopyInv
  <2>2. FormatInv'
    BY <1>2 DEF PreviewDone, FormatInv, BusFormat, CamFormat
  <2>3. ~late' => CaptureInv'
    BY <1>2 DEF PreviewDone, CaptureInv, InCapture, FrameRight, Content
  <2>4. ShownInv'
    BY <1>2 DEF PreviewDone, ShownInv, Clean, InCapture, Describes
  <2>5. ImageInv'
    BY <1>2 DEF PreviewDone, ImageInv
  <2> QED
    BY <2>1, <2>2, <2>3, <2>4, <2>5
<1>3. CASE CheckBuffsize
  <2>1. CopyInv'
    BY <1>3 DEF CheckBuffsize, CamRefuses, DvpRefuses, CopyInv, RegisterInv, Buses
  <2>2. FormatInv'
    BY <1>3 DEF CheckBuffsize, CamRefuses, DvpRefuses, Fits, BytesPerPixel, FormatInv,
       BusFormat, CamFormat
  <2>3. ~late' => CaptureInv'
    BY <1>3 DEF CheckBuffsize, CamRefuses, DvpRefuses, Fits, BytesPerPixel, CaptureInv,
       InCapture, FrameRight, Content
  <2>4. ShownInv'
    BY <1>3 DEF CheckBuffsize, CamRefuses, DvpRefuses, ShownInv, Clean, InCapture,
       Describes, RecordInv, Fbs
  <2>5. ImageInv'
    BY <1>3 DEF CheckBuffsize, CamRefuses, DvpRefuses, Fits, BytesPerPixel, ImageInv
  <2> QED
    BY <2>1, <2>2, <2>3, <2>4, <2>5
<1>4. CASE ReadPixels /\ ClearFlag
  <2>1. CopyInv'
    BY <1>4 DEF ReadPixels, ClearFlag, CopyInv
  <2>2. FormatInv'
    BY <1>4 DEF ReadPixels, ClearFlag, FormatInv, BusFormat, CamFormat
  <2>3. ~late' => CaptureInv'
    <3> SUFFICES ASSUME ~late PROVE CaptureInv'
      BY <1>4 DEF ReadPixels
    <3>1. pc = "read" /\ irq = "none"
      BY <1>4 DEF ClearFlag, ThreadRuns
    <3>2. ~busy /\ "finish" \notin sts
      BY <3>1 DEF RestInv, CaptureInv, InCapture
    <3> QED
      BY <1>4, <3>1, <3>2 DEF ClearFlag, CaptureInv
  <2>4. ShownInv'
    BY <1>4 DEF ReadPixels, ClearFlag, ShownInv, Clean, InCapture, Describes
  <2>5. ImageInv'
    BY <1>4 DEF ReadPixels, ClearFlag, ImageInv
  <2> QED
    BY <2>1, <2>2, <2>3, <2>4, <2>5
<1>5. CASE ReadPixels /\ ClearStatus
  <2>1. CopyInv'
    BY <1>5 DEF ReadPixels, ClearStatus, CopyInv
  <2>2. FormatInv'
    BY <1>5 DEF ReadPixels, ClearStatus, FormatInv, BusFormat, CamFormat
  <2>3. ~late' => CaptureInv'
    BY <1>5 DEF ReadPixels, ClearStatus, CaptureInv, InCapture, FrameRight, Content
  <2>4. ShownInv'
    BY <1>5 DEF ReadPixels, ClearStatus, ShownInv, Clean, InCapture, Describes
  <2>5. ImageInv'
    BY <1>5 DEF ReadPixels, ClearStatus, ImageInv
  <2> QED
    BY <2>1, <2>2, <2>3, <2>4, <2>5
<1>6. CASE ReadPixels /\ LoadCfg
  <2>1. CopyInv'
    BY <1>6 DEF ReadPixels, LoadCfg, CopyInv
  <2>2. FormatInv'
    BY <1>6 DEF ReadPixels, LoadCfg, FormatInv, BusFormat, CamFormat
  <2>3. ~late' => CaptureInv'
    BY <1>6 DEF ReadPixels, LoadCfg, CaptureInv, InCapture, FrameRight, Content
  <2>4. ShownInv'
    BY <1>6 DEF ReadPixels, LoadCfg, ShownInv, Clean, InCapture, Describes
  <2>5. ImageInv'
    BY <1>6 DEF ReadPixels, LoadCfg, ImageInv
  <2> QED
    BY <2>1, <2>2, <2>3, <2>4, <2>5
<1>7. CASE ReadPixels /\ EnableInt
  <2>1. CopyInv'
    BY <1>7 DEF ReadPixels, EnableInt, NoCfg, CopyInv
  <2>2. FormatInv'
    BY <1>7 DEF ReadPixels, EnableInt, FormatInv, CopyInv
  <2>3. ~late' => CaptureInv'
    <3>1. cfg'.size = cfg.size /\ cfg'.fmt = cfg.fmt
      BY <1>7 DEF EnableInt, CopyInv, RegisterInv, Cfgs
    <3>2. cam' = cam /\ buf' = buf
      BY <1>7 DEF EnableInt
    <3>3. FrameRight' <=> FrameRight
      BY <3>1, <3>2 DEF FrameRight, Content
    <3> QED
      BY <1>7, <3>1, <3>2, <3>3 DEF ReadPixels, EnableInt, CaptureInv, InCapture
  <2>4. ShownInv'
    BY <1>7 DEF ReadPixels, EnableInt, NoCfg, ShownInv, Clean, InCapture, Describes
  <2>5. ImageInv'
    BY <1>7 DEF ReadPixels, EnableInt, NoCfg, ImageInv
  <2> QED
    BY <2>1, <2>2, <2>3, <2>4, <2>5
<1>8. CASE ReadPixels /\ (NotYet \/ TimeLeft \/ FrameSeen)
  <2>1. CopyInv'
    BY <1>8 DEF ReadPixels, NotYet, TimeLeft, FrameSeen, CopyInv
  <2>2. FormatInv'
    BY <1>8 DEF ReadPixels, NotYet, TimeLeft, FrameSeen, FormatInv, BusFormat, CamFormat
  <2>3. ~late' => CaptureInv'
    BY <1>8 DEF ReadPixels, NotYet, TimeLeft, FrameSeen, CaptureInv, InCapture, FrameRight, Content
  <2>4. ShownInv'
    BY <1>8 DEF ReadPixels, NotYet, TimeLeft, FrameSeen, ShownInv, Clean, InCapture, Describes
  <2>5. ImageInv'
    BY <1>8 DEF ReadPixels, NotYet, TimeLeft, FrameSeen, ImageInv
  <2> QED
    BY <2>1, <2>2, <2>3, <2>4, <2>5
<1>9. CASE TimedOut
  <2>1. CopyInv'
    BY <1>9 DEF TimedOut, GiveUp, CopyInv
  <2>2. FormatInv'
    BY <1>9 DEF TimedOut, GiveUp, FormatInv, BusFormat, CamFormat
  <2>3. ~late' => CaptureInv'
    BY <1>9 DEF TimedOut, GiveUp, CaptureInv, InCapture, FrameRight, Content
  <2>4. ShownInv'
    BY <1>9 DEF TimedOut, GiveUp, ShownInv, Clean, InCapture, Describes
  <2>5. ImageInv'
    BY <1>9 DEF TimedOut, GiveUp, ImageInv
  <2> QED
    BY <2>1, <2>2, <2>3, <2>4, <2>5
<1>10. CASE Deliver
  <2>1. CopyInv'
    BY <1>10 DEF Deliver, Fixed, CopyInv
  <2>2. FormatInv'
    BY <1>10 DEF Deliver, Fixed, FormatInv, BusFormat, CamFormat
  <2>3. ~late' => CaptureInv'
    BY <1>10 DEF Deliver, Fixed, CaptureInv, InCapture, FrameRight, Content, ThreadRuns,
       Smp, NoImage, RestInv, DoneInv, WritingInv, RecordInv, RegisterInv, Cfgs, Cams,
       Bufs, Fbs, Buses
  <2>4. ShownInv'
    <3> SUFFICES ASSUME Clean PROVE Describes(framesize, fb.bpp)'
      BY <1>10 DEF Deliver, ShownInv, Clean
    <3>1. FrameRight
      BY <1>10 DEF Deliver, DoneInv, CaptureInv, InCapture, Clean
    <3>2. /\ bus.fmt = pixformat /\ bus.size = framesize /\ framesize # 0
          /\ BusFormat(cfg.fmt) = pixformat /\ cam.fmt = CamFormat(cfg.fmt)
          /\ cfg.size = framesize /\ ~(2 * cfg.size > BufSize)
      BY <1>10 DEF Deliver, FormatInv, CopyInv, Clean, RegisterInv
    <3>3. cfg.fmt \in DvpFormats
      BY DEF RegisterInv, Cfgs
    <3>4. buf' = Fixed(buf) /\ buf \in Bufs /\ framesize' = framesize
      BY <1>10 DEF Deliver, RecordInv
    <3>5. CASE cfg.fmt = "GRAYSCALE"
      <4>1. pixformat = "GRAYSCALE" /\ buf.pixels = "gray planes"
        BY <3>1, <3>2, <3>5 DEF FrameRight, Content, BusFormat, CamFormat
      <4>2. fb'.bpp = 1
        BY <1>10, <4>1 DEF Deliver, RecordInv, Fbs
      <4>3. buf'.pixels = "gray" /\ buf'.size = framesize
        BY <3>1, <3>2, <3>4, <4>1 DEF Fixed, FrameRight, Bufs
      <4> QED
        BY <3>4, <4>2, <4>3 DEF Describes
    <3>6. CASE cfg.fmt # "GRAYSCALE"
      <4>1. pixformat = "RGB565" /\ buf.pixels = "rgb pairs"
        BY <3>1, <3>2, <3>3, <3>6 DEF FrameRight, Content, BusFormat, CamFormat
      <4>2. fb'.bpp = 2
        BY <1>10, <4>1 DEF Deliver, RecordInv, Fbs
      <4>3. buf'.pixels = "rgb" /\ buf'.size = framesize
        BY <3>1, <3>2, <3>4, <4>1 DEF Fixed, FrameRight, Bufs
      <4> QED
        BY <3>4, <4>2, <4>3 DEF Describes
    <3> QED
      BY <3>5, <3>6
  <2>5. ImageInv'
    BY <1>10 DEF Deliver, Fixed, ImageInv, ThreadRuns, Smp, NoImage, CopyInv, FormatInv,
       BusFormat, CamFormat, Content, FrameRight, CaptureInv, InCapture, RestInv,
       DoneInv, WritingInv, AnnouncedInv, ArgInv, RecordInv, RegisterInv, BitInv, Cfgs,
       Cams, Bufs, Fbs, Buses
  <2> QED
    BY <2>1, <2>2, <2>3, <2>4, <2>5
<1> QED
  BY <1>1, <1>2, <1>3, <1>4, <1>5, <1>6, <1>7, <1>8, <1>9, <1>10 DEF Capture,
     ReadPixels, ReadStep

\* sensor_irq and the DVP keep the picture right: the frame buffer is written only
\* inside a call, and frame finish stands for a frame of the current settings.
LEMMA MachineKeepsPicture ==
    ASSUME SensorInv, PictureInv, Machine
    PROVE  PictureInv'
<1> SUFFICES ASSUME ~Smp, WritingInv, AnnouncedInv, DoneInv, RestInv,
                     CopyInv, FormatInv, ~late => CaptureInv, ShownInv, ImageInv
             PROVE  CopyInv' /\ FormatInv' /\ (~late' => CaptureInv') /\ ShownInv' /\ ImageInv'
  BY WorldFixed DEF Next, Smp, SensorInv, OneCoreInv, PictureInv
<1> USE DvpAssumption DEF DvpAssumption, AllFormats, DvpFormats, hardware, handler, caller,
        busVars, sensorVars, history, SensorInv, TypeInv
<1>1. CASE Irq /\ UNCHANGED <<sensorVars, history>>
  <2>1. CopyInv'
    BY <1>1 DEF Irq, Pending, CopyInv
  <2>2. FormatInv'
    BY <1>1 DEF Irq, Pending, FormatInv, BusFormat, CamFormat
  <2>3. ~late' => CaptureInv'
    BY <1>1 DEF Irq, Pending, CaptureInv, InCapture, FrameRight, Content
  <2>4. ShownInv'
    BY <1>1 DEF Irq, Pending, ShownInv, Clean, InCapture, Describes
  <2>5. ImageInv'
    BY <1>1 DEF Irq, Pending, ImageInv
  <2> QED
    BY <2>1, <2>2, <2>3, <2>4, <2>5
<1>2. CASE IrqTest /\ UNCHANGED <<sensorVars, history>>
  <2>1. CopyInv'
    BY <1>2 DEF IrqTest, CopyInv
  <2>2. FormatInv'
    BY <1>2 DEF IrqTest, FormatInv, BusFormat, CamFormat
  <2>3. ~late' => CaptureInv'
    BY <1>2 DEF IrqTest, CaptureInv, InCapture, FrameRight, Content
  <2>4. ShownInv'
    BY <1>2 DEF IrqTest, ShownInv, Clean, InCapture, Describes
  <2>5. ImageInv'
    BY <1>2 DEF IrqTest, ImageInv
  <2> QED
    BY <2>1, <2>2, <2>3, <2>4, <2>5
<1>3. CASE IrqMask /\ UNCHANGED <<sensorVars, history>>
  <2>1. CopyInv'
    BY <1>3 DEF IrqMask, NoCfg, CopyInv
  <2>2. FormatInv'
    BY <1>3 DEF IrqMask, FormatInv, CopyInv
  <2>3. ~late' => CaptureInv'
    <3>1. cfg'.size = cfg.size /\ cfg'.fmt = cfg.fmt
      BY <1>3 DEF IrqMask, CopyInv, RegisterInv, Cfgs
    <3>2. cam' = cam /\ buf' = buf
      BY <1>3 DEF IrqMask
    <3>3. FrameRight' <=> FrameRight
      BY <3>1, <3>2 DEF FrameRight, Content
    <3> QED
      BY <1>3, <3>1, <3>2, <3>3 DEF IrqMask, CaptureInv, InCapture
  <2>4. ShownInv'
    BY <1>3 DEF IrqMask, NoCfg, ShownInv, Clean, InCapture, Describes
  <2>5. ImageInv'
    BY <1>3 DEF IrqMask, NoCfg, ImageInv
  <2> QED
    BY <2>1, <2>2, <2>3, <2>4, <2>5
<1>4. CASE IrqLook /\ UNCHANGED <<sensorVars, history>>
  <2>1. CopyInv'
    BY <1>4 DEF IrqLook, CopyInv
  <2>2. FormatInv'
    BY <1>4 DEF IrqLook, FormatInv, BusFormat, CamFormat
  <2>3. ~late' => CaptureInv'
    BY <1>4 DEF IrqLook, CaptureInv, InCapture, FrameRight, Content
  <2>4. ShownInv'
    BY <1>4 DEF IrqLook, ShownInv, Clean, InCapture, Describes
  <2>5. ImageInv'
    BY <1>4 DEF IrqLook, ImageInv
  <2> QED
    BY <2>1, <2>2, <2>3, <2>4, <2>5
<1>5. CASE IrqEnd /\ UNCHANGED <<sensorVars, history>>
  <2>1. CopyInv'
    BY <1>5 DEF IrqEnd, CopyInv
  <2>2. FormatInv'
    BY <1>5 DEF IrqEnd, FormatInv, BusFormat, CamFormat
  <2>3. ~late' => CaptureInv'
    BY <1>5 DEF IrqEnd, CaptureInv, InCapture, FrameRight, Content, ThreadRuns, Smp,
       NoImage, RestInv, DoneInv, WritingInv, RecordInv, RegisterInv, Cfgs, Cams, Bufs,
       Fbs, Buses
  <2>4. ShownInv'
    BY <1>5 DEF IrqEnd, ShownInv, Clean, InCapture, Describes
  <2>5. ImageInv'
    BY <1>5 DEF IrqEnd, ImageInv
  <2> QED
    BY <2>1, <2>2, <2>3, <2>4, <2>5
<1>6. CASE IrqRaise /\ UNCHANGED <<sensorVars, history>>
  <2>1. CopyInv'
    BY <1>6 DEF IrqRaise, CopyInv
  <2>2. FormatInv'
    BY <1>6 DEF IrqRaise, FormatInv, BusFormat, CamFormat
  <2>3. ~late' => CaptureInv'
    BY <1>6 DEF IrqRaise, CaptureInv, InCapture, FrameRight, Content
  <2>4. ShownInv'
    BY <1>6 DEF IrqRaise, ShownInv, Clean, InCapture, Describes
  <2>5. ImageInv'
    BY <1>6 DEF IrqRaise, ImageInv
  <2> QED
    BY <2>1, <2>2, <2>3, <2>4, <2>5
<1>7. CASE IrqBegin /\ UNCHANGED <<sensorVars, history>>
  <2>1. CopyInv'
    BY <1>7 DEF IrqBegin, CopyInv
  <2>2. FormatInv'
    BY <1>7 DEF IrqBegin, FormatInv, BusFormat, CamFormat
  <2>3. ~late' => CaptureInv'
    BY <1>7 DEF IrqBegin, CaptureInv, InCapture, FrameRight, Content
  <2>4. ShownInv'
    BY <1>7 DEF IrqBegin, ShownInv, Clean, InCapture, Describes
  <2>5. ImageInv'
    BY <1>7 DEF IrqBegin, ImageInv
  <2> QED
    BY <2>1, <2>2, <2>3, <2>4, <2>5
<1>8. CASE IrqAck /\ UNCHANGED <<sensorVars, history>>
  <2>1. CopyInv'
    BY <1>8 DEF IrqAck, CopyInv
  <2>2. FormatInv'
    BY <1>8 DEF IrqAck, FormatInv, BusFormat, CamFormat
  <2>3. ~late' => CaptureInv'
    <3>1. /\ UNCHANGED <<flag, pc, busy, buf, cfg, late>> /\ cam'.fmt = cam.fmt
          /\ "finish" \in sts' <=> "finish" \in sts
          /\ irq' = "raise" => irq = "raise"
      BY <1>8 DEF IrqAck, sensorVars, history, handler, RecordInv, Cams
    <3>2. (InCapture' <=> InCapture) /\ (FrameRight' <=> FrameRight)
      BY <3>1 DEF InCapture, FrameRight, Content
    <3> QED
      BY <3>1, <3>2 DEF CaptureInv
  <2>4. ShownInv'
    BY <1>8 DEF IrqAck, ShownInv, Clean, InCapture, Describes
  <2>5. ImageInv'
    BY <1>8 DEF IrqAck, ImageInv
  <2> QED
    BY <2>1, <2>2, <2>3, <2>4, <2>5
<1>9. CASE FrameStart /\ UNCHANGED <<sensorVars, history>>
  <2>1. CopyInv'
    BY <1>9 DEF FrameStart, InTime, Pending, CopyInv
  <2>2. FormatInv'
    BY <1>9 DEF FrameStart, InTime, Pending, FormatInv, BusFormat, CamFormat
  <2>3. ~late' => CaptureInv'
    <3>1. /\ UNCHANGED <<flag, pc, busy, buf, cfg, late>> /\ cam'.fmt = cam.fmt
          /\ "finish" \in sts' <=> "finish" \in sts
          /\ irq' = "raise" => irq = "raise"
      BY <1>9 DEF FrameStart, sensorVars, history, handler, RecordInv, Cams
    <3>2. (InCapture' <=> InCapture) /\ (FrameRight' <=> FrameRight)
      BY <3>1 DEF InCapture, FrameRight, Content
    <3> QED
      BY <3>1, <3>2 DEF CaptureInv
  <2>4. ShownInv'
    BY <1>9 DEF FrameStart, InTime, Pending, ShownInv, Clean, InCapture, Describes
  <2>5. ImageInv'
    BY <1>9 DEF FrameStart, InTime, Pending, ImageInv
  <2> QED
    BY <2>1, <2>2, <2>3, <2>4, <2>5
<1>10. CASE FirstLine /\ UNCHANGED <<sensorVars, history>>
  <2>1. CopyInv'
    BY <1>10 DEF FirstLine, InTime, Pending, CopyInv
  <2>2. FormatInv'
    BY <1>10 DEF FirstLine, InTime, Pending, FormatInv, BusFormat, CamFormat
  <2>3. ~late' => CaptureInv'
    <3>1. UNCHANGED <<flag, pc, cfg, late, irq, sts>> /\ cam'.fmt = cam.fmt /\ busy' = armed
      BY <1>10 DEF FirstLine, sensorVars, history, handler, RecordInv, Cams
    <3>2. InCapture' <=> InCapture
      BY <3>1 DEF InCapture
    <3>3. CASE armed
      <4>1. buf'.size = cfg.size
        BY <1>10, <3>3 DEF FirstLine
      <4>2. ~(flag = 1 \/ "finish" \in sts \/ irq = "raise")
        BY <3>3 DEF DoneInv
      <4> QED
        BY <3>1, <3>2, <4>1, <4>2 DEF CaptureInv
    <3>4. CASE ~armed
      <4>1. buf' = buf
        BY <1>10, <3>4 DEF FirstLine
      <4>2. FrameRight' <=> FrameRight
        BY <3>1, <4>1 DEF FrameRight, Content
      <4> QED
        BY <3>1, <3>2, <3>4, <4>2 DEF CaptureInv
    <3> QED
      BY <3>3, <3>4
  <2>4. ShownInv'
    BY <1>10 DEF FirstLine, ShownInv, Clean, InCapture, Describes, RestInv
  <2>5. ImageInv'
    BY <1>10 DEF FirstLine, InTime, Pending, ImageInv
  <2> QED
    BY <2>1, <2>2, <2>3, <2>4, <2>5
<1>11. CASE LastLine /\ UNCHANGED <<sensorVars, history>>
  <2>1. CopyInv'
    BY <1>11 DEF LastLine, InTime, Pending, CopyInv
  <2>2. FormatInv'
    BY <1>11 DEF LastLine, InTime, Pending, FormatInv, BusFormat, CamFormat
  <2>3. ~late' => CaptureInv'
    BY <1>11 DEF LastLine, InTime, Pending, CaptureInv, InCapture, FrameRight, Content,
       ThreadRuns, Smp, NoImage, RestInv, DoneInv, WritingInv, RecordInv, RegisterInv,
       Cfgs, Cams, Bufs, Fbs, Buses
  <2>4. ShownInv'
    BY <1>11 DEF LastLine, ShownInv, Clean, InCapture, Describes, RestInv
  <2>5. ImageInv'
    BY <1>11 DEF LastLine, InTime, Pending, ImageInv
  <2> QED
    BY <2>1, <2>2, <2>3, <2>4, <2>5
<1> QED
  BY <1>1, <1>2, <1>3, <1>4, <1>5, <1>6, <1>7, <1>8, <1>9, <1>10, <1>11 DEF Machine,
     IrqStep, Hardware

\* The picture invariant holds of every behaviour of the camera stack.
LEMMA PictureInvariant == Spec => []PictureInv
<1>1. Init => PictureInv
  BY DvpAssumption DEF Init, BusInit, PictureInv, CopyInv, FormatInv, CaptureInv,
     ShownInv, Clean, ImageInv, NoCfg, NoBus
<1>2. SensorInv /\ PictureInv /\ [Next]_vars => PictureInv'
  <2>1. CASE SensorInv /\ PictureInv /\ Next
    BY <2>1, SetterKeepsPicture, CaptureKeepsPicture, MachineKeepsPicture DEF Next
  <2>2. CASE PictureInv /\ UNCHANGED vars
    BY <2>2 DEF vars, busVars, hardware, handler, caller, sensorVars, history,
       PictureInv, CopyInv, FormatInv, CaptureInv, FrameRight, Content, InCapture,
       ShownInv, Clean, Describes, ImageInv, Smp
  <2> QED
    BY <2>1, <2>2
<1> QED
  BY <1>1, <1>2, Invariant, PTL DEF Spec

\* On one core, without a time-out or a refused format, an image from sensor.snapshot
\* holds one whole frame in the size and format it claims, for every order of setters
\* and snapshots and however late the handler runs.
THEOREM ImageIsRight == Spec => []ImageRight
<1>1. SensorInv /\ PictureInv => ImageRight
  <2> SUFFICES ASSUME SensorInv, PictureInv, image # NoImage, Regular
               PROVE  Describes(image.w, image.bpp)
    BY DEF ImageRight
  <2>1. /\ pc = "idle" /\ image.w = framesize
        /\ image.bpp = fb.bpp /\ fb.bpp \in {1, 2}
    BY DEF PictureInv, ImageInv, Regular
  <2>2. Clean
    BY DEF Regular, Clean
  <2> QED
    BY <2>1, <2>2 DEF PictureInv, ShownInv, InCapture, Regular
<1> QED
  BY <1>1, Invariant, PictureInvariant, PTL

\* On one core, without a time-out or a refused format, the preview for the IDE never
\* compresses a frame that is being written or one of other settings.
THEOREM PreviewIsRight == Spec => []PreviewRight
<1>1. SensorInv /\ PictureInv => PreviewRight
  BY DEF SensorInv, OneCoreInv, RestInv, PictureInv, ShownInv, Clean, InCapture, Regular,
     PreviewRight
<1> QED
  BY <1>1, Invariant, PictureInvariant, PTL
=============================================================================
