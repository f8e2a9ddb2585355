---------------------------- MODULE JpegControl ----------------------------
(***************************************************************************)
(* The quality controller on its own, over an endless stream of frames of  *)
(* either size, with the constants of the board.  Two history variables    *)
(* watch it: "last" is what became of the last frame, "calm" counts the    *)
(* frames that fitted since the quality was last lowered.                  *)
(***************************************************************************)
EXTENDS JpegQuality

VARIABLES last, calm

controlVars == <<qualityVars, last, calm>>

ControlInit == QualityInit /\ last = "reset" /\ calm = KeepFrames

\* A frame that did not fit; quality 1 or 0 cannot be lowered any more.
Overflow ==
    /\ Overflowed
    /\ last' = "overflow"
    /\ calm' = IF quality > 1 THEN 0 ELSE calm

Fit(big) ==
    /\ Fitted(big)
    /\ last' = IF big THEN "big" ELSE "small"
    /\ calm' = IF calm < KeepFrames THEN calm + 1 ELSE calm

\* sensor.reset() from a script
Reset == SensorQuality /\ last' = "reset" /\ UNCHANGED calm

Frame == Overflow \/ \E big \in BOOLEAN : Fit(big)

ControlNext == Frame \/ Reset

ControlSpec == ControlInit /\ [][ControlNext]_controlVars

(* The camera keeps taking pictures; only the script resets the sensor. *)
ControlFairSpec == ControlSpec /\ WF_controlVars(Frame)

----------------------------------------------------------------------------
(* Properties *)

\* The quality given to jpeg_compress is between 0 and the larger ceiling
\* through any mix of overflows, climbs and sensor resets, and the counter
\* mirrors the frames that fitted since the quality was last lowered.
TypeOK ==
    /\ quality \in 0 .. QualityHigh
    /\ overflow_count \in 0 .. KeepFrames
    /\ calm \in 0 .. KeepFrames
    /\ last \in {"reset", "overflow", "big", "small"}

\* Once a sensor was initialised the quality never falls to 0 again.
NeverZero == [][quality > 0 => quality' > 0]_controlVars

\* "Keep this quality for the next n frames" (framebuffer.c:139): a frame
\* raises the quality only after KeepFrames frames fitted since it was
\* lowered, sensor resets between them or not.
KeptForFrames == [][quality' = quality + 1 => calm' = KeepFrames \/ last' = "reset"]_controlVars

\* "increase quality up to max quality based on frame size"
\* (framebuffer.c:154): a camera whose frames stop overflowing gets at least
\* the lower ceiling back, and with small frames only the higher one.
Recovers ==
    /\ []<>(last \in {"overflow", "reset"}) \/ <>[](quality >= QualityLow)
    /\ []<>(last # "small") \/ <>[](quality = QualityHigh)
=============================================================================
