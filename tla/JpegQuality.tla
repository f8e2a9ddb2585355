---------------------------- MODULE JpegQuality ----------------------------
(***************************************************************************)
(* The quality controller of fb_update_jpeg_buffer (framebuffer.c).  A     *)
(* frame that overflows the JPEG buffer halves the quality of the next     *)
(* ones; after a while without overflow the quality climbs back, one point *)
(* per frame.  The state outlives scripts: quality is a field of the JPEG  *)
(* buffer, overflow_count a static variable that sensor_init leaves alone. *)
(***************************************************************************)
EXTENDS Integers

CONSTANTS QualityLow,    \* JPEG_QUALITY_LOW: ceiling for huge images
          QualityHigh,   \* JPEG_QUALITY_HIGH: ceiling for the others
          KeepFrames     \* good frames before the quality climbs again

ASSUME JpegQualityAssumption ==
    /\ QualityLow \in Nat /\ QualityHigh \in Nat /\ KeepFrames \in Nat
    /\ 1 <= QualityLow /\ QualityLow <= QualityHigh
    /\ 1 <= KeepFrames

VARIABLES quality, overflow_count

qualityVars == <<quality, overflow_count>>

\* Static storage is zero until the first sensor_init.
QualityInit == quality = 0 /\ overflow_count = 0

SensorQuality ==
    /\ quality' = ((QualityHigh - QualityLow) \div 2) + QualityLow
    /\ UNCHANGED overflow_count

\* Fault: one frame short.
KeepOneLess ==
    IF quality > 1
    THEN quality' = quality \div 2 /\ overflow_count' = KeepFrames - 1
    ELSE UNCHANGED qualityVars

Overflowed ==
    IF quality > 1
    THEN quality' = quality \div 2 /\ overflow_count' = KeepFrames
    ELSE UNCHANGED qualityVars

QualityMax(big) == IF big THEN QualityLow ELSE QualityHigh

\* Fault: the counter is never run down.
FittedNoCount(big) ==
    /\ UNCHANGED overflow_count
    /\ quality' = IF overflow_count = 0 /\ quality < QualityMax(big)
                  THEN quality + 1 ELSE quality

Fitted(big) ==
    /\ overflow_count' = IF overflow_count > 0 THEN overflow_count - 1 ELSE 0
    /\ quality' = IF overflow_count' = 0 /\ quality < QualityMax(big)
                  THEN quality + 1 ELSE quality
=============================================================================
