----------------------------- MODULE MCDmaLock -----------------------------
(* Small instances of DmaLock for TLC.                                     *)
EXTENDS DmaLock

CONSTANTS t1, t2, t3

ThreeThreads == {t1, t2, t3}
=============================================================================
