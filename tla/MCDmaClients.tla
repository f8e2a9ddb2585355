---------------------------- MODULE MCDmaClients ----------------------------
(* A board with a screen, where two channels are left for the others, and   *)
(* one without, where an FFT may hold other channels than it runs on; no KPU *)
(* runs there.                                                               *)
EXTENDS DmaClients

CONSTANT c1

MCBoards == {[screen |-> {c1}, run |-> 0], [screen |-> {}, run |-> MaxRuns]}
=============================================================================
