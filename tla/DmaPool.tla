------------------------------ MODULE DmaPool ------------------------------
(***************************************************************************)
(* What bsp/driver/dmalock.c promises to the drivers that share the DMA    *)
(* controller: a pool of channels.  A thread asks for one channel; it is   *)
(* answered once, with a channel nobody holds, or - only if it asked with  *)
(* a finite timeout - with a refusal; it gives back what it holds.         *)
(***************************************************************************)
EXTENDS Naturals

CONSTANTS Threads,   \* the driver threads that use dmalock
          Channels   \* the DMA channels

VARIABLES holds,     \* holds[t]: the channels t may program
          asking     \* asking[t]: "none", or how long t is ready to wait

poolVars == <<holds, asking>>

Waits == {"forever", "finite"}   \* RT_WAITING_FOREVER or a tick count

PoolTypeOK ==
    /\ holds \in [Threads -> SUBSET Channels]
    /\ asking \in [Threads -> Waits \cup {"none"}]

PoolInit ==
    /\ holds = [t \in Threads |-> {}]
    /\ asking = [t \in Threads |-> "none"]

Ask(t, w) ==
    /\ asking[t] = "none"
    /\ asking' = [asking EXCEPT ![t] = w]
    /\ UNCHANGED holds

Grant(t, c) ==
    /\ asking[t] \in Waits
    /\ \A u \in Threads : c \notin holds[u]
    /\ holds' = [holds EXCEPT ![t] = @ \cup {c}]
    /\ asking' = [asking EXCEPT ![t] = "none"]

Refuse(t) ==
    /\ asking[t] = "finite"
    /\ asking' = [asking EXCEPT ![t] = "none"]
    /\ UNCHANGED holds

GiveBack(t, c) ==
    /\ asking[t] = "none"
    /\ c \in holds[t]
    /\ holds' = [holds EXCEPT ![t] = @ \ {c}]
    /\ UNCHANGED asking

PoolNext ==
    \E t \in Threads :
        \/ \E w \in Waits : Ask(t, w)
        \/ \E c \in Channels : Grant(t, c)
        \/ Refuse(t)
        \/ \E c \in Channels : GiveBack(t, c)

PoolSpec == PoolInit /\ [][PoolNext]_poolVars
=============================================================================
