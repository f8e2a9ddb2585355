------------------------------ MODULE FbStack ------------------------------
(***************************************************************************)
(* What fb_alloc.c promises ("extra frame buffer RAM as a stack"): blocks  *)
(* are stacked in the order of their allocation, marks divide the stack    *)
(* into frames, and memory is given back from the top only.                *)
(***************************************************************************)
EXTENDS Naturals, Sequences

CONSTANTS Blocks, Size

VARIABLES stack,   \* the blocks on the stack with the mark they were taken under
          depth,   \* the marks set
          live     \* blocks taken from the heap

vars == <<stack, depth, live>>

Entry == [p : Blocks, mark : Nat]
Contents(s) == {s[j].p : j \in 1 .. Len(s)}

Init == stack = <<>> /\ depth = 0 /\ live = {}

Mark == depth' = depth + 1 /\ UNCHANGED <<stack, live>>

Push(b) ==
    /\ Len(stack) < Size
    /\ b \notin live
    /\ stack' = Append(stack, [p |-> b, mark |-> depth])
    /\ live' = live \cup {b}
    /\ UNCHANGED depth

Pop ==
    /\ stack # <<>>
    /\ stack' = SubSeq(stack, 1, Len(stack) - 1)
    /\ live' = live \ {stack[Len(stack)].p}
    /\ UNCHANGED depth

\* All blocks of the newest frame at once.
PopMark ==
    /\ depth > 0
    /\ \E k \in 0 .. Len(stack) :
         /\ \A j \in 1 .. Len(stack) : j > k <=> stack[j].mark = depth
         /\ stack' = SubSeq(stack, 1, k)
         /\ live' = live \ {stack[j].p : j \in k + 1 .. Len(stack)}
    /\ depth' = depth - 1

Clear ==
    /\ live' = live \ Contents(stack)
    /\ stack' = <<>> /\ depth' = 0

\* A new script starts with an empty stack, whatever was on it.
Forget == stack' = <<>> /\ depth' = 0 /\ UNCHANGED live

Next ==
    \/ Mark \/ Pop \/ PopMark \/ Clear \/ Forget
    \/ \E b \in Blocks : Push(b)

Spec == Init /\ [][Next]_vars
=============================================================================
