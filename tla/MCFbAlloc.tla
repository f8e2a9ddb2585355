----------------------------- MODULE MCFbAlloc -----------------------------
(* Small instances of FbAlloc; the memory blocks are interchangeable. *)
EXTENDS FbAlloc, TLC

BlockSymmetry == Permutations(Blocks)
=============================================================================
