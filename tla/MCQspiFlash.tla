---------------------------- MODULE MCQspiFlash ----------------------------
(***************************************************************************)
(* A chip of four sectors in two blocks, one bit to a page: every write of *)
(* up to three pages below the download partition, and images of one page, *)
(* one sector, and a sector and a half.                                    *)
(***************************************************************************)
EXTENDS QspiFlash

CONSTANT b

MCRequests == UNION {[1..k -> Values] : k \in 1..3}
MCImages == {<<{}>>, <<{b}, {}>>, <<{}, {b}, {}>>}
=============================================================================
