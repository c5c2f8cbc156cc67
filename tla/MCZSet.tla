------------------------------- MODULE MCZSet -------------------------------
(***************************************************************************)
(* Small instances of ZSet for TLC.                                        *)
(***************************************************************************)
EXTENDS ZSet

\* Back, nowhere, on, and out of range.
MCOffset == {-1, 0, 2, 7}

\* The tuple before.
MCBack == {-1}

\* An order of insertion that makes a tree of 22 nodes, and the bound that
\* keeps a run to it.
MCOrder == <<10, 11, 8, 18, 21, 15, 7, 1, 5, 3, 6, 9, 14, 17, 4, 22, 19, 2,
             20, 16, 12, 13>>

InMCOrder == \E k \in 0 .. Len(MCOrder) : hmap = {MCOrder[i] : i \in 1 .. k}
=============================================================================
