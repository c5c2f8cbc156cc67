----------------------------- MODULE MCEventLoop -----------------------------
(***************************************************************************)
(* A small instance of IdleTimers, the event loop over the pointers of its *)
(* idle list, for TLC.                                                     *)
(***************************************************************************)
EXTENDS IdleTimers

CONSTANTS c1, c2, c3
=============================================================================
