------------------------------ MODULE MCHashMap ------------------------------
(***************************************************************************)
(* Small instances of HashMap for TLC.  The initial capacity, the load and *)
(* the migration quota are scaled down so that a handful of keys goes      *)
(* through three doublings, with a migration still open when the next      *)
(* operations arrive.                                                      *)
(***************************************************************************)
EXTENDS HashMap

\* Keys are small numbers.  1 and 5 have the same hash code; 2 and 4 share
\* a bucket until the table has four of them.
MCHash == [k \in Key |-> IF k = 5 THEN 1 ELSE k]
=============================================================================
