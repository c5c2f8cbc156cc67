------------------------------ MODULE Protocol -------------------------------
(***************************************************************************)
(* The wire format of src/server.cpp: requests as parse_req reads them and *)
(* replies as the out_* functions write them.                              *)
(*                                                                         *)
(* Data.  What travels is a sequence of cells, which are numbers: a tag, a *)
(* count, a length, an error code, an 8-byte number, or one byte of a      *)
(* string.  A field is one cell wide whatever it is in bytes, so the       *)
(* code's 1 + 4 + len is 1 + 1 + len here.  A string is the sequence of    *)
(* its bytes, which nothing looks into.                                    *)
(***************************************************************************)
EXTENDS Integers, Sequences, SequencesExt

CONSTANTS
  MaxArgs,        \* 1024 in the code: k_max_args
  MaxMsg,         \* 4096 in the code: k_max_msg
  ErrText         \* ErrText[code]: the message that goes with an error

SER_NIL == 0
SER_ERR == 1
SER_STR == 2
SER_INT == 3
SER_DBL == 4
SER_ARR == 5

ERR_UNKNOWN == 1
ERR_2BIG == 2
ERR_TYPE == 3
ERR_ARG == 4

ASSUME ProtocolAssumption ==
  /\ MaxArgs \in Nat /\ MaxMsg \in Nat
  /\ ErrText \in [ERR_UNKNOWN .. ERR_ARG -> Seq(Nat)]

out_nil == <<SER_NIL>>
out_str(val) == <<SER_STR, Len(val)>> \o val
out_int(val) == <<SER_INT, val>>
out_dbl(val) == <<SER_DBL, val>>
out_err(code) == <<SER_ERR, code, Len(ErrText[code])>> \o ErrText[code]
out_arr(n) == <<SER_ARR, n>>

\* Mutant: no check that the arguments end where the request does.
Mut_parse_req(data, len) ==
  LET n == data[1]
      end[i \in 0 .. n] ==
        IF i = 0 THEN 1
        ELSE LET pos == end[i - 1]
             IN IF pos + 1 > len \/ pos + data[pos + 1] > len THEN len + 1
                ELSE pos + 1 + data[pos + 1]
  IN IF n > MaxArgs \/ end[n] > len THEN {}
     ELSE {[i \in 1 .. n |-> SubSeq(data, end[i - 1] + 2, end[i])]}

\* parse_req: the arguments, or none if it rejects the request.  data goes
\* on after the len cells of the request, with whatever rbuf holds there:
\* the last argument may be taken from one cell too far, and the count from
\* a request that has none, before the last check rejects the request.
parse_req(data, len) ==
  LET n == data[1]
      end[i \in 0 .. n] ==    \* where argument i ends; past len if it cannot
        IF i = 0 THEN 1
        ELSE LET pos == end[i - 1]
             IN IF pos + 1 > len \/ pos + data[pos + 1] > len THEN len + 1
                ELSE pos + 1 + data[pos + 1]
  IN IF n > MaxArgs \/ end[n] # len THEN {}
     ELSE {[i \in 1 .. n |-> SubSeq(data, end[i - 1] + 2, end[i])]}

\* try_one_request: a reply that does not fit is replaced by an error.
Fitted(out) == IF 1 + Len(out) > MaxMsg THEN out_err(ERR_2BIG) ELSE out

\* A message on the wire: its length, except for itself, and its cells.
Framed(out) == <<Len(out)>> \o out
=============================================================================
