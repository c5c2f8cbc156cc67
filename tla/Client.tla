------------------------------- MODULE Client --------------------------------
(***************************************************************************)
(* What src/client.cpp makes of its arguments and of a reply.  Strings and *)
(* cells are those of Protocol.tla.                                        *)
(***************************************************************************)
EXTENDS Protocol

\* The cells of a request: how many strings, and each after its length.
Body(cmd) == <<Len(cmd)>> \o FlattenSeq([i \in DOMAIN cmd |-> <<Len(cmd[i])>> \o cmd[i]])

\* send_req: the message, or none if it is too long.
send_req(cmd) == IF Len(Body(cmd)) > MaxMsg THEN {} ELSE {Framed(Body(cmd))}

\* What on_response makes of a value: how many cells it reads, or -1, how
\* often it calls itself for the elements, and what it prints, value by value.
Read(n, calls, values) == [rv |-> n, calls |-> calls, seen |-> values]
Bad == Read(-1, 0, <<>>)

\* on_response without the elements of an array.
Value(data) ==
  LET size == Len(data)
      tag == data[1]
  IN IF size < 1 THEN Bad
     ELSE CASE tag = SER_NIL -> Read(1, 0, <<<<"nil">>>>)
          [] tag = SER_ERR ->
               IF size < 3 \/ size < 3 + data[3] THEN Bad
               ELSE Read(3 + data[3], 0, <<<<"err", data[2]>>>>)
          [] tag = SER_STR ->
               IF size < 2 \/ size < 2 + data[2] THEN Bad
               ELSE Read(2 + data[2], 0, <<<<"str", SubSeq(data, 3, 2 + data[2])>>>>)
          [] tag = SER_INT -> IF size < 2 THEN Bad ELSE Read(2, 0, <<<<"int", data[2]>>>>)
          [] tag = SER_DBL -> IF size < 2 THEN Bad ELSE Read(2, 0, <<<<"dbl", data[2]>>>>)
          [] tag = SER_ARR -> IF size < 2 THEN Bad ELSE Read(2, data[2], <<<<"arr", data[2]>>>>)
          [] OTHER -> Bad

\* One call of on_response, if there is one to come: s is what those before
\* it have read.
Call(data, s) ==
  LET one == Value(SubSeq(data, s.rv + 1, Len(data)))
  IN IF s.calls = 0 \/ s.rv < 0 THEN s
     ELSE Read(IF one.rv < 0 THEN one.rv ELSE s.rv + one.rv,
               s.calls - 1 + one.calls, s.seen \o one.seen)

\* on_response: each call reads a cell at least, or fails, and then all do.
\* (Bound to s, after[k - 1] is evaluated once.)
on_response(data) ==
  LET after[k \in 0 .. Len(data) + 1] ==
        IF k = 0 THEN Read(0, 1, <<>>)
        ELSE CHOOSE r \in {Call(data, s) : s \in {after[k - 1]}} : TRUE
  IN after[Len(data) + 1]

\* read_res of a whole message: what is printed, and 0 or -1.
read_res(msg) ==
  LET res == on_response(Tail(msg))
  IN IF msg[1] > MaxMsg THEN [seen |-> <<>>, err |-> -1]
     ELSE [seen |-> res.seen,
           err  |-> IF res.rv > 0 /\ res.rv # msg[1] THEN -1 ELSE 0]
=============================================================================
