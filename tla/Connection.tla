----------------------------- MODULE Connection -----------------------------
(***************************************************************************)
(* One connection of src/server.cpp: the bytes a client streams in, the    *)
(* requests cut from them, and the replies streamed out, over non-blocking *)
(* sockets that take and give any part of what is asked.                   *)
(*                                                                         *)
(* Data.  The client sends the requests 1 .. N, in order.  A byte is       *)
(* <<i, j>>, the j-th byte of the frame of request i, or of its reply; a   *)
(* frame is Hdr length bytes and a body.  What a request does to the data  *)
(* is left out: a request that parses has a reply of some size.            *)
(*                                                                         *)
(* Control.  pc is the function of the connection that runs: the loop      *)
(* waits in "poll"; "fill" is try_fill_buffer, "parse" try_one_request,    *)
(* "flush" try_flush_buffer.  The kernel's queues have bounds, and the     *)
(* client may close or reset the connection at any time.                   *)
(***************************************************************************)
EXTENDS Integers, Sequences, SequencesExt

CONSTANTS
  N,              \* how many requests the client sends
  Body,           \* Body[i]: the length of the body of request i
  WellFormed,     \* the requests that parse_req accepts
  Out,            \* Out[i]: the size do_request leaves in out for request i
  Hdr,            \* 4 in the code: the length field
  MaxMsg,         \* 4096 in the code: k_max_msg
  ErrOut,         \* the size of out_err's ERR_2BIG
  InCap, OutCap   \* what the kernel queues in each direction

Request == 1 .. N

ASSUME ConnectionAssumption ==
  /\ N \in Nat /\ Hdr \in Nat \ {0} /\ MaxMsg \in Nat \ {0}
  /\ Body \in [Request -> Nat] /\ Out \in [Request -> Nat \ {0}]
  /\ WellFormed \subseteq Request
  /\ \A i \in WellFormed : Body[i] >= Hdr  \* a body begins with a count as wide
  /\ ErrOut \in Nat \ {0} /\ Hdr + ErrOut <= MaxMsg
  /\ InCap \in Nat \ {0} /\ OutCap \in Nat \ {0}

VARIABLES
  to_send,        \* the byte that the client sends next
  peer,           \* the client's end: "open", "closed" or "reset"
  inq, outq,      \* the kernel's queues to and from the server
  got,            \* all that the client has read
  rbuf,           \* rbuf[0 .. rbuf_size-1]
  wbuf,           \* wbuf[0 .. wbuf_size-1]
  wbuf_sent,
  state,          \* "REQ", "RES" or "END"
  pc,
  caller,         \* who called state_res: "connection_io" or "try_one_request"
  executed        \* the requests do_request has run, in order

vars == <<to_send, peer, inq, outq, got, rbuf, wbuf, wbuf_sent, state, pc,
          caller, executed>>
client == <<to_send, peer, got>>

\* sizeof(rbuf) and sizeof(wbuf).
BufSize == Hdr + MaxMsg

\* The byte that follows byte b in the client's stream.
Succ(b) == IF b[2] < Hdr + Body[b[1]] THEN <<b[1], b[2] + 1>> ELSE <<b[1] + 1, 1>>

\* Mutant: no check of the size.
Mut_ReplySize(i) == Out[i]

\* A reply that does not fit is replaced by an error.
ReplySize(i) == IF Hdr + Out[i] > MaxMsg THEN ErrOut ELSE Out[i]
Reply(i) == [j \in 1 .. Hdr + ReplySize(i) |-> <<i, j>>]

\* The request whose length field rbuf begins with.
Next_req == rbuf[1][1]
FrameLen == Hdr + Body[Next_req]

From(s, n) == SubSeq(s, n, Len(s))
-----------------------------------------------------------------------------
Init ==
  /\ to_send = <<1, 1>> /\ peer = "open" /\ got = <<>>
  /\ inq = <<>> /\ outq = <<>>
  /\ rbuf = <<>> /\ wbuf = <<>> /\ wbuf_sent = 0
  /\ state = "REQ" /\ pc = "poll" /\ caller = "connection_io"
  /\ executed = <<>>

\* The client writes some of its requests, here a byte: others may follow
\* before the server looks.
ClientSend ==
  /\ peer = "open" /\ to_send[1] \in Request
  /\ Len(inq) < InCap
  /\ inq' = Append(inq, to_send)
  /\ to_send' = Succ(to_send)
  /\ UNCHANGED <<peer, got, outq, rbuf, wbuf, wbuf_sent, state, pc, caller, executed>>

\* The client reads what has arrived.
ClientRead ==
  /\ outq # <<>> /\ peer = "open"
  /\ got' = got \o outq
  /\ outq' = <<>>
  /\ UNCHANGED <<to_send, peer, inq, rbuf, wbuf, wbuf_sent, state, pc, caller, executed>>

\* The client shuts its end down, in order or not.
ClientLeave ==
  /\ peer = "open"
  /\ peer' \in {"closed", "reset"}
  /\ UNCHANGED <<to_send, got, inq, outq, rbuf, wbuf, wbuf_sent, state, pc, caller, executed>>

\* Mutant: the loop polls every connection for POLLIN.
Mut_Polled == inq # <<>> \/ peer # "open"

\* poll() reports the connection: it polls for POLLIN while it reads
\* requests, for POLLOUT while it sends a reply, and always for errors.
Polled ==
  \/ state = "REQ" /\ inq # <<>>
  \/ state # "REQ" /\ Len(outq) < OutCap
  \/ peer # "open"

\* The loop calls connection_io.
Wake ==
  /\ pc = "poll"
  /\ pc' = IF state = "REQ" THEN "fill" ELSE "flush"
  /\ caller' = "connection_io"
  /\ UNCHANGED <<client, inq, outq, rbuf, wbuf, wbuf_sent, state, executed>>

\* The connection ends; the loop destroys it before anything else happens.
End ==
  /\ state' = "END" /\ pc' = "closed"
  /\ UNCHANGED <<client, inq, outq, rbuf, wbuf, wbuf_sent, caller, executed>>

\* The process is killed.
Die ==
  /\ pc' = "dead"
  /\ UNCHANGED <<client, inq, outq, rbuf, wbuf, wbuf_sent, state, caller, executed>>

\* Back to the loop, or from a request to the next one in rbuf.
Leave ==
  pc' = IF caller = "try_one_request" /\ state' = "REQ" THEN "parse" ELSE "poll"

\* Mutant: requests are looked for only if rbuf was empty.
Mut_RecvData(k) ==
  /\ pc = "fill" /\ peer # "reset"
  /\ k \in 1 .. Len(inq) /\ k <= BufSize - Len(rbuf)
  /\ rbuf' = rbuf \o SubSeq(inq, 1, k)
  /\ inq' = From(inq, k + 1)
  /\ pc' = IF rbuf = <<>> THEN "parse" ELSE "poll"
  /\ UNCHANGED <<client, outq, wbuf, wbuf_sent, state, caller, executed>>

\* try_fill_buffer: recv() gives some bytes, as many as fit at most.
RecvData(k) ==
  /\ pc = "fill" /\ peer # "reset"
  /\ k \in 1 .. Len(inq) /\ k <= BufSize - Len(rbuf)
  /\ rbuf' = rbuf \o SubSeq(inq, 1, k)
  /\ inq' = From(inq, k + 1)
  /\ pc' = "parse"
  /\ UNCHANGED <<client, outq, wbuf, wbuf_sent, state, caller, executed>>

\* try_fill_buffer: EAGAIN, if poll() was wrong.
RecvAgain ==
  /\ pc = "fill" /\ peer = "open" /\ inq = <<>>
  /\ pc' = "poll"
  /\ UNCHANGED <<client, inq, outq, rbuf, wbuf, wbuf_sent, state, caller, executed>>

\* try_fill_buffer: EOF, or any other error.
RecvEnd ==
  /\ pc = "fill"
  /\ peer = "reset" \/ (peer = "closed" /\ inq = <<>>)
  /\ End

\* try_one_request: rbuf has no length field yet.
ParseNothing ==
  /\ pc = "parse" /\ Len(rbuf) < Hdr
  /\ pc' = "poll"
  /\ UNCHANGED <<client, inq, outq, rbuf, wbuf, wbuf_sent, state, caller, executed>>

\* try_one_request: the length is too long, or parse_req rejects the body.
ParseReject ==
  /\ pc = "parse" /\ Len(rbuf) >= Hdr
  /\ \/ Body[Next_req] > MaxMsg
     \/ Len(rbuf) >= FrameLen /\ Next_req \notin WellFormed
  /\ End

\* try_one_request: the body has not arrived in full, and parse_req reads
\* on into what rbuf held before or malloc left there.  It rejects that, or
\* accepts it: then rbuf_size - len - 4 wraps around and memmove faults.
ParsePartial ==
  /\ pc = "parse" /\ Len(rbuf) >= Hdr
  /\ Body[Next_req] <= MaxMsg /\ Len(rbuf) < FrameLen
  /\ End \/ Die

\* Mutant: the length field is forgotten when the request is removed.
Mut_ParseRequest ==
  /\ pc = "parse" /\ Len(rbuf) >= Hdr
  /\ Body[Next_req] <= MaxMsg /\ Len(rbuf) >= FrameLen
  /\ Next_req \in WellFormed
  /\ executed' = Append(executed, Next_req)
  /\ wbuf' = Reply(Next_req)
  /\ rbuf' = From(rbuf, Body[Next_req] + 1)
  /\ state' = "RES" /\ pc' = "flush" /\ caller' = "try_one_request"
  /\ UNCHANGED <<client, inq, outq, wbuf_sent>>

\* try_one_request: the request is run, its reply is put in wbuf, its bytes
\* leave rbuf, and state_res is called.
ParseRequest ==
  /\ pc = "parse" /\ Len(rbuf) >= Hdr
  /\ Body[Next_req] <= MaxMsg /\ Len(rbuf) >= FrameLen
  /\ Next_req \in WellFormed
  /\ executed' = Append(executed, Next_req)
  /\ wbuf' = Reply(Next_req)
  /\ rbuf' = From(rbuf, FrameLen + 1)
  /\ state' = "RES" /\ pc' = "flush" /\ caller' = "try_one_request"
  /\ UNCHANGED <<client, inq, outq, wbuf_sent>>

\* Mutant: the next request is taken although the reply is not flushed.
Mut_SendAgain ==
  /\ pc = "flush" /\ peer # "reset" /\ Len(outq) = OutCap
  /\ pc' = IF caller = "try_one_request" THEN "parse" ELSE "poll"
  /\ UNCHANGED <<client, inq, outq, rbuf, wbuf, wbuf_sent, state, caller, executed>>

\* Mutant: wbuf_sent is not reset with wbuf_size.
Mut_SendData(k) ==
  /\ pc = "flush" /\ peer # "reset"
  /\ k \in 1 .. Len(wbuf) - wbuf_sent /\ Len(outq) + k <= OutCap
  /\ outq' = outq \o SubSeq(wbuf, wbuf_sent + 1, wbuf_sent + k)
  /\ wbuf_sent' = wbuf_sent + k
  /\ \/ /\ wbuf_sent + k = Len(wbuf)
        /\ wbuf' = <<>> /\ state' = "REQ" /\ Leave
     \/ wbuf_sent + k # Len(wbuf) /\ UNCHANGED <<wbuf, state, pc>>
  /\ UNCHANGED <<client, inq, rbuf, caller, executed>>

\* try_flush_buffer: send() takes some bytes; after the last one the
\* connection reads again.
SendData(k) ==
  /\ pc = "flush" /\ peer # "reset"
  /\ k \in 1 .. Len(wbuf) - wbuf_sent /\ Len(outq) + k <= OutCap
  /\ outq' = outq \o SubSeq(wbuf, wbuf_sent + 1, wbuf_sent + k)
  /\ \/ /\ wbuf_sent + k = Len(wbuf)
        /\ wbuf' = <<>> /\ wbuf_sent' = 0 /\ state' = "REQ"
        /\ Leave
     \/ /\ wbuf_sent + k # Len(wbuf)
        /\ wbuf_sent' = wbuf_sent + k
        /\ UNCHANGED <<wbuf, state, pc>>
  /\ UNCHANGED <<client, inq, rbuf, caller, executed>>

\* try_flush_buffer: EAGAIN.
SendAgain ==
  /\ pc = "flush" /\ peer # "reset" /\ Len(outq) = OutCap
  /\ pc' = "poll"
  /\ UNCHANGED <<client, inq, outq, rbuf, wbuf, wbuf_sent, state, caller, executed>>

\* try_flush_buffer: send() fails; SIGPIPE, if the kernel raises it, is not
\* ignored.
SendFail ==
  /\ pc = "flush" /\ peer # "open"
  /\ End \/ Die

Server ==
  \/ Polled /\ Wake
  \/ \E k \in 1 .. BufSize : RecvData(k)
  \/ RecvAgain \/ RecvEnd
  \/ ParseNothing \/ ParseReject \/ ParsePartial \/ ParseRequest
  \/ \E k \in 1 .. BufSize : SendData(k)
  \/ SendAgain \/ SendFail

Next ==
  \/ ClientSend \/ ClientRead \/ ClientLeave
  \/ Wake                     \* poll() may be wrong
  \/ Server

SafeSpec == Init /\ [][Next]_vars

\* The loop calls a connection poll() has cause to report, and the client
\* reads what has arrived.
Spec == SafeSpec /\ WF_vars(Server) /\ WF_vars(ClientRead)
-----------------------------------------------------------------------------
\* The type of each variable.
TypeOK ==
  /\ to_send \in (1 .. N + 1) \X Nat /\ inq \in Seq(Request \X Nat)
  /\ rbuf \in Seq(Request \X Nat) /\ wbuf \in Seq(Request \X Nat)
  /\ outq \in Seq(Request \X Nat) /\ got \in Seq(Request \X Nat)
  /\ executed \in Seq(Request)
  /\ peer \in {"open", "closed", "reset"}
  /\ state \in {"REQ", "RES", "END"}
  /\ pc \in {"poll", "fill", "parse", "flush", "closed", "dead"}
  /\ caller \in {"connection_io", "try_one_request"}
  /\ wbuf_sent \in 0 .. Len(wbuf)

\* However the stream is cut up on its way, each request is run once and in
\* the order sent, and rbuf always begins with the next one
\* (server.cpp:676-683).
RequestsInOrder ==
  /\ executed = [i \in 1 .. Len(executed) |-> i]
  /\ rbuf # <<>> => rbuf[1] = <<Len(executed) + 1, 1>>

\* The client's stream is, byte for byte, the replies of the requests run:
\* none lost, repeated, interleaved or overwritten before it was flushed,
\* however often send() took a part of one (server.cpp:251-260).
RepliesInOrder ==
  got \o outq \o From(wbuf, wbuf_sent + 1)
    = FlattenSeq([i \in 1 .. Len(executed) |-> Reply(executed[i])])

\* try_fill_buffer's assertion: rbuf is never full when it is to be filled,
\* although requests may be left in it (server.cpp:694).
RbufHasRoom == pc = "fill" => Len(rbuf) < BufSize

\* Neither buffer is overrun, whatever the size of a reply
\* (server.cpp:665-675).
BuffersFit == Len(rbuf) <= BufSize /\ Len(wbuf) <= BufSize

\* What the loop polls for is what the connection waits for: POLLIN when
\* nothing is left to flush, POLLOUT when something is (server.cpp:938).
PolledForTheRightEvent ==
  pc = "poll" => /\ state = "REQ" => wbuf = <<>> /\ wbuf_sent = 0
                 /\ state = "RES" => wbuf_sent < Len(wbuf)
                 /\ state # "END"

\* A reply is flushed in the end if the client reads, however full the
\* kernel's queue was, unless an end of the connection goes away.
ReplyFlushed ==
  state = "RES" ~> (state # "RES" \/ pc = "dead" \/ peer # "open")
-----------------------------------------------------------------------------
\* server.cpp:639 and README.md:142: a request that has not arrived in full
\* stays in the read buffer.  The server ends, or dies on, a connection
\* whose client only sent well-formed requests and is still there.
PartialRequestWaits ==
  peer = "open" /\ WellFormed = Request => state # "END" /\ pc # "dead"

\* server.cpp:635 and README.md:142: requests are taken from the read buffer
\* until there is not enough data in it.  One that was pipelined behind a
\* reply that could not be flushed at once is left there.
NoRequestLeftInRbuf ==
  pc = "poll" /\ state = "REQ" => Len(rbuf) < Hdr \/ Len(rbuf) < FrameLen
=============================================================================
