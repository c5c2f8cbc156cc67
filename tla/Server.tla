------------------------------- MODULE Server --------------------------------
(***************************************************************************)
(* The server as a whole: clients that come and go, the loop of main over  *)
(* their connections, the memory of the connections, and the commands on   *)
(* the data of Keyspace.tla.                                               *)
(*                                                                         *)
(* Control.  A call of connection_io is one step: the server has one       *)
(* thread, and what clients do meanwhile shows in what its recv and send   *)
(* return.  How recv cuts a request is the subject of Connection.tla: here *)
(* it arrives whole.  Which connections are idle too long is the subject   *)
(* of EventLoop.tla: here any may be.  How the cells of a message come     *)
(* about is the subject of Exchange.tla: here clients send commands.       *)
(*                                                                         *)
(* What malloc returns may have been another connection, with any of its   *)
(* contents.  An identity in Client stands for one process after another.  *)
(***************************************************************************)
EXTENDS Keyspace, FiniteSetsExt

CONSTANTS
  Client,
  Request,        \* the commands that clients send
  Conn,           \* Conn objects that malloc may return
  NFds,           \* descriptors are 1 .. NFds
  MaxBacklog,     \* BACKLOG: clients that may wait for accept
  SockCap         \* cells that a socket takes before its client reads

ASSUME ServerAssumption ==
  /\ IsFiniteSet(Client) /\ NULL \notin Client /\ NULL \notin Conn
  /\ Request \subseteq Seq(Seq(Nat)) /\ NULL \notin Request
  /\ NFds \in Nat /\ MaxBacklog \in Nat \ {0} /\ SockCap \in Nat \ {0}

Fd == 1 .. NFds

VARIABLES
  prog,           \* a client is "out", "connected", "waiting" or "answered"
  req,            \* the request in its socket, or NULL
  rep,            \* the cells in its socket that it has not read
  got,            \* the cells it has read
  backlog,        \* clients that wait for accept
  sock,           \* the client at the other end of a descriptor, or NULL
  fd2conn,        \* g_data.fd2conn
  conn,           \* the Conn objects that are allocated, and their contents
  pc,             \* where main is: "poll", "io", "timers", "accept", "dead"
  ready,          \* the descriptors whose revents are still to be handled
  arrived         \* whether the listening descriptor has revents

clients == <<prog, req, rep, got>>
table == <<sock, fd2conn, conn>>
loop == <<pc, ready, arrived>>
vars == <<db, zsets, out, clients, backlog, table, loop>>

\* What the memory of a new Conn may hold.
Memory == [fd : Fd, state : {"REQ", "RES", "END"}, wbuf : {<<>>}, wbuf_sent : 0 .. SockCap]

Init ==
  /\ DataInit
  /\ prog = [c \in Client |-> "out"] /\ req = [c \in Client |-> NULL]
  /\ rep = [c \in Client |-> <<>>] /\ got = [c \in Client |-> <<>>]
  /\ backlog = <<>>
  /\ sock = [fd \in Fd |-> NULL] /\ fd2conn = [fd \in Fd |-> NULL]
  /\ conn = [o \in {} |-> NULL]
  /\ pc = "poll" /\ ready = {} /\ arrived = FALSE

\* Nothing happens to the data; out is local to try_one_request.
Quiet == out' = <<>> /\ UNCHANGED data

\* The server's end of the connection to a client exists.
Held(c) == (\E i \in DOMAIN backlog : backlog[i] = c) \/ \E fd \in Fd : sock[fd] = c
-----------------------------------------------------------------------------
\* client.cpp: socket and connect.
Connect(c) ==
  /\ prog[c] = "out" /\ ~ Held(c) /\ pc # "dead" /\ Len(backlog) < MaxBacklog
  /\ prog' = [prog EXCEPT ![c] = "connected"]
  /\ backlog' = Append(backlog, c)
  /\ UNCHANGED <<req, rep, got, table, loop>> /\ Quiet

\* send_req.
ClientSend(c) ==
  /\ prog[c] = "connected" /\ Held(c)
  /\ prog' = [prog EXCEPT ![c] = "waiting"]
  /\ \E x \in Request : req' = [req EXCEPT ![c] = x]
  /\ UNCHANGED <<rep, got, backlog, table, loop>> /\ Quiet

\* read_res reads what there is, until it has as much as the length says.
ClientRead(c) ==
  /\ prog[c] = "waiting" /\ rep[c] # <<>>
  /\ got' = [got EXCEPT ![c] = @ \o rep[c]]
  /\ rep' = [rep EXCEPT ![c] = <<>>]
  /\ prog' = [prog EXCEPT ![c] = IF Len(got'[c]) > got'[c][1] THEN "answered" ELSE @]
  /\ UNCHANGED <<req, backlog, table, loop>> /\ Quiet

\* The process of a client ends, and its end of the connection with it.
Gone(c) ==
  /\ prog' = [prog EXCEPT ![c] = "out"]
  /\ rep' = [rep EXCEPT ![c] = <<>>] /\ got' = [got EXCEPT ![c] = <<>>]
  /\ UNCHANGED <<req, backlog, table, loop>> /\ Quiet

\* The reply is printed, or read or write has failed.
ClientExit(c) ==
  /\ \/ prog[c] = "answered"
     \/ prog[c] \in {"connected", "waiting"} /\ ~ Held(c) /\ rep[c] = <<>>
  /\ Gone(c)

\* Someone ends the client.
ClientLeave(c) == prog[c] \in {"connected", "waiting"} /\ Gone(c)
-----------------------------------------------------------------------------
\* Mutant: every connection is polled for POLLIN.
Mut_Revents(o) ==
  LET c == sock[conn[o].fd]
  IN prog[c] = "out" \/ req[c] # NULL

\* What poll is asked for a connection, and finds.
Revents(o) ==
  LET c == sock[conn[o].fd]
  IN \/ prog[c] = "out"
     \/ conn[o].state = "REQ" /\ req[c] # NULL
     \/ conn[o].state # "REQ" /\ Len(rep[c]) < SockCap

\* poll returns with all that is ready, or after its timeout.
Poll ==
  /\ pc = "poll"
  /\ ready' = {conn[o].fd : o \in {u \in DOMAIN conn : Revents(u)}}
  /\ pc' = IF ready' = {} THEN "timers" ELSE "io"
  /\ arrived' = (backlog # <<>>)
  /\ UNCHANGED <<clients, backlog, table>> /\ Quiet

\* Mutant: the descriptor is closed and its slot in the table is kept.
Mut_conn_done(o) ==
  LET fd == conn[o].fd
  IN /\ UNCHANGED fd2conn
     /\ conn' = Without(conn, o)
     /\ sock' = [sock EXCEPT ![fd] = NULL]
     /\ req' = [req EXCEPT ![sock[fd]] = NULL]

\* conn_done: what the client has sent and nobody has read is lost.
conn_done(o) ==
  LET fd == conn[o].fd
  IN /\ fd2conn' = [fd2conn EXCEPT ![fd] = NULL]
     /\ conn' = Without(conn, o)
     /\ sock' = [sock EXCEPT ![fd] = NULL]
     /\ req' = [req EXCEPT ![sock[fd]] = NULL]

\* The process ends; its descriptors are closed.
die ==
  /\ pc' = "dead" /\ ready' = {} /\ arrived' = FALSE
  /\ sock' = [fd \in Fd |-> NULL] /\ fd2conn' = [fd \in Fd |-> NULL]
  /\ conn' = [o \in {} |-> NULL]
  /\ req' = [c \in Client |-> NULL] /\ backlog' = <<>>

\* poll fails: the kernel has no memory for its table, or a signal is taken.
PollFail ==
  /\ pc = "poll"
  /\ die
  /\ UNCHANGED <<prog, rep, got>> /\ Quiet

\* One descriptor is handled; after the last, timers are.
Handled(fd) ==
  /\ ready' = ready \ {fd}
  /\ pc' = IF ready' = {} THEN "timers" ELSE "io"
  /\ UNCHANGED <<arrived, backlog>>

\* state_res with w in wbuf: try_flush_buffer until all is sent or EAGAIN.
\* To a client that is out, send may succeed, fail, or raise SIGPIPE.
state_res(o, w) ==
  LET c == sock[conn[o].fd]
      sent == conn[o].wbuf_sent
      room == IF prog[c] = "out" THEN Len(w) ELSE SockCap - Len(rep[c])
      n == Min({room, Len(w) - sent})
      Sent(rest) ==
        [conn[o] EXCEPT !.state = IF rest THEN "RES" ELSE "REQ",
                        !.wbuf = IF rest THEN w ELSE <<>>,
                        !.wbuf_sent = IF rest THEN sent + n ELSE 0]
  IN \/ /\ conn' = [conn EXCEPT ![o] = Sent(sent + n # Len(w))]
        /\ rep' = IF prog[c] = "out" THEN rep
                  ELSE [rep EXCEPT ![c] = @ \o SubSeq(w, sent + 1, sent + n)]
        /\ req' = [req EXCEPT ![c] = NULL]
        /\ Handled(conn[o].fd) /\ UNCHANGED <<prog, got, sock, fd2conn>>
     \/ /\ prog[c] = "out"
        /\ (conn_done(o) /\ Handled(conn[o].fd)) \/ die
        /\ UNCHANGED <<prog, rep, got>>

\* connection_io: a request is taken, run, and its reply flushed.
HandleRequest(o) ==
  /\ conn[o].state = "REQ" /\ req[sock[conn[o].fd]] # NULL
  /\ do_request(req[sock[conn[o].fd]])
  /\ state_res(o, Framed(Fitted(out')))

\* connection_io: the rest of a reply is flushed.
HandleReply(o) ==
  /\ conn[o].state = "RES"
  /\ state_res(o, conn[o].wbuf)
  /\ Quiet

\* Mutant: main does not look for STATE_END.
Mut_HandleEnd(o) ==
  /\ conn[o].state = "REQ" /\ req[sock[conn[o].fd]] = NULL /\ prog[sock[conn[o].fd]] = "out"
  /\ conn' = [conn EXCEPT ![o].state = "END"]
  /\ Handled(conn[o].fd) /\ UNCHANGED <<clients, sock, fd2conn>> /\ Quiet

\* connection_io: recv finds the client gone.
HandleEnd(o) ==
  /\ conn[o].state = "REQ" /\ req[sock[conn[o].fd]] = NULL /\ prog[sock[conn[o].fd]] = "out"
  /\ conn_done(o) /\ Handled(conn[o].fd)
  /\ UNCHANGED <<prog, rep, got>> /\ Quiet

\* The loop over poll_args, in the order of descriptors.
Handle ==
  /\ pc = "io"
  /\ \E fd \in ready :
       /\ \A g \in ready : fd <= g
       /\ LET o == fd2conn[fd] IN HandleRequest(o) \/ HandleReply(o) \/ HandleEnd(o)

\* process_timers: connections are closed, whatever is in their buffers.
CloseIdle ==
  /\ pc = "timers"
  /\ \E o \in DOMAIN conn : conn_done(o)
  /\ UNCHANGED <<prog, rep, got, backlog, loop>> /\ Quiet

TimersDone ==
  /\ pc = "timers"
  /\ pc' = IF arrived THEN "accept" ELSE "poll"
  /\ UNCHANGED <<clients, backlog, table, ready, arrived>> /\ Quiet

\* The descriptor that accept returns.
LowestFree(fd) == sock[fd] = NULL /\ \A g \in Fd : sock[g] = NULL => fd <= g

\* accept takes the client that has waited longest.
Accepted ==
  /\ pc = "accept" /\ pc' = "poll" /\ arrived' = FALSE
  /\ backlog' = Tail(backlog)
  /\ UNCHANGED <<prog, rep, got, ready>> /\ Quiet

\* Mutant: memory is taken to be zero.
Mut_Accept ==
  /\ Accepted /\ UNCHANGED req
  /\ \E fd \in Fd, o \in Conn \ DOMAIN conn, m \in Memory :
       /\ LowestFree(fd)
       /\ sock' = [sock EXCEPT ![fd] = Head(backlog)]
       /\ conn' = With(conn, o, [m EXCEPT !.fd = fd, !.state = "REQ"])
       /\ fd2conn' = [fd2conn EXCEPT ![fd] = o]

\* accept_new_conn: the lowest descriptor that is free, any Conn that is.
Accept ==
  /\ Accepted /\ UNCHANGED req
  /\ \E fd \in Fd, o \in Conn \ DOMAIN conn, m \in Memory :
       /\ LowestFree(fd)
       /\ sock' = [sock EXCEPT ![fd] = Head(backlog)]
       /\ conn' = With(conn, o, [m EXCEPT !.fd = fd, !.state = "REQ",
                                          !.wbuf = <<>>, !.wbuf_sent = 0])
       /\ fd2conn' = [fd2conn EXCEPT ![fd] = o]

\* malloc returns NULL: the new descriptor is closed.
AcceptNoMemory ==
  /\ \E f \in Fd : sock[f] = NULL
  /\ Accepted
  /\ req' = [req EXCEPT ![Head(backlog)] = NULL]
  /\ UNCHANGED table

\* accept fails: no descriptor is free, here or in the system, or no memory,
\* or the client has left.
AcceptFail ==
  /\ pc = "accept"
  /\ die
  /\ UNCHANGED <<prog, rep, got>> /\ Quiet

Loop ==
  \/ Poll \/ PollFail \/ Handle \/ CloseIdle \/ TimersDone
  \/ Accept \/ AcceptNoMemory \/ AcceptFail

ClientStep(c) == ClientSend(c) \/ ClientRead(c) \/ ClientExit(c)

Next ==
  \/ Loop
  \/ \E c \in Client : Connect(c) \/ ClientStep(c) \/ ClientLeave(c)

\* Whether the connection to be handled next has a command that may never
\* return.
MayHang ==
  /\ pc = "io"
  /\ LET o == fd2conn[Min(ready)]
         x == req[sock[conn[o].fd]]
     IN conn[o].state = "REQ" /\ x # NULL /\ MayLoop(x)

\* main's loop goes on, unless a command does not return, and so does a
\* client that has connected; nobody has to start one, or to end it.
Spec ==
  Init /\ [][Next]_vars /\ WF_vars(~ MayHang /\ Loop) /\ \A c \in Client : WF_vars(ClientStep(c))
-----------------------------------------------------------------------------
\* The type of each variable.
TypeOK ==
  /\ DataOK /\ out \in Seq(Int)
  /\ prog \in [Client -> {"out", "connected", "waiting", "answered"}]
  /\ req \in [Client -> Request \cup {NULL}]
  /\ rep \in [Client -> Seq(Int)] /\ got \in [Client -> Seq(Int)]
  /\ backlog \in Seq(Client)
  /\ sock \in [Fd -> Client \cup {NULL}] /\ fd2conn \in [Fd -> Conn \cup {NULL}]
  /\ DOMAIN conn \subseteq Conn
  /\ conn \in [DOMAIN conn -> [fd : Fd, state : {"REQ", "RES"},
                               wbuf : Seq(Int), wbuf_sent : Nat]]
  /\ pc \in {"poll", "io", "timers", "accept", "dead"}
  /\ ready \in SUBSET Fd /\ arrived \in BOOLEAN

\* Descriptors, connections and clients belong together one to one, however
\* descriptors and memory are used again: a connection is in the table under
\* its descriptor exactly while that is open, it is in the table once, and
\* a client is at the other end of one; no connection outlives its place in
\* the table (server.cpp:766-811).
ConnsExact ==
  /\ \A fd \in Fd :
       /\ fd2conn[fd] = NULL <=> sock[fd] = NULL
       /\ fd2conn[fd] # NULL =>
            fd2conn[fd] \in DOMAIN conn /\ conn[fd2conn[fd]].fd = fd
       /\ \A e \in Fd \ {fd} :
            fd2conn[fd] # NULL => fd2conn[e] # fd2conn[fd] /\ sock[e] # sock[fd]
       /\ \A i \in DOMAIN backlog : sock[fd] # backlog[i]
  /\ \A o \in DOMAIN conn : fd2conn[conn[o].fd] = o
  /\ ready \subseteq {fd \in Fd : fd2conn[fd] # NULL}

\* What has yet to be sent to a client.
Unsent(c) ==
  LET os == {o \in DOMAIN conn : sock[conn[o].fd] = c}
  IN IF os = {} THEN <<>>
     ELSE LET o == CHOOSE o \in os : TRUE
          IN SubSeq(conn[o].wbuf, conn[o].wbuf_sent + 1, Len(conn[o].wbuf))

\* The reply to a client, wherever its cells are; none if some are lost.
Answer(c) ==
  LET msg == got[c] \o rep[c] \o Unsent(c)
  IN IF prog[c] # "out" /\ msg # <<>> /\ Len(msg) = msg[1] + 1 THEN Tail(msg) ELSE <<>>

Abs == INSTANCE Service WITH
         Caller <- Client,
         phase  <- [c \in Client |->
                      IF req[c] # NULL THEN IF prog[c] = "out" THEN "orphan" ELSE "called"
                      ELSE IF Answer(c) = <<>> THEN "idle"
                      ELSE IF prog[c] = "answered" THEN "answered" ELSE "effected"],
         cmd    <- req,
         answer <- [c \in Client |-> Answer(c)]

\* Whichever clients come, go and stay away, whatever the sockets take, and
\* whichever connections time out, are closed or have their descriptor and
\* memory used again: a request is run at most once, in one step, and the
\* client that sent it gets its reply whole or not at all, never a cell of
\* another's.
ImplementsService == Abs!Spec

\* Where no command may loop, a client that has sent its request does not
\* wait for ever: it gets the reply or finds its connection closed
\* (client.cpp:185-207, server.cpp:918).
EveryCallEnds ==
  \A c \in Client : prog[c] = "waiting" ~> prog[c] # "waiting"
=============================================================================
