---------------------------- MODULE ServerProofs -----------------------------
(***************************************************************************)
(* Proofs about Server, for any number of clients, descriptors and Conn    *)
(* objects, and any commands: the table of connections stays exact, each   *)
(* ZSet belongs to one key, and the server implements Service.             *)
(***************************************************************************)
EXTENDS Server, KeyspaceProofs

\* The variables that the table depends on, typed.
TableOK ==
  /\ sock \in [Fd -> Client \cup {NULL}] /\ fd2conn \in [Fd -> Conn \cup {NULL}]
  /\ DOMAIN conn \subseteq Conn
  /\ conn = [o \in DOMAIN conn |-> conn[o]]
  /\ \A o \in DOMAIN conn : "fd" \in DOMAIN conn[o] /\ conn[o].fd \in Fd

\* A client waits for accept once, and is not accepted while it waits.
QueueOK ==
  /\ backlog \in Seq(Client)
  /\ \A i, j \in 1 .. Len(backlog) : backlog[i] = backlog[j] => i = j

\* Outside the loop over poll_args nothing is left to handle, and accept is
\* called only if someone waits.
LoopOK ==
  /\ ready \subseteq Fd
  /\ pc # "io" => ready = {}
  /\ pc = "accept" => arrived
  /\ arrived => backlog # <<>>

ReqOK == req \in [Client -> Request \cup {NULL}]

\* The inductive invariant.
SInv == DataInv /\ ReqOK /\ TableOK /\ QueueOK /\ LoopOK /\ ConnsExact

\* What a request in a socket is.
LEMMA RequestIsCommand ==
  ASSUME ReqOK, NEW c, req[c] # NULL, c \in Client
  PROVE  req[c] \in Command
  BY ServerAssumption DEF ReqOK, Command

LEMMA QuietData ==
  ASSUME DataInv, Quiet
  PROVE  DataInv'
  BY SameData DEF Quiet

\* A connection in the table is open, at a descriptor of its own.
LEMMA InTable ==
  ASSUME TableOK, ConnsExact, NEW fd \in Fd, fd2conn[fd] # NULL
  PROVE  /\ fd2conn[fd] \in DOMAIN conn /\ conn[fd2conn[fd]].fd = fd
         /\ sock[fd] \in Client
  BY DEF TableOK, ConnsExact

LEMMA OfConn ==
  ASSUME TableOK, ConnsExact, NEW o \in DOMAIN conn
  PROVE  /\ conn[o].fd \in Fd /\ fd2conn[conn[o].fd] = o /\ o # NULL
         /\ sock[conn[o].fd] \in Client
<1>1. conn[o].fd \in Fd /\ fd2conn[conn[o].fd] = o /\ o # NULL
  BY ServerAssumption DEF TableOK, ConnsExact
<1> QED
  BY <1>1, InTable

LEMMA InitSInv == Init => SInv
<1> SUFFICES ASSUME Init PROVE SInv
  OBVIOUS
<1>1. DataInv /\ ReqOK
  BY InitData DEF Init, ReqOK
<1>2. DOMAIN conn = {} /\ conn = [o \in DOMAIN conn |-> conn[o]]
  BY DEF Init
<1>3. TableOK /\ ConnsExact
  BY <1>2 DEF Init, TableOK, ConnsExact
<1>4. QueueOK /\ LoopOK
  BY DEF Init, QueueOK, LoopOK
<1> QED
  BY <1>1, <1>3, <1>4 DEF SInv

\* A connection is closed, and its descriptor is not handled any more.
LEMMA DoneTable ==
  ASSUME SInv, NEW o \in DOMAIN conn, conn_done(o), UNCHANGED backlog,
         ready' = ready \ {conn[o].fd}
  PROVE  TableOK' /\ ConnsExact' /\ ReqOK'
<1> DEFINE fd == conn[o].fd
<1>1. fd \in Fd /\ fd2conn[fd] = o /\ o # NULL /\ sock[fd] \in Client
  BY OfConn DEF SInv
<1>2. /\ fd2conn' = [fd2conn EXCEPT ![fd] = NULL]
      /\ sock' = [sock EXCEPT ![fd] = NULL]
      /\ req' = [req EXCEPT ![sock[fd]] = NULL]
      /\ conn' = [u \in DOMAIN conn \ {o} |-> conn[u]]
  BY DEF conn_done, Without
<1> HIDE DEF fd
<1>3. ReqOK'
  BY <1>1, <1>2 DEF SInv, ReqOK
<1>4. DOMAIN conn' = DOMAIN conn \ {o} /\ \A u \in DOMAIN conn' : conn'[u] = conn[u]
  BY <1>2
<1>5. \A g \in Fd : /\ fd2conn'[g] = IF g = fd THEN NULL ELSE fd2conn[g]
                    /\ sock'[g] = IF g = fd THEN NULL ELSE sock[g]
  BY <1>2 DEF SInv, TableOK
<1>6. TableOK'
  BY <1>1, <1>2, <1>4 DEF SInv, TableOK
<1>7. \A u \in DOMAIN conn' : conn'[u].fd # fd /\ fd2conn'[conn'[u].fd] = u
  BY <1>1, <1>4, <1>5 DEF SInv, TableOK, ConnsExact
<1>8. ready' \subseteq {g \in Fd : fd2conn'[g] # NULL}
  BY <1>5 DEF SInv, ConnsExact, fd
<1>9. ASSUME NEW g \in Fd
      PROVE  /\ fd2conn'[g] = NULL <=> sock'[g] = NULL
             /\ fd2conn'[g] # NULL => fd2conn'[g] \in DOMAIN conn' /\ conn'[fd2conn'[g]].fd = g
             /\ \A e \in Fd \ {g} :
                  fd2conn'[g] # NULL => fd2conn'[e] # fd2conn'[g] /\ sock'[e] # sock'[g]
             /\ \A i \in DOMAIN backlog : sock'[g] # backlog[i]
  <2>1. CASE g = fd
    <3>1. \A i \in DOMAIN backlog : backlog[i] # NULL
      BY ServerAssumption DEF SInv, QueueOK
    <3> QED
      BY <2>1, <3>1, <1>5
  <2>2. CASE g # fd
    <3>1. fd2conn'[g] = fd2conn[g] /\ sock'[g] = sock[g]
      BY <2>2, <1>5
    <3>2. fd2conn[g] # NULL => fd2conn[g] # o /\ fd2conn[g] \in DOMAIN conn'
      BY <2>2, <1>1, <1>4 DEF SInv, ConnsExact
    <3> QED
      BY <3>1, <3>2, <1>4, <1>5 DEF SInv, ConnsExact
  <2> QED
    BY <2>1, <2>2
<1> QED
  BY <1>3, <1>6, <1>7, <1>8, <1>9 DEF ConnsExact

\* A connection gets another content, at the same descriptor.
LEMMA SameTable ==
  ASSUME SInv, NEW o \in DOMAIN conn, NEW r, "fd" \in DOMAIN r, r.fd = conn[o].fd,
         conn' = [conn EXCEPT ![o] = r], UNCHANGED <<sock, fd2conn, backlog>>,
         ready' \subseteq ready
  PROVE  TableOK' /\ ConnsExact'
<1>1. DOMAIN conn' = DOMAIN conn /\ conn' = [u \in DOMAIN conn' |-> conn'[u]]
  OBVIOUS
<1>2. \A u \in DOMAIN conn : conn'[u] = IF u = o THEN r ELSE conn[u]
  OBVIOUS
<1>3. \A u \in DOMAIN conn : conn'[u].fd = conn[u].fd /\ "fd" \in DOMAIN conn'[u]
  BY <1>2 DEF SInv, TableOK
<1>4. TableOK'
  BY <1>1, <1>3 DEF SInv, TableOK
<1> QED
  BY <1>1, <1>3, <1>4 DEF SInv, ConnsExact

\* The process ends.
LEMMA DieSInv ==
  ASSUME SInv, die
  PROVE  ReqOK' /\ TableOK' /\ QueueOK' /\ LoopOK' /\ ConnsExact'
<1>1. /\ sock' = [fd \in Fd |-> NULL] /\ fd2conn' = [fd \in Fd |-> NULL]
      /\ DOMAIN conn' = {} /\ conn' = [o \in DOMAIN conn' |-> conn'[o]]
      /\ req' = [c \in Client |-> NULL] /\ backlog' = <<>>
      /\ ready' = {} /\ arrived' = FALSE /\ pc' = "dead"
  BY DEF die
<1>2. ReqOK' /\ TableOK'
  BY <1>1 DEF ReqOK, TableOK
<1>3. QueueOK' /\ LoopOK'
  BY <1>1 DEF QueueOK, LoopOK
<1>4. ConnsExact'
  BY <1>1 DEF ConnsExact
<1> QED
  BY <1>2, <1>3, <1>4
-----------------------------------------------------------------------------
\* state_res sends, closes the connection, or ends the process.
LEMMA StateRes ==
  ASSUME SInv, pc = "io", NEW o \in DOMAIN conn, NEW w, state_res(o, w)
  PROVE  ReqOK' /\ TableOK' /\ QueueOK' /\ LoopOK' /\ ConnsExact'
<1> DEFINE fd == conn[o].fd
<1>1. "fd" \in DOMAIN conn[o]
  BY DEF SInv, TableOK
<1>2. ASSUME Handled(fd)
      PROVE  QueueOK' /\ LoopOK' /\ ready' \subseteq ready /\ ready' = ready \ {fd}
             /\ UNCHANGED backlog
  BY <1>2 DEF Handled, SInv, QueueOK, LoopOK
<1>3. ASSUME NEW r, "fd" \in DOMAIN r, r.fd = fd, conn' = [conn EXCEPT ![o] = r],
             req' = [req EXCEPT ![sock[fd]] = NULL],
             Handled(fd), UNCHANGED <<sock, fd2conn>>
      PROVE  ReqOK' /\ TableOK' /\ QueueOK' /\ LoopOK' /\ ConnsExact'
  <2>1. QueueOK' /\ LoopOK' /\ TableOK' /\ ConnsExact'
    BY <1>2, <1>3, SameTable
  <2>2. ReqOK'
    BY <1>3 DEF SInv, ReqOK
  <2> QED
    BY <2>1, <2>2
<1>4. CASE conn_done(o) /\ Handled(fd)
  BY <1>2, <1>4, DoneTable
<1>5. CASE die
  BY <1>5, DieSInv
<1> DEFINE sent == conn[o].wbuf_sent
           c == sock[fd]
           room == IF prog[c] = "out" THEN Len(w) ELSE SockCap - Len(rep[c])
           n == Min({room, Len(w) - sent})
           rest == sent + n # Len(w)
           r == [conn[o] EXCEPT !.state = IF rest THEN "RES" ELSE "REQ",
                                !.wbuf = IF rest THEN w ELSE <<>>,
                                !.wbuf_sent = IF rest THEN sent + n ELSE 0]
<1>6. "fd" \in DOMAIN r /\ r.fd = fd
  BY <1>1
<1>7. CASE /\ conn' = [conn EXCEPT ![o] = r] /\ req' = [req EXCEPT ![c] = NULL]
           /\ Handled(fd) /\ UNCHANGED <<sock, fd2conn>>
  <2> HIDE DEF r
  <2> QED
    BY <1>3, <1>6, <1>7
<1> QED
  BY <1>4, <1>5, <1>7 DEF state_res

LEMMA HandleSInv == SInv /\ Handle => SInv'
<1> SUFFICES ASSUME SInv, Handle PROVE SInv'
  OBVIOUS
<1>1. PICK fd \in ready : LET o == fd2conn[fd]
                          IN HandleRequest(o) \/ HandleReply(o) \/ HandleEnd(o)
  BY DEF Handle
<1> DEFINE o == fd2conn[fd]
           c == sock[conn[o].fd]
<1>2. pc = "io" /\ fd \in Fd /\ fd2conn[fd] # NULL
  BY DEF Handle, SInv, LoopOK, ConnsExact
<1>3. o \in DOMAIN conn /\ conn[o].fd = fd /\ c \in Client
  BY <1>2, InTable DEF SInv
<1> HIDE DEF o, c
<1>4. CASE HandleRequest(o)
  <2>1. req[c] \in Command /\ do_request(req[c]) /\ state_res(o, Framed(Fitted(out')))
    BY <1>3, <1>4, RequestIsCommand DEF HandleRequest, SInv, c
  <2>2. DataInv'
    BY <2>1, RequestData DEF SInv
  <2> QED
    BY <1>2, <1>3, <2>1, <2>2, StateRes DEF SInv
<1>5. CASE HandleReply(o)
  BY <1>2, <1>3, <1>5, StateRes, QuietData DEF HandleReply, SInv
<1>6. CASE HandleEnd(o)
  <2>1. conn_done(o) /\ Handled(conn[o].fd) /\ Quiet
    BY <1>6 DEF HandleEnd
  <2>2. UNCHANGED backlog /\ ready' = ready \ {conn[o].fd} /\ QueueOK' /\ LoopOK'
    BY <1>2, <2>1 DEF Handled, SInv, QueueOK, LoopOK
  <2> QED
    BY <1>3, <2>1, <2>2, DoneTable, QuietData DEF SInv
<1> QED
  BY <1>1, <1>4, <1>5, <1>6 DEF o

LEMMA CloseIdleSInv == SInv /\ CloseIdle => SInv'
<1> SUFFICES ASSUME SInv, CloseIdle PROVE SInv'
  OBVIOUS
<1>1. PICK o \in DOMAIN conn : conn_done(o)
  BY DEF CloseIdle
<1>2. ready = {} /\ UNCHANGED <<backlog, pc, ready, arrived>> /\ Quiet
  BY DEF CloseIdle, loop, SInv, LoopOK
<1>3. TableOK' /\ ConnsExact' /\ ReqOK'
  BY <1>1, <1>2, DoneTable
<1> QED
  BY <1>2, <1>3, QuietData DEF SInv, QueueOK, LoopOK

\* A step that leaves the table alone, and what is left to handle.
LEMMA TableKept ==
  ASSUME SInv, UNCHANGED <<sock, fd2conn, conn, ready, backlog>>
  PROVE  TableOK' /\ QueueOK' /\ ConnsExact'
  BY DEF SInv, TableOK, QueueOK, ConnsExact

LEMMA PollSInv == SInv /\ Poll => SInv'
<1> SUFFICES ASSUME SInv, Poll PROVE SInv'
  OBVIOUS
<1>1. /\ pc = "poll" /\ UNCHANGED <<req, backlog, sock, fd2conn, conn>> /\ Quiet
      /\ pc' = IF ready' = {} THEN "timers" ELSE "io"
      /\ arrived' = (backlog # <<>>)
  BY DEF Poll, clients, table
<1>2. ready' = {conn[o].fd : o \in {u \in DOMAIN conn : Revents(u)}}
  BY DEF Poll
<1>3. \A fd \in ready' : fd \in Fd /\ fd2conn[fd] # NULL
  BY <1>2, OfConn DEF SInv
<1>4. LoopOK'
  BY <1>1, <1>3 DEF LoopOK
<1>5. TableOK' /\ QueueOK' /\ ConnsExact' /\ ReqOK'
  BY <1>1, <1>3 DEF SInv, TableOK, QueueOK, ConnsExact, ReqOK
<1> QED
  BY <1>1, <1>4, <1>5, QuietData DEF SInv

LEMMA TimersDoneSInv == SInv /\ TimersDone => SInv'
<1> SUFFICES ASSUME SInv, TimersDone PROVE SInv'
  OBVIOUS
<1>1. /\ UNCHANGED <<req, backlog, sock, fd2conn, conn, ready, arrived>> /\ Quiet
      /\ pc = "timers" /\ pc' = IF arrived THEN "accept" ELSE "poll"
  BY DEF TimersDone, clients, table
<1>2. LoopOK' /\ ReqOK'
  BY <1>1 DEF SInv, LoopOK, ReqOK
<1> QED
  BY <1>1, <1>2, TableKept, QuietData DEF SInv
\* The first in the queue leaves it.
LEMMA TakeFirst ==
  ASSUME SInv, Accepted
  PROVE  /\ Head(backlog) \in Client /\ DataInv' /\ QueueOK' /\ LoopOK'
         /\ ready = {} /\ ready' = {}
         /\ \A i \in 1 .. Len(backlog') :
              \E j \in 1 .. Len(backlog) :
                backlog'[i] = backlog[j] /\ backlog[j] # Head(backlog)
         /\ \A fd \in Fd : sock[fd] # Head(backlog)
<1>1. /\ pc = "accept" /\ pc' = "poll" /\ arrived' = FALSE /\ backlog' = Tail(backlog)
      /\ ready' = ready /\ Quiet
  BY DEF Accepted
<1>2. backlog # <<>> /\ ready = {} /\ backlog \in Seq(Client)
  BY <1>1 DEF SInv, LoopOK, QueueOK
<1>3. /\ Len(backlog) \in Nat \ {0} /\ Head(backlog) = backlog[1] /\ backlog[1] \in Client
      /\ backlog' \in Seq(Client) /\ Len(backlog') = Len(backlog) - 1
      /\ \A i \in 1 .. Len(backlog') : backlog'[i] = backlog[i + 1]
  BY <1>1, <1>2
<1>4. ASSUME NEW i \in 1 .. Len(backlog')
      PROVE  /\ i + 1 \in 1 .. Len(backlog) /\ backlog'[i] = backlog[i + 1]
             /\ backlog[i + 1] # Head(backlog)
  <2>1. i + 1 \in 1 .. Len(backlog) /\ 1 \in 1 .. Len(backlog) /\ i + 1 # 1
    BY <1>3
  <2> QED
    BY <2>1, <1>3 DEF SInv, QueueOK
<1>5. QueueOK'
  <2>1. ASSUME NEW i \in 1 .. Len(backlog'), NEW j \in 1 .. Len(backlog'),
               backlog'[i] = backlog'[j]
        PROVE  i = j
    <3>1. i + 1 \in 1 .. Len(backlog) /\ j + 1 \in 1 .. Len(backlog)
          /\ backlog[i + 1] = backlog[j + 1]
      BY <2>1, <1>4
    <3>2. i + 1 = j + 1
      BY <3>1 DEF SInv, QueueOK
    <3> QED
      BY <3>2
  <2> QED
    BY <2>1, <1>3 DEF QueueOK
<1>6. LoopOK' /\ ready' = {}
  BY <1>1, <1>2 DEF LoopOK
<1>7. \A fd \in Fd : sock[fd] # Head(backlog)
  <2>1. 1 \in DOMAIN backlog
    BY <1>2, <1>3
  <2> QED
    BY <2>1, <1>3 DEF SInv, ConnsExact
<1> QED
  BY <1>1, <1>2, <1>3, <1>4, <1>5, <1>6, <1>7, QuietData DEF SInv

LEMMA AcceptSInv == SInv /\ Accept => SInv'
<1> SUFFICES ASSUME SInv, Accept PROVE SInv'
  OBVIOUS
<1> DEFINE c == Head(backlog)
<1>1. Accepted /\ UNCHANGED req
  BY DEF Accept
<1>2. PICK fd \in Fd, o \in Conn \ DOMAIN conn, m \in Memory :
        /\ LowestFree(fd)
        /\ sock' = [sock EXCEPT ![fd] = c]
        /\ conn' = With(conn, o, [m EXCEPT !.fd = fd, !.state = "REQ",
                                           !.wbuf = <<>>, !.wbuf_sent = 0])
        /\ fd2conn' = [fd2conn EXCEPT ![fd] = o]
  BY DEF Accept
<1> DEFINE r == [m EXCEPT !.fd = fd, !.state = "REQ", !.wbuf = <<>>, !.wbuf_sent = 0]
<1>3. "fd" \in DOMAIN r /\ r.fd = fd
  BY DEF Memory
<1> HIDE DEF r
<1>4. /\ DOMAIN conn' = DOMAIN conn \cup {o} /\ conn' = [u \in DOMAIN conn' |-> conn'[u]]
      /\ conn'[o] = r /\ \A u \in DOMAIN conn : conn'[u] = conn[u]
  BY <1>2 DEF With, r
<1>5. sock[fd] = NULL /\ fd2conn[fd] = NULL /\ o # NULL /\ c # NULL /\ c \in Client
  BY <1>1, <1>2, TakeFirst, ServerAssumption DEF LowestFree, SInv, ConnsExact
<1>6. \A g \in Fd : /\ fd2conn'[g] = IF g = fd THEN o ELSE fd2conn[g]
                    /\ sock'[g] = IF g = fd THEN c ELSE sock[g]
  BY <1>2 DEF SInv, TableOK
<1>7. TableOK'
  <2>1. sock' \in [Fd -> Client \cup {NULL}] /\ fd2conn' \in [Fd -> Conn \cup {NULL}]
    BY <1>2, <1>5 DEF SInv, TableOK
  <2>2. \A u \in DOMAIN conn' : "fd" \in DOMAIN conn'[u] /\ conn'[u].fd \in Fd
    BY <1>3, <1>4 DEF SInv, TableOK
  <2> QED
    BY <1>4, <2>1, <2>2 DEF SInv, TableOK
<1>8. \A u \in DOMAIN conn' : fd2conn'[conn'[u].fd] = u
  <2>1. ASSUME NEW u \in DOMAIN conn PROVE fd2conn'[conn'[u].fd] = u
    <3>1. conn[u].fd \in Fd /\ fd2conn[conn[u].fd] = u /\ u # NULL
      BY <2>1, OfConn DEF SInv
    <3> QED
      BY <3>1, <1>4, <1>5, <1>6
  <2> QED
    BY <2>1, <1>3, <1>4, <1>6
<1>9. ASSUME NEW g \in Fd
      PROVE  /\ fd2conn'[g] = NULL <=> sock'[g] = NULL
             /\ fd2conn'[g] # NULL => fd2conn'[g] \in DOMAIN conn' /\ conn'[fd2conn'[g]].fd = g
             /\ \A e \in Fd \ {g} :
                  fd2conn'[g] # NULL => fd2conn'[e] # fd2conn'[g] /\ sock'[e] # sock'[g]
             /\ \A i \in DOMAIN backlog' : sock'[g] # backlog'[i]
  <2>1. \A e \in Fd : fd2conn[e] # o /\ sock[e] # c
    <3>1. \A e \in Fd : fd2conn[e] # NULL => fd2conn[e] \in DOMAIN conn
      BY DEF SInv, ConnsExact
    <3> QED
      BY <3>1, <1>1, <1>5, TakeFirst
  <2>2. DOMAIN backlog' = 1 .. Len(backlog')
    BY <1>1, TakeFirst DEF QueueOK
  <2>3. \A i \in DOMAIN backlog' : sock'[g] # backlog'[i]
    <3>1. DOMAIN backlog = 1 .. Len(backlog)
      BY DEF SInv, QueueOK
    <3> QED
      BY <3>1, <2>2, <1>1, <1>6, TakeFirst DEF SInv, ConnsExact
  <2>4. CASE g = fd
    BY <2>1, <2>3, <2>4, <1>3, <1>4, <1>5, <1>6
  <2>5. CASE g # fd
    BY <2>1, <2>3, <2>5, <1>4, <1>5, <1>6 DEF SInv, ConnsExact
  <2> QED
    BY <2>4, <2>5
<1>10. ConnsExact'
  <2>1. ready' = {}
    BY <1>1, TakeFirst
  <2> QED
    BY <2>1, <1>8, <1>9 DEF ConnsExact
<1>11. ReqOK'
  BY <1>1 DEF SInv, ReqOK
<1> QED
  BY <1>1, <1>7, <1>10, <1>11, TakeFirst DEF SInv

LEMMA AcceptNoMemorySInv == SInv /\ AcceptNoMemory => SInv'
<1> SUFFICES ASSUME SInv, AcceptNoMemory PROVE SInv'
  OBVIOUS
<1>1. /\ Accepted /\ req' = [req EXCEPT ![Head(backlog)] = NULL]
      /\ UNCHANGED <<sock, fd2conn, conn>>
  BY DEF AcceptNoMemory, table
<1>2. ReqOK'
  BY <1>1 DEF SInv, ReqOK
<1>3. TableOK'
  BY <1>1 DEF SInv, TableOK
<1>4. \A fd \in Fd, i \in DOMAIN backlog' : sock[fd] # backlog'[i]
  <2>1. DOMAIN backlog' = 1 .. Len(backlog') /\ DOMAIN backlog = 1 .. Len(backlog)
    BY <1>1, TakeFirst DEF SInv, QueueOK
  <2> QED
    BY <2>1, <1>1, TakeFirst DEF SInv, ConnsExact
<1>5. ConnsExact'
  BY <1>1, <1>4, TakeFirst DEF SInv, ConnsExact
<1> QED
  BY <1>1, <1>2, <1>3, <1>5, TakeFirst DEF SInv

LEMMA FailSInv == SInv /\ (PollFail \/ AcceptFail) => SInv'
  BY DieSInv, QuietData DEF PollFail, AcceptFail, SInv

\* Clients only send, read and leave.
LEMMA ClientSInv ==
  ASSUME SInv, NEW c \in Client, ClientStep(c) \/ ClientLeave(c)
  PROVE  SInv'
<1>1. UNCHANGED <<backlog, sock, fd2conn, conn, pc, ready, arrived>> /\ Quiet
  BY DEF ClientStep, ClientLeave, ClientSend, ClientRead, ClientExit, Gone, table, loop
<1>2. req' = req \/ \E x \in Request : req' = [req EXCEPT ![c] = x]
  BY DEF ClientStep, ClientLeave, ClientSend, ClientRead, ClientExit, Gone
<1>3. ReqOK'
  BY <1>2 DEF SInv, ReqOK
<1>4. LoopOK'
  BY <1>1 DEF SInv, LoopOK
<1> QED
  BY <1>1, <1>3, <1>4, TableKept, QuietData DEF SInv

LEMMA ConnectSInv ==
  ASSUME SInv, NEW c \in Client, Connect(c)
  PROVE  SInv'
<1>1. /\ ~ Held(c) /\ backlog' = Append(backlog, c)
      /\ UNCHANGED <<req, sock, fd2conn, conn, pc, ready, arrived>> /\ Quiet
  BY DEF Connect, table, loop
<1>2. /\ backlog \in Seq(Client) /\ Len(backlog) \in Nat
      /\ DOMAIN backlog = 1 .. Len(backlog)
  BY DEF SInv, QueueOK
<1>3. /\ backlog' \in Seq(Client) /\ Len(backlog') = Len(backlog) + 1
      /\ DOMAIN backlog' = 1 .. Len(backlog')
      /\ \A i \in 1 .. Len(backlog) : backlog'[i] = backlog[i]
      /\ backlog'[Len(backlog) + 1] = c /\ backlog' # <<>>
  BY <1>1, <1>2
<1>4. /\ \A i \in 1 .. Len(backlog) : backlog[i] # c
      /\ \A fd \in Fd : sock[fd] # c
  BY <1>1, <1>2 DEF Held
<1>5. QueueOK'
  <2>1. ASSUME NEW i \in 1 .. Len(backlog'), NEW j \in 1 .. Len(backlog'),
               backlog'[i] = backlog'[j]
        PROVE  i = j
    <3>1. CASE i \in 1 .. Len(backlog) /\ j \in 1 .. Len(backlog)
      BY <2>1, <3>1, <1>3 DEF SInv, QueueOK
    <3>2. CASE i = Len(backlog) + 1 \/ j = Len(backlog) + 1
      BY <2>1, <3>2, <1>2, <1>3, <1>4
    <3> QED
      BY <3>1, <3>2, <1>2, <1>3
  <2> QED
    BY <2>1, <1>3 DEF QueueOK
<1>6. LoopOK'
  BY <1>1, <1>3 DEF SInv, LoopOK
<1>7. TableOK' /\ ReqOK'
  BY <1>1 DEF SInv, TableOK, ReqOK
<1>8. \A fd \in Fd, i \in DOMAIN backlog' : sock[fd] # backlog'[i]
  BY <1>2, <1>3, <1>4 DEF SInv, ConnsExact
<1>9. ConnsExact'
  BY <1>1, <1>8 DEF SInv, ConnsExact
<1> QED
  BY <1>1, <1>5, <1>6, <1>7, <1>9, QuietData DEF SInv

LEMMA NextSInv == SInv /\ [Next]_vars => SInv'
<1> SUFFICES ASSUME SInv, [Next]_vars PROVE SInv'
  OBVIOUS
<1>1. CASE Loop
  BY <1>1, PollSInv, HandleSInv, CloseIdleSInv, TimersDoneSInv, AcceptSInv,
     AcceptNoMemorySInv, FailSInv DEF Loop
<1>2. CASE \E c \in Client : Connect(c) \/ ClientStep(c) \/ ClientLeave(c)
  BY <1>2, ConnectSInv, ClientSInv
<1>3. CASE UNCHANGED vars
  <2>1. UNCHANGED data /\ UNCHANGED <<req, backlog, sock, fd2conn, conn, pc, ready, arrived>>
    BY <1>3 DEF vars, data, clients, table, loop
  <2>2. ReqOK' /\ LoopOK'
    BY <2>1 DEF SInv, ReqOK, LoopOK
  <2> QED
    BY <2>1, <2>2, TableKept, SameData DEF SInv
<1> QED
  BY <1>1, <1>2, <1>3 DEF Next

\* The invariant of the server.
THEOREM SInvHolds == Spec => []SInv
  BY InitSInv, NextSInv, PTL DEF Spec

\* A reply can only go to the client whose request it answers: descriptor,
\* table, connection and client match, for any number of each, whatever is
\* closed and used again between poll and accept (server.cpp:766-811).
THEOREM ConnsStayExact == Spec => []ConnsExact
<1>1. SInv => ConnsExact
  BY DEF SInv
<1> QED
  BY <1>1, SInvHolds, PTL

\* Whatever commands run, with whatever arguments, no two keys share a ZSet,
\* and none points to one that is not there (server.cpp:335-411).
THEOREM ZSetsKeptApart == Spec => []ZSetsOwned
<1>1. SInv => ZSetsOwned
  BY DEF SInv, DataInv
<1> QED
  BY <1>1, SInvHolds, PTL
-----------------------------------------------------------------------------
\* What a client has, or will have, of a message.
Msg(c) == (got[c] \o rep[c]) \o Unsent(c)

Fresh(c) == got[c] = <<>> /\ rep[c] = <<>>

OutOK == IsFiniteSet(DOMAIN db) /\ out \in Seq(Int)

PcOK == pc \in {"poll", "io", "timers", "accept", "dead"} /\ arrived \in BOOLEAN

SocketsOK ==
  /\ prog \in [Client -> {"out", "connected", "waiting", "answered"}]
  /\ rep \in [Client -> Seq(Int)] /\ got \in [Client -> Seq(Int)]
  /\ \A c \in Client : Len(rep[c]) <= SockCap

\* A client reads nothing before it has sent, and sends once; a request that
\* nobody has taken yet is in the socket of a connection that has no reply.
ClientOK(c) ==
  /\ prog[c] \in {"out", "connected"} => Fresh(c)
  /\ req[c] # NULL => Fresh(c)
  /\ (\E i \in DOMAIN backlog : backlog[i] = c) => Fresh(c)
  /\ prog[c] \in {"connected", "answered"} => req[c] = NULL
  /\ ~ Held(c) => req[c] = NULL

\* A connection has the rest of a reply exactly in state RES, and then its
\* client waits for it.
ConnOK(o) ==
  /\ conn[o] \in [fd : Fd, state : {"REQ", "RES"}, wbuf : Seq(Int), wbuf_sent : Nat]
  /\ conn[o].state = "REQ" => conn[o].wbuf = <<>> /\ conn[o].wbuf_sent = 0
  /\ conn[o].state = "RES" =>
       /\ conn[o].wbuf_sent < Len(conn[o].wbuf)
       /\ req[sock[conn[o].fd]] = NULL /\ prog[sock[conn[o].fd]] # "connected"

\* What a client has of a message is not more than its length says, and its
\* length is not 0.
MsgOK(c) ==
  prog[c] # "out" /\ Msg(c) # <<>> => Msg(c)[1] >= 1 /\ Len(Msg(c)) <= Msg(c)[1] + 1

Flow ==
  /\ SocketsOK
  /\ \A c \in Client : ClientOK(c) /\ MsgOK(c)
  /\ \A o \in DOMAIN conn : ConnOK(o)

\* The inductive invariant that the answers need.
AInv == SInv /\ OutOK /\ PcOK /\ Flow

\* Two connections do not have the same client.
LEMMA OneConn ==
  ASSUME SInv, NEW o \in DOMAIN conn, NEW u \in DOMAIN conn,
         sock[conn[o].fd] = sock[conn[u].fd]
  PROVE  o = u
<1> DEFINE f == conn[o].fd
           g == conn[u].fd
<1>1. f \in Fd /\ g \in Fd /\ fd2conn[f] = o /\ fd2conn[g] = u /\ o # NULL
  BY OfConn DEF SInv
<1> HIDE DEF f, g
<1>2. f = g
  BY <1>1 DEF SInv, ConnsExact, f, g
<1> QED
  BY <1>1, <1>2

NoConn(c) == \A o \in DOMAIN conn : sock[conn[o].fd] # c

\* Unsent, without its CHOOSE.
UnsentExact ==
  \A c \in Client :
    /\ NoConn(c) => Unsent(c) = <<>>
    /\ \A o \in DOMAIN conn :
         sock[conn[o].fd] = c => Unsent(c) = Rest(conn[o].wbuf, conn[o].wbuf_sent)

LEMMA UnsentIs == SInv => UnsentExact
<1> SUFFICES ASSUME SInv, NEW c \in Client
             PROVE  /\ NoConn(c) => Unsent(c) = <<>>
                    /\ \A o \in DOMAIN conn :
                         sock[conn[o].fd] = c =>
                           Unsent(c) = Rest(conn[o].wbuf, conn[o].wbuf_sent)
  BY DEF UnsentExact
<1> DEFINE os == {o \in DOMAIN conn : sock[conn[o].fd] = c}
<1>1. ASSUME NoConn(c) PROVE Unsent(c) = <<>>
  <2>1. os = {}
    BY <1>1 DEF NoConn
  <2> QED
    BY <2>1 DEF Unsent
<1>2. ASSUME NEW o \in DOMAIN conn, sock[conn[o].fd] = c
      PROVE  Unsent(c) = Rest(conn[o].wbuf, conn[o].wbuf_sent)
  <2>1. os = {o}
    BY <1>2, OneConn
  <2>2. os # {} /\ (CHOOSE u \in os : TRUE) = o
    BY <2>1
  <2>3. Unsent(c) = LET u == CHOOSE u \in os : TRUE
                    IN SubSeq(conn[u].wbuf, conn[u].wbuf_sent + 1, Len(conn[u].wbuf))
    BY <2>2 DEF Unsent
  <2> QED
    BY <2>2, <2>3 DEF Rest
<1> QED
  BY <1>1, <1>2

LEMMA UnsentWillBe == SInv' => UnsentExact'
  BY UnsentIs, PTL

\* The connections of a client, and what is in their buffers, stay.
LEMMA UnsentStays ==
  ASSUME SInv, SInv', NEW c \in Client,
         \A o \in DOMAIN conn :
           sock[conn[o].fd] = c =>
             /\ o \in DOMAIN conn' /\ sock'[conn'[o].fd] = c
             /\ conn'[o].wbuf = conn[o].wbuf /\ conn'[o].wbuf_sent = conn[o].wbuf_sent,
         \A o \in DOMAIN conn' :
           sock'[conn'[o].fd] = c => o \in DOMAIN conn /\ sock[conn[o].fd] = c
  PROVE  Unsent(c)' = Unsent(c)
<1>1. UnsentExact /\ UnsentExact'
  BY UnsentIs, UnsentWillBe
<1>2. CASE NoConn(c)
  <2>1. NoConn(c)'
    BY <1>2 DEF NoConn
  <2> QED
    BY <1>1, <1>2, <2>1 DEF UnsentExact
<1>3. CASE ~ NoConn(c)
  <2>1. PICK o \in DOMAIN conn : sock[conn[o].fd] = c
    BY <1>3 DEF NoConn
  <2>2. o \in DOMAIN conn' /\ sock'[conn'[o].fd] = c
    BY <2>1
  <2>3. Unsent(c) = Rest(conn[o].wbuf, conn[o].wbuf_sent)
    BY <1>1, <2>1 DEF UnsentExact
  <2>4. Unsent(c)' = Rest(conn'[o].wbuf, conn'[o].wbuf_sent)
    BY <1>1, <2>2 DEF UnsentExact
  <2> QED
    BY <2>1, <2>3, <2>4
<1> QED
  BY <1>2, <1>3

\* Part of a message in front of the rest.
LEMMA FrontOf ==
  ASSUME NEW S, NEW p \in Seq(S), NEW u \in Seq(S)
  PROVE  /\ p \o u \in Seq(S) /\ Len(p \o u) = Len(p) + Len(u)
         /\ p # <<>> => p \o u # <<>> /\ (p \o u)[1] = p[1]
         /\ u # <<>> => Len(p) < Len(p \o u)
<1>1. p \o u \in Seq(S) /\ Len(p \o u) = Len(p) + Len(u)
  BY ConcatProperties
<1>2. ASSUME p # <<>> PROVE p \o u # <<>> /\ (p \o u)[1] = p[1]
  BY <1>2
<1>3. ASSUME u # <<>> PROVE Len(p) < Len(p \o u)
  <2>1. Len(u) \in Nat \ {0} /\ Len(p) \in Nat
    BY <1>3
  <2> QED
    BY <1>1, <2>1
<1> QED
  BY <1>1, <1>2, <1>3

\* What is left to send is a sequence of cells, and nothing in state REQ.
LEMMA UnsentTyped ==
  ASSUME AInv, NEW c \in Client
  PROVE  /\ Unsent(c) \in Seq(Int)
         /\ req[c] # NULL \/ prog[c] = "connected" => Unsent(c) = <<>>
<1>1. UnsentExact
  BY UnsentIs DEF AInv
<1>2. CASE NoConn(c)
  <2>1. Unsent(c) = <<>>
    BY <1>1, <1>2 DEF UnsentExact
  <2> QED
    BY <2>1
<1>3. ASSUME NEW o \in DOMAIN conn, sock[conn[o].fd] = c
      PROVE  /\ Unsent(c) \in Seq(Int)
             /\ req[c] # NULL \/ prog[c] = "connected" => Unsent(c) = <<>>
  <2>1. /\ conn[o].wbuf \in Seq(Int) /\ conn[o].wbuf_sent \in Nat
        /\ conn[o].state \in {"REQ", "RES"}
    BY <1>3 DEF AInv, Flow, ConnOK
  <2>2. Unsent(c) = Rest(conn[o].wbuf, conn[o].wbuf_sent)
    BY <1>1, <1>3 DEF UnsentExact
  <2>3. CASE conn[o].state = "REQ"
    <3>1. conn[o].wbuf = <<>> /\ conn[o].wbuf_sent = 0
      BY <1>3, <2>3 DEF AInv, Flow, ConnOK
    <3> QED
      BY <2>2, <3>1 DEF Rest
  <2>4. CASE conn[o].state = "RES"
    <3>1. conn[o].wbuf_sent < Len(conn[o].wbuf) /\ req[c] = NULL /\ prog[c] # "connected"
      BY <1>3, <2>4 DEF AInv, Flow, ConnOK
    <3> QED
      BY <2>1, <2>2, <3>1 DEF Rest
  <2> QED
    BY <2>1, <2>3, <2>4
<1> QED
  BY <1>2, <1>3 DEF NoConn

LEMMA MsgTyped ==
  ASSUME AInv, NEW c \in Client
  PROVE  /\ got[c] \in Seq(Int) /\ rep[c] \in Seq(Int) /\ got[c] \o rep[c] \in Seq(Int)
         /\ Msg(c) \in Seq(Int)
         /\ Fresh(c) => got[c] \o rep[c] = <<>> /\ Msg(c) = Unsent(c)
         /\ req[c] # NULL \/ prog[c] = "connected" => Msg(c) = <<>>
<1>1. got[c] \in Seq(Int) /\ rep[c] \in Seq(Int)
  BY DEF AInv, Flow, SocketsOK
<1>2. got[c] \o rep[c] \in Seq(Int)
  BY <1>1, ConcatProperties
<1>3. Msg(c) \in Seq(Int)
  BY <1>2, UnsentTyped, ConcatProperties DEF Msg
<1>4. ASSUME Fresh(c) PROVE got[c] \o rep[c] = <<>> /\ Msg(c) = Unsent(c)
  <2>1. got[c] \o rep[c] = <<>>
    BY <1>4 DEF Fresh
  <2>2. <<>> \o Unsent(c) = Unsent(c)
    BY UnsentTyped, ConcatEmptySeq
  <2> QED
    BY <2>1, <2>2 DEF Msg
<1>5. req[c] # NULL \/ prog[c] = "connected" => Fresh(c)
  BY DEF AInv, Flow, ClientOK
<1> QED
  BY <1>1, <1>2, <1>3, <1>4, <1>5, UnsentTyped


\* The answers and the phases of the clients in Service.
answers == [c \in Client |-> Answer(c)]

phases ==
  [c \in Client |->
     IF req[c] # NULL THEN IF prog[c] = "out" THEN "orphan" ELSE "called"
     ELSE IF Answer(c) = <<>> THEN "idle"
     ELSE IF prog[c] = "answered" THEN "answered" ELSE "effected"]

\* Both, in terms of Msg.
AnswersExact ==
  \A c \in Client :
    /\ answers[c] = IF prog[c] # "out" /\ Msg(c) # <<>> /\ Len(Msg(c)) = Msg(c)[1] + 1
                    THEN Tail(Msg(c)) ELSE <<>>
    /\ phases[c] = IF req[c] # NULL THEN IF prog[c] = "out" THEN "orphan" ELSE "called"
                   ELSE IF answers[c] = <<>> THEN "idle"
                   ELSE IF prog[c] = "answered" THEN "answered" ELSE "effected"

LEMMA AnswersAre == AnswersExact
<1>1. \A c \in Client :
        Answer(c) = IF prog[c] # "out" /\ Msg(c) # <<>> /\ Len(Msg(c)) = Msg(c)[1] + 1
                    THEN Tail(Msg(c)) ELSE <<>>
  BY DEF Answer, Msg
<1> QED
  BY <1>1 DEF AnswersExact, answers, phases

LEMMA AnswersWillBe == AnswersExact'
  BY AnswersAre, PTL

\* A client whose process and cells stay, and that loses what is not sent:
\* it had its answer, or has none.
LEMMA CutOff ==
  ASSUME AInv, NEW c \in Client,
         prog'[c] = prog[c], got'[c] = got[c], rep'[c] = rep[c], Unsent(c)' = <<>>
  PROVE  /\ MsgOK(c)'
         /\ answers'[c] = answers[c] \/ answers'[c] = <<>>
<1> DEFINE p == got[c] \o rep[c]
           u == Unsent(c)
<1>1. p \in Seq(Int) /\ u \in Seq(Int) /\ Msg(c) = p \o u
  BY MsgTyped, UnsentTyped DEF Msg
<1>2. Msg(c)' = p
  <2>1. Msg(c)' = p \o <<>>
    BY DEF Msg
  <2> QED
    BY <1>1, <2>1, ConcatEmptySeq
<1>3. answers'[c] = IF prog[c] # "out" /\ p # <<>> /\ Len(p) = p[1] + 1
                    THEN Tail(p) ELSE <<>>
  BY <1>2, AnswersWillBe DEF AnswersExact
<1>4. answers[c] = IF prog[c] # "out" /\ Msg(c) # <<>> /\ Len(Msg(c)) = Msg(c)[1] + 1
                   THEN Tail(Msg(c)) ELSE <<>>
  BY AnswersAre DEF AnswersExact
<1> HIDE DEF p, u
<1>5. CASE prog[c] = "out" \/ p = <<>>
  BY <1>2, <1>3, <1>5 DEF MsgOK
<1>6. CASE prog[c] # "out" /\ p # <<>>
  <2>1. /\ Msg(c) # <<>> /\ Msg(c)[1] = p[1] /\ Len(p) <= Len(Msg(c)) /\ p[1] \in Int
        /\ Len(p) \in Nat /\ Len(Msg(c)) \in Nat
        /\ u # <<>> => Len(p) < Len(Msg(c))
    <3>1. /\ Msg(c) \in Seq(Int) /\ Len(Msg(c)) = Len(p) + Len(u)
          /\ Msg(c) # <<>> /\ Msg(c)[1] = p[1]
          /\ u # <<>> => Len(p) < Len(Msg(c))
      BY <1>1, <1>6, FrontOf
    <3> QED
      BY <1>1, <1>6, <3>1
  <2>2. p[1] >= 1 /\ Len(Msg(c)) <= p[1] + 1
    BY <1>6, <2>1 DEF AInv, Flow, MsgOK
  <2>3. MsgOK(c)'
    BY <1>2, <2>1, <2>2 DEF MsgOK
  <2>4. u = <<>> => Msg(c) = p
    BY <1>1, ConcatEmptySeq
  <2> QED
    BY <1>3, <1>4, <2>1, <2>2, <2>3, <2>4
<1> QED
  BY <1>5, <1>6

\* A client whose process stays, and its message too.
LEMMA SameMsg ==
  ASSUME NEW c \in Client, prog'[c] = prog[c], Msg(c)' = Msg(c)
  PROVE  /\ answers'[c] = answers[c]
         /\ MsgOK(c) => MsgOK(c)'
<1>1. answers'[c] = answers[c]
  BY AnswersAre, AnswersWillBe DEF AnswersExact
<1> QED
  BY <1>1 DEF MsgOK
-----------------------------------------------------------------------------
\* What most steps do to a client: nothing, or its call ends.
Same(c) == req'[c] = req[c] /\ answers'[c] = answers[c] /\ phases'[c] = phases[c]
Lost(c) == req'[c] = NULL /\ answers'[c] = <<>>
Losers == {c \in Client : Lost(c)}

LEMMA EndStep ==
  ASSUME SInv, SInv', \A c \in Client : Same(c) \/ Lost(c)
  PROVE  Abs!End(Losers)
<1> DEFINE S == Losers
<1>1. req' = [c \in Client |-> IF c \in S THEN NULL ELSE req[c]]
  BY DEF Losers, Same, Lost, SInv, ReqOK
<1>2. DOMAIN answers' = Client /\ DOMAIN phases' = Client
      /\ answers' = [c \in Client |-> answers'[c]] /\ phases' = [c \in Client |-> phases'[c]]
  BY DEF answers, phases
<1>3. answers' = [c \in Client |-> IF c \in S THEN <<>> ELSE answers[c]]
  BY <1>2 DEF Losers, Same, Lost
<1>4. \A c \in Client : Lost(c) => phases'[c] = "idle"
  BY AnswersWillBe DEF Lost, AnswersExact
<1>5. phases' = [c \in Client |-> IF c \in S THEN "idle" ELSE phases[c]]
  BY <1>2, <1>4 DEF Losers, Same
<1> HIDE DEF S
<1>6. Abs!End(S)
  BY <1>1, <1>3, <1>5 DEF Abs!End, phases, answers
<1> QED
  BY <1>6 DEF S

LEMMA QuietStep ==
  ASSUME SInv, SInv', Quiet, \A c \in Client : Same(c) \/ Lost(c)
  PROVE  Abs!Next
<1>1. Abs!Quiet
  BY DEF Quiet, Abs!Quiet, data, Abs!data
<1> DEFINE S == Losers
<1>2. S \in SUBSET Client /\ Abs!End(S)
  BY EndStep DEF Losers
<1> HIDE DEF S
<1>3. \E T \in SUBSET Client : Abs!End(T) /\ Abs!Quiet
  BY <1>1, <1>2 DEF Abs!End
<1> QED
  BY <1>3 DEF Abs!Next

\* A step of one client.
LEMMA OnlyOne ==
  ASSUME NEW c \in Client, \A d \in Client \ {c} : Same(d)
  PROVE  /\ answers' = [answers EXCEPT ![c] = answers'[c]]
         /\ phases' = [phases EXCEPT ![c] = phases'[c]]
         /\ answers'[c] = answers[c] => answers' = answers
<1>1. /\ answers = [d \in Client |-> answers[d]] /\ phases = [d \in Client |-> phases[d]]
      /\ answers' = [d \in Client |-> answers'[d]] /\ phases' = [d \in Client |-> phases'[d]]
  BY DEF answers, phases
<1> QED
  BY <1>1 DEF Same

LEMMA SameStep ==
  ASSUME NEW c \in Client, req'[c] = req[c], prog'[c] = prog[c], Msg(c)' = Msg(c)
  PROVE  Same(c)
<1>1. answers'[c] = answers[c]
  BY SameMsg
<1> QED
  BY <1>1, AnswersAre, AnswersWillBe DEF Same, AnswersExact

LEMMA OutLost ==
  ASSUME NEW c \in Client, req'[c] = NULL, prog'[c] = "out"
  PROVE  Lost(c)
<1>1. answers'[c] = <<>>
  BY AnswersWillBe DEF AnswersExact
<1> QED
  BY <1>1 DEF Lost

LEMMA CutOffStep ==
  ASSUME AInv, NEW c \in Client, req'[c] = NULL,
         prog'[c] = prog[c], got'[c] = got[c], rep'[c] = rep[c], Unsent(c)' = <<>>
  PROVE  Same(c) \/ Lost(c)
<1>1. req[c] # NULL => answers[c] = <<>>
  BY MsgTyped, AnswersAre DEF AnswersExact
<1>2. answers'[c] = answers[c] \/ answers'[c] = <<>>
  BY CutOff
<1> QED
  BY <1>1, <1>2, AnswersAre, AnswersWillBe DEF Same, Lost, AnswersExact
-----------------------------------------------------------------------------
\* A client whose cells and connection stay.
LEMMA ClientStays ==
  ASSUME AInv, NEW c \in Client, prog'[c] = prog[c], req'[c] \in {req[c], NULL},
         got'[c] = got[c], rep'[c] = rep[c],
         req'[c] # NULL /\ Held(c) => Held(c)',
         \A i \in DOMAIN backlog' : backlog'[i] = c => \E j \in DOMAIN backlog : backlog[j] = c
  PROVE  ClientOK(c)'
<1>1. ClientOK(c)
  BY DEF AInv, Flow
<1>2. Fresh(c)' <=> Fresh(c)
  BY DEF Fresh
<1>3. ~ Held(c)' => req'[c] = NULL
  BY <1>1 DEF ClientOK
<1> QED
  BY <1>1, <1>2, <1>3 DEF ClientOK

\* The sockets and the connections stay as they are.
LEMMA KeptFlow ==
  ASSUME AInv, SInv', UNCHANGED <<prog, req, rep, got, backlog, sock, conn>>
  PROVE  Flow' /\ \A c \in Client : Same(c)
<1>1. SocketsOK' /\ \A o \in DOMAIN conn' : ConnOK(o)'
  BY DEF AInv, Flow, SocketsOK, ConnOK
<1>2. ASSUME NEW c \in Client
      PROVE  ClientOK(c)' /\ MsgOK(c)' /\ Same(c)
  <2>1. Held(c)' <=> Held(c)
    BY DEF Held
  <2>2. ClientOK(c)'
    BY <2>1, ClientStays
  <2>3. Unsent(c)' = Unsent(c)
    BY UnsentStays DEF AInv
  <2>4. Msg(c)' = Msg(c)
    BY <2>3 DEF Msg
  <2> QED
    BY <2>2, <2>4, SameMsg, SameStep DEF AInv, Flow
<1> QED
  BY <1>1, <1>2 DEF Flow

\* A connection is closed.
LEMMA DoneFlow ==
  ASSUME AInv, SInv', NEW o \in DOMAIN conn, conn_done(o), UNCHANGED <<prog, rep, got, backlog>>
  PROVE  Flow' /\ \A c \in Client : Same(c) \/ Lost(c)
<1>1. PICK fd \in Fd, c \in Client : fd = conn[o].fd /\ c = sock[fd] /\ c # NULL
  BY OfConn, ServerAssumption DEF AInv, SInv
<1>2. /\ \A d \in Client : req'[d] = IF d = c THEN NULL ELSE req[d]
      /\ \A e \in Fd : sock'[e] = IF e = fd THEN NULL ELSE sock[e]
      /\ DOMAIN conn' = DOMAIN conn \ {o} /\ \A u \in DOMAIN conn' : conn'[u] = conn[u]
  BY <1>1 DEF conn_done, Without, AInv, SInv, ReqOK, TableOK
<1>3. \A u \in DOMAIN conn :
        /\ conn[u].fd \in Fd /\ sock[conn[u].fd] \in Client
        /\ u # o => conn[u].fd # fd /\ sock[conn[u].fd] # c
  BY <1>1, OfConn, OneConn DEF AInv, SInv
<1>4. ASSUME NEW u \in DOMAIN conn'
      PROVE  /\ conn'[u].fd = conn[u].fd /\ sock'[conn'[u].fd] = sock[conn[u].fd]
             /\ sock[conn[u].fd] # c
  BY <1>2, <1>3
<1>5. ASSUME NEW d \in Client, d # c
      PROVE  ClientOK(d)' /\ MsgOK(d)' /\ Same(d)
  <2>1. Held(d) => Held(d)'
    <3>1. \A e \in Fd : sock[e] = d => sock'[e] = d
      BY <1>1, <1>2, <1>5
    <3> QED
      BY <3>1 DEF Held
  <2>2. ClientOK(d)'
    BY <2>1, <1>2, <1>5, ClientStays
  <2>3. \A u \in DOMAIN conn : sock[conn[u].fd] = d => u \in DOMAIN conn'
    BY <1>1, <1>2, <1>5
  <2>4. Unsent(d)' = Unsent(d)
    BY <2>3, <1>2, <1>4, UnsentStays DEF AInv
  <2>5. Msg(d)' = Msg(d)
    BY <2>4 DEF Msg
  <2> QED
    BY <2>2, <2>5, <1>2, <1>5, SameMsg, SameStep DEF AInv, Flow
<1>6. ClientOK(c)' /\ MsgOK(c)' /\ (Same(c) \/ Lost(c))
  <2>1. ClientOK(c)'
    BY <1>1, <1>2, ClientStays
  <2>2. NoConn(c)'
    BY <1>4 DEF NoConn
  <2>3. Unsent(c)' = <<>>
    BY <1>1, <2>2, UnsentWillBe DEF UnsentExact
  <2> QED
    BY <1>1, <1>2, <2>1, <2>3, CutOff, CutOffStep
<1>7. SocketsOK'
  BY DEF AInv, Flow, SocketsOK
<1>8. \A u \in DOMAIN conn' : ConnOK(u)'
  <2>1. ASSUME NEW u \in DOMAIN conn' PROVE ConnOK(u)'
    <3>1. conn'[u] = conn[u] /\ ConnOK(u) /\ sock'[conn'[u].fd] = sock[conn[u].fd]
      BY <1>2, <1>4 DEF AInv, Flow
    <3>2. req'[sock[conn[u].fd]] = req[sock[conn[u].fd]]
      BY <1>2, <1>3, <1>4
    <3> QED
      BY <3>1, <3>2 DEF ConnOK
  <2> QED
    BY <2>1
<1> QED
  BY <1>5, <1>6, <1>7, <1>8 DEF Flow

\* The process ends.
LEMMA DieFlow ==
  ASSUME AInv, SInv', die, UNCHANGED <<prog, rep, got>>
  PROVE  Flow' /\ \A c \in Client : Same(c) \/ Lost(c)
<1>1. DOMAIN conn' = {} /\ req' = [c \in Client |-> NULL] /\ backlog' = <<>>
  BY DEF die
<1>2. ASSUME NEW c \in Client
      PROVE  ClientOK(c)' /\ MsgOK(c)' /\ (Same(c) \/ Lost(c))
  <2>1. ClientOK(c)'
    BY <1>1, ClientStays
  <2>2. NoConn(c)'
    BY <1>1 DEF NoConn
  <2>3. Unsent(c)' = <<>>
    BY <2>2, UnsentWillBe DEF UnsentExact
  <2> QED
    BY <1>1, <2>1, <2>3, CutOff, CutOffStep
<1>3. SocketsOK'
  BY DEF AInv, Flow, SocketsOK
<1> QED
  BY <1>1, <1>2, <1>3 DEF Flow

\* n cells of w leave a connection for its client.
Sends(o, w, n) ==
  LET fd == conn[o].fd
      c == sock[fd]
      sent == conn[o].wbuf_sent
      rest == sent + n # Len(w)
  IN /\ n <= Len(w) - sent
     /\ prog[c] # "out" => Len(rep[c]) + n <= SockCap
     /\ conn' = [conn EXCEPT ![o] = [conn[o] EXCEPT !.state = IF rest THEN "RES" ELSE "REQ",
                                                    !.wbuf = IF rest THEN w ELSE <<>>,
                                                    !.wbuf_sent = IF rest THEN sent + n ELSE 0]]
     /\ rep' = IF prog[c] = "out" THEN rep
               ELSE [rep EXCEPT ![c] = @ \o SubSeq(w, sent + 1, sent + n)]
     /\ req' = [req EXCEPT ![c] = NULL]
     /\ UNCHANGED <<prog, got, sock, fd2conn, backlog>>

LEMMA MinOfTwo ==
  ASSUME NEW a \in Int, NEW b \in Int
  PROVE  Min({a, b}) = IF a <= b THEN a ELSE b
<1> DEFINE m == IF a <= b THEN a ELSE b
<1>1. m \in {a, b} /\ \A y \in {a, b} : m <= y
  OBVIOUS
<1>2. \A x \in {a, b} : (\A y \in {a, b} : x <= y) => x = m
  OBVIOUS
<1> HIDE DEF m
<1>3. Min({a, b}) = m
  BY <1>1, <1>2 DEF Min
<1> QED
  BY <1>3 DEF m

\* What send takes of a length, of which s are sent.
LEMMA RoomFor ==
  ASSUME NEW len \in Nat, NEW s \in Nat, s <= len, NEW k \in Nat, k <= SockCap, NEW gone
  PROVE  LET room == IF gone THEN len ELSE SockCap - k
             n == Min({room, len - s})
         IN n \in Nat /\ n <= len - s /\ (~ gone => k + n <= SockCap)
<1> DEFINE room == IF gone THEN len ELSE SockCap - k
           n == Min({room, len - s})
<1>1. room \in Nat /\ len - s \in Nat /\ (~ gone => room = SockCap - k)
  BY ServerAssumption
<1> HIDE DEF room
<1>2. n = IF room <= len - s THEN room ELSE len - s
  BY <1>1, MinOfTwo
<1> HIDE DEF n
<1>3. n \in Nat /\ n <= len - s /\ n <= room
  BY <1>1, <1>2
<1>4. ~ gone => k + n <= SockCap
  BY <1>1, <1>3, ServerAssumption
<1> QED
  BY <1>3, <1>4 DEF n, room

\* The two things state_res may do.
LEMMA StateResSplit ==
  ASSUME AInv, NEW o \in DOMAIN conn, NEW w \in Seq(Int), conn[o].wbuf_sent <= Len(w),
         state_res(o, w)
  PROVE  \/ \E n \in Nat : Sends(o, w, n)
         \/ /\ prog[sock[conn[o].fd]] = "out" /\ UNCHANGED <<prog, rep, got>>
            /\ (conn_done(o) /\ UNCHANGED backlog) \/ die
<1> DEFINE c == sock[conn[o].fd]
           sent == conn[o].wbuf_sent
           room == IF prog[c] = "out" THEN Len(w) ELSE SockCap - Len(rep[c])
           n == Min({room, Len(w) - sent})
<1>1. c \in Client /\ sent \in Nat /\ Len(w) \in Nat /\ Len(rep[c]) \in Nat
      /\ Len(rep[c]) <= SockCap /\ SockCap \in Nat
  <2>1. c \in Client
    BY OfConn DEF AInv, SInv
  <2>2. sent \in Nat /\ Len(w) \in Nat
    BY DEF AInv, Flow, ConnOK
  <2> QED
    BY <2>1, <2>2, ServerAssumption DEF AInv, Flow, SocketsOK
<1>2. /\ n \in Nat /\ n <= Len(w) - sent
      /\ prog[c] # "out" => Len(rep[c]) + n <= SockCap
  <2>1. sent <= Len(w)
    OBVIOUS
  <2> QED
    BY <1>1, <2>1, RoomFor
<1>3. CASE prog[c] = "out" /\ ((conn_done(o) /\ Handled(conn[o].fd)) \/ die)
           /\ UNCHANGED <<prog, rep, got>>
  BY <1>3 DEF Handled
<1> DEFINE rest == sent + n # Len(w)
<1>4. CASE /\ conn' = [conn EXCEPT ![o] =
                          [conn[o] EXCEPT !.state = IF rest THEN "RES" ELSE "REQ",
                                          !.wbuf = IF rest THEN w ELSE <<>>,
                                          !.wbuf_sent = IF rest THEN sent + n ELSE 0]]
           /\ rep' = IF prog[c] = "out" THEN rep
                     ELSE [rep EXCEPT ![c] = @ \o SubSeq(w, sent + 1, sent + n)]
           /\ req' = [req EXCEPT ![c] = NULL]
           /\ Handled(conn[o].fd) /\ UNCHANGED <<prog, got, sock, fd2conn>>
  <2>1. UNCHANGED backlog
    BY <1>4 DEF Handled
  <2>2. Sends(o, w, n)
    <3> HIDE DEF n
    <3> QED
      BY <1>2, <1>4, <2>1 DEF Sends
  <2> HIDE DEF n
  <2> QED
    BY <1>2, <2>2
<1> QED
  BY <1>3, <1>4 DEF state_res

\* What a send does to its client, and to the others.
LEMMA SendFlow ==
  ASSUME AInv, SInv', NEW o \in DOMAIN conn, NEW w \in Seq(Int), NEW n \in Nat, Sends(o, w, n),
         conn[o].wbuf_sent <= Len(w),
         NEW c \in Client, c = sock[conn[o].fd], prog[c] # "connected"
  PROVE  /\ SocketsOK' /\ \A u \in DOMAIN conn' : ConnOK(u)'
         /\ \A d \in Client : prog'[d] = prog[d] /\ req'[d] = IF d = c THEN NULL ELSE req[d]
         /\ \A d \in Client \ {c} : ClientOK(d)' /\ MsgOK(d)' /\ Same(d)
         /\ ClientOK(c)'
         /\ prog[c] # "out" => Msg(c)' = (got[c] \o rep[c]) \o Rest(w, conn[o].wbuf_sent)
<1>0. PICK fd \in Fd, sent \in Nat : fd = conn[o].fd /\ sent = conn[o].wbuf_sent
  BY OfConn DEF AInv, SInv, Flow, ConnOK
<1>1. PICK r :
        /\ fd = conn[o].fd /\ sent = conn[o].wbuf_sent
        /\ r = [conn[o] EXCEPT !.state = IF sent + n # Len(w) THEN "RES" ELSE "REQ",
                               !.wbuf = IF sent + n # Len(w) THEN w ELSE <<>>,
                               !.wbuf_sent = IF sent + n # Len(w) THEN sent + n ELSE 0]
  BY <1>0
<1>2. /\ n <= Len(w) - sent /\ sent <= Len(w)
      /\ prog[c] # "out" => Len(rep[c]) + n <= SockCap
      /\ conn' = [conn EXCEPT ![o] = r]
      /\ rep' = IF prog[c] = "out" THEN rep ELSE [rep EXCEPT ![c] = @ \o Part(w, sent, n)]
      /\ req' = [req EXCEPT ![c] = NULL]
      /\ UNCHANGED <<prog, got, sock, fd2conn, backlog>>
  BY <1>1 DEF Sends, Part
<1>3. /\ r \in [fd : Fd, state : {"REQ", "RES"}, wbuf : Seq(Int), wbuf_sent : Nat]
      /\ r.fd = fd
      /\ r.state = "REQ" => r.wbuf = <<>> /\ r.wbuf_sent = 0 /\ sent + n = Len(w)
      /\ r.state = "RES" => r.wbuf = w /\ r.wbuf_sent = sent + n /\ sent + n < Len(w)
  <2>1. conn[o] \in [fd : Fd, state : {"REQ", "RES"}, wbuf : Seq(Int), wbuf_sent : Nat]
    BY DEF AInv, Flow, ConnOK
  <2>2. sent + n # Len(w) => sent + n < Len(w)
    BY <1>2
  <2>3. sent + n \in Nat /\ <<>> \in Seq(Int)
    OBVIOUS
  <2>6. fd = conn[o].fd
    BY <1>1
  <2>4. CASE sent + n # Len(w)
    <3>1. r = [conn[o] EXCEPT !.state = "RES", !.wbuf = w, !.wbuf_sent = sent + n]
      BY <1>1, <2>4
    <3> QED
      BY <1>1, <2>1, <2>2, <2>3, <2>4, <3>1
  <2>5. CASE sent + n = Len(w)
    <3>1. r = [conn[o] EXCEPT !.state = "REQ", !.wbuf = <<>>, !.wbuf_sent = 0]
      BY <1>1, <2>5
    <3> QED
      BY <2>1, <2>3, <2>5, <2>6, <3>1
  <2> QED
    BY <2>4, <2>5
<1>4. /\ DOMAIN conn' = DOMAIN conn /\ conn'[o] = r
      /\ \A u \in DOMAIN conn : u # o => conn'[u] = conn[u]
      /\ \A u \in DOMAIN conn : /\ conn'[u].fd = conn[u].fd /\ sock[conn[u].fd] \in Client
                                /\ u # o => sock[conn[u].fd] # c
      /\ \A d \in Client : req'[d] = IF d = c THEN NULL ELSE req[d]
  BY <1>1, <1>2, <1>3, OfConn, OneConn DEF AInv, SInv, ReqOK
<1>5. /\ rep'[c] = IF prog[c] = "out" THEN rep[c] ELSE Cat(rep[c], Part(w, sent, n))
      /\ \A d \in Client : d # c => rep'[d] = rep[d]
      /\ Part(w, sent, n) \in Seq(Int) /\ Len(Part(w, sent, n)) = n
  <2>1. Part(w, sent, n) \in Seq(Int) /\ Len(Part(w, sent, n)) = n
    <3>1. PICK S : S = Int
      OBVIOUS
    <3>2. w \in Seq(S) /\ sent \in 0 .. Len(w) /\ sent + n <= Len(w)
      BY <3>1, <1>2
    <3> QED
      BY <3>1, <3>2, CatNext
  <2> QED
    BY <2>1, <1>2 DEF AInv, Flow, SocketsOK, Cat
<1>6. SocketsOK'
  <2>1. rep[c] \in Seq(Int) /\ Len(rep[c]) <= SockCap
    BY DEF AInv, Flow, SocketsOK
  <2>2. /\ Cat(rep[c], Part(w, sent, n)) \in Seq(Int)
        /\ Len(Cat(rep[c], Part(w, sent, n))) = Len(rep[c]) + n
    <3>1. PICK S : S = Int
      OBVIOUS
    <3>2. rep[c] \in Seq(S) /\ Part(w, sent, n) \in Seq(S)
      BY <3>1, <2>1, <1>5
    <3>3. /\ Cat(rep[c], Part(w, sent, n)) \in Seq(S)
          /\ Len(Cat(rep[c], Part(w, sent, n))) = Len(rep[c]) + Len(Part(w, sent, n))
      BY <3>2, CatType
    <3> QED
      BY <3>1, <3>3, <1>5
  <2>3. rep'[c] \in Seq(Int) /\ Len(rep'[c]) <= SockCap
    BY <2>1, <2>2, <1>2, <1>5
  <2>4. rep' = [d \in Client |-> rep'[d]]
    BY <1>2 DEF AInv, Flow, SocketsOK
  <2>5. rep' \in [Client -> Seq(Int)]
    BY <2>3, <2>4, <1>5 DEF AInv, Flow, SocketsOK
  <2> QED
    BY <2>3, <2>5, <1>2, <1>5 DEF AInv, Flow, SocketsOK
<1>7. ASSUME NEW d \in Client, d # c
      PROVE  ClientOK(d)' /\ MsgOK(d)' /\ Same(d)
  <2>1. Held(d)' <=> Held(d)
    BY <1>2 DEF Held
  <2>2. ClientOK(d)'
    BY <2>1, <1>2, <1>4, <1>5, <1>7, ClientStays
  <2>3. Unsent(d)' = Unsent(d)
    <3>1. \A u \in DOMAIN conn : sock[conn[u].fd] = d => u # o
      BY <1>7
    <3>2. \A u \in DOMAIN conn : sock'[conn'[u].fd] = sock[conn[u].fd]
      BY <1>2, <1>4
    <3> QED
      BY <3>1, <3>2, <1>4, UnsentStays DEF AInv
  <2>4. Msg(d)' = Msg(d)
    BY <2>3, <1>2, <1>5, <1>7 DEF Msg
  <2> QED
    BY <2>2, <2>4, <1>2, <1>4, <1>7, SameMsg, SameStep DEF AInv, Flow
<1>8. ClientOK(c)'
  <2>1. \A i \in DOMAIN backlog : backlog[i] # c
    BY <1>1 DEF AInv, SInv, ConnsExact
  <2>2. prog'[c] = prog[c] /\ req'[c] = NULL /\ UNCHANGED <<backlog, got>>
    BY <1>2, <1>4
  <2>3. prog[c] = "out" => Fresh(c)'
    BY <1>2 DEF AInv, Flow, ClientOK, Fresh
  <2> QED
    BY <2>1, <2>2, <2>3 DEF ClientOK
<1>9. Unsent(c)' = Rest(w, sent + n)
  <2>1. sock'[conn'[o].fd] = c
    BY <1>1, <1>2, <1>4
  <2>2. Unsent(c)' = Rest(r.wbuf, r.wbuf_sent)
    BY <2>1, <1>4, UnsentWillBe DEF UnsentExact
  <2>3. CASE sent + n = Len(w) /\ r.wbuf = <<>> /\ r.wbuf_sent = 0
    <3>1. Rest(<<>>, 0) = <<>> /\ Rest(w, Len(w)) = <<>>
      BY DEF Rest
    <3> QED
      BY <2>2, <2>3, <3>1
  <2> QED
    BY <2>2, <2>3, <1>3
<1>10. prog[c] # "out" => Msg(c)' = (got[c] \o rep[c]) \o Rest(w, sent)
  <2> SUFFICES ASSUME prog[c] # "out" PROVE Msg(c)' = (got[c] \o rep[c]) \o Rest(w, sent)
    OBVIOUS
  <2>1. PICK S, g, p : S = Int /\ g = got[c] /\ p = rep[c]
    OBVIOUS
  <2>2. /\ g \in Seq(S) /\ p \in Seq(S) /\ w \in Seq(S)
        /\ sent \in 0 .. Len(w) /\ sent + n <= Len(w)
    BY <1>2, <2>1, MsgTyped
  <2>3. Cat(Cat(g, Cat(p, Part(w, sent, n))), Rest(w, sent + n)) = Cat(Cat(g, p), Rest(w, sent))
    BY <2>2, TakeNext
  <2>4. Msg(c)' = Cat(Cat(g, Cat(p, Part(w, sent, n))), Rest(w, sent + n))
    BY <1>2, <1>5, <1>9, <2>1 DEF Msg, Cat
  <2> QED
    BY <2>1, <2>3, <2>4 DEF Cat
<1>11. \A u \in DOMAIN conn' : ConnOK(u)'
  <2>1. ASSUME NEW u \in DOMAIN conn, u # o PROVE ConnOK(u)'
    <3>1. /\ conn'[u] = conn[u] /\ ConnOK(u) /\ sock' = sock /\ prog' = prog
          /\ req'[sock[conn[u].fd]] = req[sock[conn[u].fd]]
      BY <2>1, <1>2, <1>4 DEF AInv, Flow
    <3> QED
      BY <3>1 DEF ConnOK
  <2>2. ConnOK(o)'
    <3>1. conn'[o] = r /\ sock'[fd] = c /\ prog'[c] # "connected"
      BY <1>1, <1>2, <1>4
    <3>2. req'[c] = NULL
      BY <1>4
    <3> QED
      BY ONLY <1>3, <3>1, <3>2 DEF ConnOK
  <2> QED
    BY <2>1, <2>2, <1>4
<1> QED
  BY <1>1, <1>2, <1>4, <1>6, <1>7, <1>8, <1>10, <1>11
-----------------------------------------------------------------------------
\* The commands of Service are those of the server.
LEMMA SameCommands ==
  ASSUME NEW cmd
  PROVE  Abs!do_request(cmd) <=> do_request(cmd)
  BY DEF do_request, Known, Is, do_keys, do_get, do_set, do_del, do_zadd, do_zrem,
         do_zscore, do_zquery, zset_add, ZSetAt, NoZSet, Sought, Listed, Listing,
         TupleLess, NameLess, Reply, data, With, Without, Moved, out_nil, out_str,
         out_int, out_dbl, out_err, out_arr, SER_NIL, SER_ERR, SER_STR, SER_INT,
         SER_DBL, SER_ARR, ERR_UNKNOWN, ERR_TYPE, ERR_ARG, FlattenSeq, SetToSeqs,
         Cardinality,
         Abs!do_request, Abs!Known, Abs!Is, Abs!do_keys, Abs!do_get, Abs!do_set,
         Abs!do_del, Abs!do_zadd, Abs!do_zrem, Abs!do_zscore, Abs!do_zquery,
         Abs!zset_add, Abs!ZSetAt, Abs!NoZSet, Abs!Sought, Abs!Listed, Abs!Listing,
         Abs!TupleLess, Abs!NameLess, Abs!Reply, Abs!data, Abs!With, Abs!Without,
         Abs!Moved, Abs!out_nil, Abs!out_str, Abs!out_int, Abs!out_dbl, Abs!out_err,
         Abs!out_arr, Abs!SER_NIL, Abs!SER_ERR, Abs!SER_STR, Abs!SER_INT,
         Abs!SER_DBL, Abs!SER_ARR, Abs!ERR_UNKNOWN, Abs!ERR_TYPE, Abs!ERR_ARG,
         Abs!FlattenSeq, Abs!SetToSeqs, Abs!Cardinality

LEMMA SameFitted ==
  ASSUME NEW reply
  PROVE  Abs!Fitted(reply) = Fitted(reply)
  BY DEF Fitted, out_err, SER_ERR, ERR_2BIG,
         Abs!Fitted, Abs!out_err, Abs!SER_ERR, Abs!ERR_2BIG

\* The rest of a reply goes out, or its connection is closed.
LEMMA ReplyFlow ==
  ASSUME AInv, SInv', NEW o \in DOMAIN conn, HandleReply(o)
  PROVE  Flow' /\ \A c \in Client : Same(c) \/ Lost(c)
<1>1. conn[o].state = "RES" /\ state_res(o, conn[o].wbuf)
  BY DEF HandleReply
<1>2. PICK w, c : w = conn[o].wbuf /\ c = sock[conn[o].fd]
  OBVIOUS
<1>3. /\ w \in Seq(Int) /\ c \in Client /\ conn[o].wbuf_sent \in Nat
      /\ conn[o].wbuf_sent < Len(w) /\ req[c] = NULL /\ prog[c] # "connected"
  BY <1>1, <1>2, OfConn DEF AInv, SInv, Flow, ConnOK
<1>4. conn[o].wbuf_sent <= Len(w)
  BY <1>3
<1>5. ASSUME NEW n \in Nat, Sends(o, w, n)
      PROVE  Flow' /\ \A d \in Client : Same(d) \/ Lost(d)
  <2>1. /\ SocketsOK' /\ \A u \in DOMAIN conn' : ConnOK(u)'
        /\ prog'[c] = prog[c] /\ req'[c] = NULL
        /\ \A d \in Client \ {c} : ClientOK(d)' /\ MsgOK(d)' /\ Same(d)
        /\ ClientOK(c)'
        /\ prog[c] # "out" => Msg(c)' = (got[c] \o rep[c]) \o Rest(w, conn[o].wbuf_sent)
    <3>1. /\ AInv /\ SInv' /\ o \in DOMAIN conn /\ w \in Seq(Int) /\ n \in Nat /\ Sends(o, w, n)
          /\ conn[o].wbuf_sent <= Len(w)
          /\ c \in Client /\ c = sock[conn[o].fd] /\ prog[c] # "connected"
      BY <1>2, <1>3, <1>4, <1>5
    <3>2. SocketsOK' /\ \A u \in DOMAIN conn' : ConnOK(u)'
      BY ONLY <3>1, SendFlow
    <3>3. prog'[c] = prog[c] /\ req'[c] = NULL
      BY ONLY <3>1, SendFlow
    <3>4. \A d \in Client \ {c} : ClientOK(d)' /\ MsgOK(d)' /\ Same(d)
      BY ONLY <3>1, SendFlow
    <3>5. ClientOK(c)'
      BY ONLY <3>1, SendFlow
    <3>6. prog[c] # "out" => Msg(c)' = (got[c] \o rep[c]) \o Rest(w, conn[o].wbuf_sent)
      BY ONLY <3>1, SendFlow
    <3> QED
      BY ONLY <3>2, <3>3, <3>4, <3>5, <3>6
  <2>2. CASE prog[c] = "out"
    <3>1. MsgOK(c)' /\ Lost(c)
      BY <2>1, <2>2, <1>3, OutLost DEF MsgOK
    <3> QED
      BY <2>1, <3>1 DEF Flow
  <2>3. CASE prog[c] # "out"
    <3>1. Unsent(c) = Rest(w, conn[o].wbuf_sent)
      BY <1>2, <1>3, UnsentIs DEF UnsentExact, AInv
    <3>2. Msg(c)' = Msg(c)
      BY <2>1, <2>3, <3>1 DEF Msg
    <3>3. MsgOK(c)' /\ Same(c)
      BY <2>1, <3>2, <1>3, SameMsg, SameStep DEF AInv, Flow
    <3> QED
      BY <2>1, <3>3 DEF Flow
  <2> QED
    BY <2>2, <2>3
<1>6. \/ \E n \in Nat : Sends(o, w, n)
      \/ UNCHANGED <<prog, rep, got>> /\ ((conn_done(o) /\ UNCHANGED backlog) \/ die)
  BY <1>1, <1>2, <1>3, <1>4, StateResSplit
<1> QED
  BY <1>5, <1>6, DoneFlow, DieFlow

\* A request takes effect, and its reply goes to its client or to nobody.
LEMMA RequestFlow ==
  ASSUME AInv, SInv', NEW o \in DOMAIN conn, HandleRequest(o)
  PROVE  Flow' /\ Abs!Next
<1>0. PICK c \in Client : c = sock[conn[o].fd]
  BY OfConn DEF AInv, SInv
<1>1. PICK w : c = sock[conn[o].fd] /\ w = Framed(Fitted(out'))
  BY <1>0
<1>2. conn[o].state = "REQ" /\ req[c] # NULL /\ do_request(req[c]) /\ state_res(o, w)
  BY <1>1 DEF HandleRequest
<1>3. conn[o].wbuf_sent = 0 /\ prog[c] \in {"out", "waiting"} /\ Fresh(c)
  BY <1>2 DEF AInv, Flow, SocketsOK, ConnOK, ClientOK
<1>4. Fitted(out') \in Cells /\ w \in Cells
      /\ Len(w) = Len(Fitted(out')) + 1 /\ w[1] = Len(Fitted(out')) /\ Tail(w) = Fitted(out')
  <2>1. req[c] \in Command
    BY <1>2, RequestIsCommand DEF AInv, SInv
  <2>2. out' \in Cells
    BY <1>2, <2>1, RequestCells DEF AInv, SInv, OutOK
  <2> QED
    BY <1>1, <2>2, MessageCells
<1>5. w \in Seq(Int) /\ conn[o].wbuf_sent <= Len(w)
  BY <1>3, <1>4 DEF Cells
<1>6. Abs!do_request(req[c])
  BY <1>2, SameCommands
<1>7. ASSUME NEW n \in Nat, Sends(o, w, n)
      PROVE  Flow' /\ Abs!Next
  <2>1. /\ SocketsOK' /\ \A u \in DOMAIN conn' : ConnOK(u)'
        /\ \A d \in Client : prog'[d] = prog[d] /\ req'[d] = IF d = c THEN NULL ELSE req[d]
        /\ \A d \in Client \ {c} : ClientOK(d)' /\ MsgOK(d)' /\ Same(d)
        /\ ClientOK(c)'
        /\ prog[c] # "out" => Msg(c)' = (got[c] \o rep[c]) \o Rest(w, 0)
    <3>1. /\ AInv /\ SInv' /\ o \in DOMAIN conn /\ w \in Seq(Int) /\ n \in Nat /\ Sends(o, w, n)
          /\ conn[o].wbuf_sent <= Len(w)
          /\ c \in Client /\ c = sock[conn[o].fd] /\ prog[c] # "connected"
      BY <1>1, <1>3, <1>5, <1>7
    <3>2. SocketsOK' /\ \A u \in DOMAIN conn' : ConnOK(u)'
      BY ONLY <3>1, SendFlow
    <3>3. \A d \in Client : prog'[d] = prog[d] /\ req'[d] = IF d = c THEN NULL ELSE req[d]
      BY ONLY <3>1, SendFlow
    <3>4. \A d \in Client \ {c} : ClientOK(d)' /\ MsgOK(d)' /\ Same(d)
      BY ONLY <3>1, SendFlow
    <3>5. ClientOK(c)'
      BY ONLY <3>1, SendFlow
    <3>6. prog[c] # "out" => Msg(c)' = (got[c] \o rep[c]) \o Rest(w, conn[o].wbuf_sent)
      BY ONLY <3>1, SendFlow
    <3>7. conn[o].wbuf_sent = 0
      BY <1>3
    <3> QED
      BY ONLY <3>2, <3>3, <3>4, <3>5, <3>6, <3>7
  <2>2. answers[c] = <<>>
    BY <1>2, MsgTyped, AnswersAre DEF AnswersExact
  <2>3. req' = [req EXCEPT ![c] = NULL]
    BY <2>1 DEF AInv, SInv, ReqOK
  <2>4. CASE prog[c] = "out"
    <3>1. MsgOK(c)' /\ answers'[c] = <<>> /\ phases[c] = "orphan" /\ phases'[c] = "idle"
      BY <1>2, <2>1, <2>4, AnswersAre, AnswersWillBe DEF MsgOK, AnswersExact
    <3>2. answers' = answers /\ phases' = [phases EXCEPT ![c] = "idle"]
      BY <2>1, <2>2, <3>1, OnlyOne
    <3>3. Abs!Effect(c)
      BY <1>2, <1>6, <2>3, <3>1, <3>2 DEF Abs!Effect, answers, phases
    <3> QED
      BY <2>1, <3>1, <3>3 DEF Flow, Abs!Next
  <2>5. CASE prog[c] = "waiting"
    <3>1. Msg(c)' = w
      <4>1. got[c] \o rep[c] = <<>>
        BY <1>3, MsgTyped
      <4>2. Rest(w, 0) = w /\ <<>> \o w = w
        BY <1>5, ConcatEmptySeq DEF Rest
      <4> QED
        BY <2>1, <2>5, <4>1, <4>2
    <3>2. w # <<>> /\ Fitted(out') # <<>> /\ w[1] >= 1 /\ Len(w) <= w[1] + 1 /\ Len(w) = w[1] + 1
      BY <1>4 DEF Cells
    <3>3. MsgOK(c)'
      BY <3>1, <3>2 DEF MsgOK
    <3>4. answers'[c] = Fitted(out') /\ phases[c] = "called" /\ phases'[c] = "effected"
      BY <1>2, <1>4, <2>1, <2>5, <3>1, <3>2, AnswersAre, AnswersWillBe DEF AnswersExact
    <3>5. /\ answers' = [answers EXCEPT ![c] = Fitted(out')]
          /\ phases' = [phases EXCEPT ![c] = "effected"]
      BY <2>1, <3>4, OnlyOne
    <3>6. Abs!Effect(c)
      BY <1>2, <1>6, <2>3, <3>4, <3>5, SameFitted DEF Abs!Effect, answers, phases
    <3> QED
      BY <2>1, <3>3, <3>6 DEF Flow, Abs!Next
  <2> QED
    BY <1>3, <2>4, <2>5
<1>8. ASSUME prog[c] = "out", UNCHANGED <<prog, rep, got>>,
             (conn_done(o) /\ UNCHANGED backlog) \/ die
      PROVE  Flow' /\ Abs!Next
  <2>1. Flow' /\ \A d \in Client : Same(d) \/ Lost(d)
    BY <1>8, DoneFlow, DieFlow
  <2>2. Lost(c)
    <3>1. req'[c] = NULL
      BY <1>1, <1>8 DEF conn_done, die, AInv, SInv, ReqOK
    <3> QED
      BY <1>8, <3>1, OutLost
  <2> DEFINE S == Losers
  <2>3. S \in SUBSET Client /\ c \in S /\ Abs!End(S)
    <3>1. Abs!End(Losers)
      BY <2>1, EndStep DEF AInv
    <3> QED
      BY <2>2, <3>1 DEF Losers
  <2> HIDE DEF S
  <2>4. \E T \in SUBSET Client : c \in T /\ Abs!End(T)
    BY <2>3 DEF Abs!End
  <2>5. Abs!Broken(c)
    BY <1>2, <1>6, <2>4 DEF Abs!Broken
  <2> QED
    BY <2>1, <2>5 DEF Abs!Next
<1>9. \/ \E n \in Nat : Sends(o, w, n)
      \/ /\ prog[c] = "out" /\ UNCHANGED <<prog, rep, got>>
         /\ (conn_done(o) /\ UNCHANGED backlog) \/ die
  BY <1>1, <1>2, <1>5, StateResSplit
<1> QED
  BY <1>7, <1>8, <1>9
-----------------------------------------------------------------------------
\* The others still wait when the first has been taken from the queue.
LEMMA StillHeld ==
  ASSUME SInv, Accepted, NEW c \in Client
  PROVE  /\ Head(backlog) \in Client /\ \E i \in DOMAIN backlog : backlog[i] = Head(backlog)
         /\ \A i \in DOMAIN backlog' : backlog'[i] = c => \E j \in DOMAIN backlog : backlog[j] = c
         /\ c # Head(backlog) /\ Held(c) =>
              (\E i \in DOMAIN backlog' : backlog'[i] = c) \/ \E fd \in Fd : sock[fd] = c
<1>1. backlog # <<>> /\ backlog \in Seq(Client) /\ backlog' = Tail(backlog)
  BY DEF Accepted, SInv, LoopOK, QueueOK
<1>2. /\ Len(backlog) \in Nat \ {0} /\ Head(backlog) = backlog[1] /\ backlog[1] \in Client
      /\ DOMAIN backlog = 1 .. Len(backlog) /\ DOMAIN backlog' = 1 .. Len(backlog) - 1
      /\ \A i \in 1 .. Len(backlog) - 1 : backlog'[i] = backlog[i + 1]
  BY <1>1
<1>3. \E i \in DOMAIN backlog : backlog[i] = Head(backlog)
  <2>1. 1 \in DOMAIN backlog
    BY <1>2
  <2> QED
    BY <2>1, <1>2
<1>4. ASSUME NEW i \in DOMAIN backlog', backlog'[i] = c
      PROVE  \E j \in DOMAIN backlog : backlog[j] = c
  <2>1. i + 1 \in DOMAIN backlog /\ backlog[i + 1] = c
    BY <1>2, <1>4
  <2> QED
    BY <2>1
<1>5. ASSUME NEW j \in DOMAIN backlog, backlog[j] = c, c # Head(backlog)
      PROVE  \E i \in DOMAIN backlog' : backlog'[i] = c
  <2>1. j - 1 \in DOMAIN backlog' /\ (j - 1) + 1 = j
    BY <1>2, <1>5
  <2>2. backlog'[j - 1] = c
    BY <2>1, <1>2, <1>5
  <2> QED
    BY <2>1, <2>2
<1> QED
  BY <1>2, <1>3, <1>4, <1>5 DEF Held

\* A client is accepted: nothing has been sent to it, and nothing is.
LEMMA AcceptFlow ==
  ASSUME AInv, SInv', Accept
  PROVE  Flow' /\ \A c \in Client : Same(c)
<1>1. Accepted /\ UNCHANGED <<prog, rep, got, req>>
  BY DEF Accept, Accepted
<1>2. PICK first : first = Head(backlog)
  OBVIOUS
<1>3. PICK fd \in Fd, o \in Conn \ DOMAIN conn, m \in Memory :
        /\ LowestFree(fd)
        /\ sock' = [sock EXCEPT ![fd] = first]
        /\ conn' = With(conn, o, [m EXCEPT !.fd = fd, !.state = "REQ",
                                           !.wbuf = <<>>, !.wbuf_sent = 0])
  BY <1>2 DEF Accept
<1>4. PICK r : r = [m EXCEPT !.fd = fd, !.state = "REQ", !.wbuf = <<>>, !.wbuf_sent = 0]
  OBVIOUS
<1>5. /\ r \in [fd : Fd, state : {"REQ", "RES"}, wbuf : Seq(Int), wbuf_sent : Nat]
      /\ r.fd = fd /\ r.state = "REQ" /\ r.wbuf = <<>> /\ r.wbuf_sent = 0
  <2>1. <<>> \in Seq(Int)
    OBVIOUS
  <2> QED
    BY <2>1, <1>4 DEF Memory
<1>6. DOMAIN conn' = DOMAIN conn \cup {o} /\ conn'[o] = r
      /\ \A u \in DOMAIN conn : conn'[u] = conn[u]
  BY <1>3, <1>4 DEF With
<1>7. first \in Client /\ first # NULL /\ sock[fd] = NULL /\ \A e \in Fd : sock[e] # first
  BY <1>1, <1>2, <1>3, TakeFirst, ServerAssumption DEF AInv, LowestFree
<1>8. \A e \in Fd : sock'[e] = IF e = fd THEN first ELSE sock[e]
  BY <1>3 DEF AInv, SInv, TableOK
<1>9. \A u \in DOMAIN conn :
        conn[u].fd \in Fd /\ conn[u].fd # fd /\ sock[conn[u].fd] \in Client
        /\ sock'[conn'[u].fd] = sock[conn[u].fd]
  BY <1>6, <1>7, <1>8, OfConn, ServerAssumption DEF AInv, SInv
<1>10. ASSUME NEW c \in Client
       PROVE  ClientOK(c)' /\ MsgOK(c)' /\ Same(c)
  <2>1. Held(c) => Held(c)'
    <3>1. CASE c = first
      BY <3>1, <1>8 DEF Held
    <3>2. CASE c # first
      <4>1. \A e \in Fd : sock[e] = c => sock'[e] = c
        BY <1>7, <1>8, ServerAssumption
      <4> QED
        BY <4>1, <3>2, <1>1, <1>2, StillHeld DEF Held, AInv
    <3> QED
      BY <3>1, <3>2
  <2>2. ClientOK(c)'
    BY <2>1, <1>1, StillHeld, ClientStays DEF AInv
  <2>3. Unsent(c)' = Unsent(c)
    <3>1. CASE c = first
      <4>1. NoConn(c)
        BY <3>1, <1>7, <1>9 DEF NoConn
      <4>2. Unsent(c) = <<>>
        BY <4>1, UnsentIs DEF UnsentExact, AInv
      <4>3. Unsent(c)' = Rest(r.wbuf, r.wbuf_sent)
        BY <3>1, <1>5, <1>6, <1>8, UnsentWillBe DEF UnsentExact
      <4> QED
        BY <4>2, <4>3, <1>5 DEF Rest
    <3>2. CASE c # first
      <4>1. \A u \in DOMAIN conn' : sock'[conn'[u].fd] = c => u \in DOMAIN conn
        BY <3>2, <1>5, <1>6, <1>8
      <4> QED
        BY <4>1, <1>6, <1>9, UnsentStays DEF AInv
    <3> QED
      BY <3>1, <3>2
  <2>4. Msg(c)' = Msg(c)
    BY <2>3, <1>1 DEF Msg
  <2> QED
    BY <2>2, <2>4, <1>1, SameMsg, SameStep DEF AInv, Flow
<1>11. \A u \in DOMAIN conn' : ConnOK(u)'
  <2>1. ConnOK(o)'
    BY <1>5, <1>6 DEF ConnOK
  <2>2. ASSUME NEW u \in DOMAIN conn PROVE ConnOK(u)'
    <3>1. ConnOK(u) /\ conn'[u] = conn[u] /\ sock'[conn'[u].fd] = sock[conn[u].fd]
      BY <1>6, <1>9 DEF AInv, Flow
    <3> QED
      BY <3>1, <1>1 DEF ConnOK
  <2> QED
    BY <2>1, <2>2, <1>6
<1>12. SocketsOK'
  BY <1>1 DEF AInv, Flow, SocketsOK
<1> QED
  BY <1>10, <1>11, <1>12 DEF Flow

\* A client that waits for accept has been sent nothing.
LEMMA WaitingMsg ==
  ASSUME AInv, NEW c \in Client, NEW i \in DOMAIN backlog, backlog[i] = c
  PROVE  Msg(c) = <<>>
<1>1. Fresh(c)
  BY DEF AInv, Flow, ClientOK
<1>2. NoConn(c)
  BY OfConn DEF NoConn, AInv, SInv, ConnsExact
<1>3. Unsent(c) = <<>>
  BY <1>2, UnsentIs DEF UnsentExact, AInv
<1> QED
  BY <1>1, <1>3, MsgTyped

LEMMA NoMemoryFlow ==
  ASSUME AInv, SInv', AcceptNoMemory
  PROVE  Flow' /\ \A c \in Client : Same(c) \/ Lost(c)
<1>1. PICK first : first = Head(backlog)
  OBVIOUS
<1>2. /\ Accepted /\ UNCHANGED <<prog, rep, got, sock, conn>>
      /\ req' = [req EXCEPT ![first] = NULL]
  BY <1>1 DEF AcceptNoMemory, Accepted, table
<1>3. first \in Client /\ \E i \in DOMAIN backlog : backlog[i] = first
  <2>1. first \in Client
    BY <1>1, <1>2, TakeFirst DEF AInv
  <2> QED
    BY <2>1, <1>1, <1>2, StillHeld DEF AInv
<1>4. \A c \in Client : req'[c] = IF c = first THEN NULL ELSE req[c]
  BY <1>2 DEF AInv, SInv, ReqOK
<1>5. ASSUME NEW c \in Client
      PROVE  ClientOK(c)' /\ MsgOK(c)' /\ (Same(c) \/ Lost(c))
  <2>1. c # first /\ Held(c) => Held(c)'
    BY <1>1, <1>2, StillHeld DEF Held, AInv
  <2>2. ClientOK(c)'
    BY <2>1, <1>2, <1>4, StillHeld, ClientStays DEF AInv
  <2>3. Unsent(c)' = Unsent(c)
    BY <1>2, UnsentStays DEF AInv
  <2>4. Msg(c)' = Msg(c)
    BY <2>3, <1>2 DEF Msg
  <2>5. MsgOK(c)'
    BY <2>4, <1>2, SameMsg DEF AInv, Flow
  <2>6. c # first => Same(c)
    BY <2>4, <1>2, <1>4, SameStep
  <2>7. c = first => Lost(c)
    <3>1. c = first => Msg(c)' = <<>>
      BY <2>4, <1>3, WaitingMsg
    <3> QED
      BY <3>1, <1>4, AnswersWillBe DEF Lost, AnswersExact
  <2> QED
    BY <2>2, <2>5, <2>6, <2>7
<1>6. \A u \in DOMAIN conn' : ConnOK(u)'
  <2>1. ASSUME NEW u \in DOMAIN conn PROVE ConnOK(u)'
    <3>1. ConnOK(u) /\ sock[conn[u].fd] \in Client
      BY OfConn DEF AInv, Flow, SInv
    <3>2. req[sock[conn[u].fd]] = NULL => req'[sock[conn[u].fd]] = NULL
      BY <3>1, <1>4
    <3> QED
      BY <3>1, <3>2, <1>2 DEF ConnOK
  <2> QED
    BY <2>1, <1>2
<1>7. SocketsOK'
  BY <1>2 DEF AInv, Flow, SocketsOK
<1> QED
  BY <1>5, <1>6, <1>7 DEF Flow
-----------------------------------------------------------------------------
\* A step of one client, or of one that connects, as the others see it.
LEMMA OtherClients ==
  ASSUME AInv, SInv', NEW c \in Client, UNCHANGED <<sock, conn>>,
         UNCHANGED backlog \/ backlog' = Append(backlog, c),
         \A d \in Client \ {c} : /\ prog'[d] = prog[d] /\ req'[d] = req[d]
                                 /\ rep'[d] = rep[d] /\ got'[d] = got[d]
  PROVE  /\ \A d \in Client \ {c} : ClientOK(d)' /\ MsgOK(d)' /\ Same(d)
         /\ Unsent(c)' = Unsent(c)
         /\ Held(c) => Held(c)'
<1>1. \A d \in Client : Unsent(d)' = Unsent(d)
  <2>1. ASSUME NEW d \in Client PROVE Unsent(d)' = Unsent(d)
    BY UnsentStays DEF AInv
  <2> QED
    BY <2>1
<1>2. ASSUME NEW d \in Client
      PROVE  /\ \A i \in DOMAIN backlog : i \in DOMAIN backlog' /\ backlog'[i] = backlog[i]
             /\ \A i \in DOMAIN backlog' :
                  backlog'[i] = d => d = c \/ \E j \in DOMAIN backlog : backlog[j] = d
             /\ Held(d) => Held(d)'
  <2>1. backlog \in Seq(Client)
    BY DEF AInv, SInv, QueueOK
  <2>2. \A i \in DOMAIN backlog : i \in DOMAIN backlog' /\ backlog'[i] = backlog[i]
    BY <2>1
  <2>3. \A i \in DOMAIN backlog' :
          backlog'[i] = d => d = c \/ \E j \in DOMAIN backlog : backlog[j] = d
    BY <2>1
  <2> QED
    BY <2>2, <2>3 DEF Held
<1>3. ASSUME NEW d \in Client \ {c}
      PROVE  ClientOK(d)' /\ MsgOK(d)' /\ Same(d)
  <2>1. ClientOK(d)'
    BY <1>2, ClientStays
  <2>2. Msg(d)' = Msg(d)
    BY <1>1 DEF Msg
  <2> QED
    BY <2>1, <2>2, SameMsg, SameStep DEF AInv, Flow
<1> QED
  BY <1>1, <1>2, <1>3

LEMMA ConnectFlow ==
  ASSUME AInv, SInv', NEW c \in Client, Connect(c)
  PROVE  Flow' /\ \A d \in Client : Same(d)
<1>1. /\ prog[c] = "out" /\ ~ Held(c) /\ prog' = [prog EXCEPT ![c] = "connected"]
      /\ backlog' = Append(backlog, c) /\ UNCHANGED <<req, rep, got, sock, conn>>
  BY DEF Connect, table
<1>2. /\ prog'[c] = "connected" /\ \A d \in Client \ {c} : prog'[d] = prog[d]
      /\ SocketsOK'
  BY <1>1 DEF AInv, Flow, SocketsOK
<1>3. /\ \A d \in Client \ {c} : ClientOK(d)' /\ MsgOK(d)' /\ Same(d)
      /\ Unsent(c)' = Unsent(c)
  BY <1>1, <1>2, OtherClients
<1>4. Fresh(c) /\ req[c] = NULL
  BY <1>1 DEF AInv, Flow, ClientOK
<1>5. NoConn(c)
  BY <1>1, OfConn DEF NoConn, Held, AInv, SInv
<1>6. Unsent(c) = <<>>
  BY <1>5, UnsentIs DEF UnsentExact, AInv
<1>7. Msg(c) = <<>> /\ Msg(c)' = <<>>
  <2>1. Msg(c) = <<>>
    BY <1>4, <1>6, MsgTyped
  <2> QED
    BY <2>1, <1>1, <1>3 DEF Msg
<1>8. ClientOK(c)' /\ MsgOK(c)'
  BY <1>1, <1>2, <1>4, <1>7 DEF ClientOK, MsgOK, Fresh
<1>9. Same(c)
  BY <1>1, <1>4, <1>7, AnswersAre, AnswersWillBe DEF Same, AnswersExact
<1>10. \A u \in DOMAIN conn' : ConnOK(u)'
  <2>1. ASSUME NEW u \in DOMAIN conn PROVE ConnOK(u)'
    <3>1. ConnOK(u) /\ sock[conn[u].fd] \in Client /\ sock[conn[u].fd] # c
      BY <1>5, OfConn DEF NoConn, AInv, Flow, SInv
    <3>2. prog'[sock[conn[u].fd]] = prog[sock[conn[u].fd]]
      BY <3>1, <1>2
    <3> QED
      BY <3>1, <3>2, <1>1 DEF ConnOK
  <2> QED
    BY <2>1, <1>1
<1> QED
  BY <1>2, <1>3, <1>8, <1>9, <1>10 DEF Flow

\* A request is called.
LEMMA SendReqFlow ==
  ASSUME AInv, SInv', NEW c \in Client, ClientSend(c)
  PROVE  Flow' /\ Abs!Next
<1>1. PICK x \in Request : req' = [req EXCEPT ![c] = x]
  BY DEF ClientSend
<1>2. /\ prog[c] = "connected" /\ Held(c) /\ prog' = [prog EXCEPT ![c] = "waiting"]
      /\ UNCHANGED <<rep, got, backlog, sock, conn>> /\ Quiet
  BY DEF ClientSend, table
<1>3. /\ prog'[c] = "waiting" /\ req'[c] = x /\ x # NULL
      /\ \A d \in Client \ {c} : prog'[d] = prog[d] /\ req'[d] = req[d]
  BY <1>1, <1>2, ServerAssumption DEF AInv, Flow, SocketsOK, SInv, ReqOK
<1>4. /\ \A d \in Client \ {c} : ClientOK(d)' /\ MsgOK(d)' /\ Same(d)
      /\ Unsent(c)' = Unsent(c) /\ Held(c)'
  BY <1>2, <1>3, OtherClients
<1>5. Fresh(c) /\ req[c] = NULL
  BY <1>2 DEF AInv, Flow, ClientOK
<1>6. Msg(c) = <<>> /\ Msg(c)' = <<>>
  <2>1. Msg(c) = <<>>
    BY <1>2, MsgTyped
  <2> QED
    BY <2>1, <1>2, <1>4 DEF Msg
<1>7. ClientOK(c)' /\ MsgOK(c)' /\ SocketsOK'
  <2>1. ClientOK(c)' /\ MsgOK(c)'
    BY <1>2, <1>3, <1>4, <1>5, <1>6 DEF ClientOK, MsgOK, Fresh
  <2> QED
    BY <2>1, <1>2 DEF AInv, Flow, SocketsOK
<1>8. \A u \in DOMAIN conn' : ConnOK(u)'
  <2>1. ASSUME NEW u \in DOMAIN conn PROVE ConnOK(u)'
    <3>1. ConnOK(u) /\ sock[conn[u].fd] \in Client
      BY OfConn DEF AInv, Flow, SInv
    <3>2. CASE sock[conn[u].fd] = c
      BY <3>1, <3>2, <1>2 DEF ConnOK
    <3>3. CASE sock[conn[u].fd] # c
      BY <3>1, <3>3, <1>2, <1>3 DEF ConnOK
    <3> QED
      BY <3>2, <3>3
  <2> QED
    BY <2>1, <1>2
<1>9. /\ phases[c] = "idle" /\ phases'[c] = "called" /\ answers'[c] = answers[c]
  BY <1>3, <1>5, <1>6, AnswersAre, AnswersWillBe DEF AnswersExact
<1>10. answers' = answers /\ phases' = [phases EXCEPT ![c] = "called"]
  BY <1>4, <1>9, OnlyOne
<1>11. Abs!Quiet
  BY <1>2 DEF Quiet, Abs!Quiet, data, Abs!data
<1>12. Abs!Call(c, x)
  BY <1>1, <1>9, <1>10, <1>11 DEF Abs!Call, answers, phases
<1> QED
  BY <1>4, <1>7, <1>8, <1>12 DEF Flow, Abs!Next

\* A part of a message is read, or the last of it.
LEMMA ReadFlow ==
  ASSUME AInv, SInv', NEW c \in Client, ClientRead(c)
  PROVE  Flow' /\ Abs!Next
<1>1. /\ prog[c] = "waiting" /\ rep[c] # <<>>
      /\ got' = [got EXCEPT ![c] = got[c] \o rep[c]] /\ rep' = [rep EXCEPT ![c] = <<>>]
      /\ prog' = [prog EXCEPT ![c] = IF Len(got'[c]) > got'[c][1] THEN "answered" ELSE "waiting"]
      /\ UNCHANGED <<req, backlog, sock, conn>> /\ Quiet
  BY DEF ClientRead, table
<1>2. PICK g \in Seq(Int) : g = got[c] \o rep[c]
  BY MsgTyped
<1>3. /\ got'[c] = g /\ rep'[c] = <<>>
      /\ prog'[c] = IF Len(g) > g[1] THEN "answered" ELSE "waiting"
      /\ \A d \in Client \ {c} : prog'[d] = prog[d] /\ rep'[d] = rep[d] /\ got'[d] = got[d]
  BY <1>1, <1>2 DEF AInv, Flow, SocketsOK
<1>4. SocketsOK'
  <2>1. prog' \in [Client -> {"out", "connected", "waiting", "answered"}]
    BY <1>1 DEF AInv, Flow, SocketsOK
  <2>2. <<>> \in Seq(Int) /\ Len(<<>>) <= SockCap
    BY ServerAssumption
  <2>3. rep' \in [Client -> Seq(Int)] /\ got' \in [Client -> Seq(Int)]
    BY <2>2, <1>1, <1>2 DEF AInv, Flow, SocketsOK
  <2> QED
    BY <2>1, <2>2, <2>3, <1>3 DEF AInv, Flow, SocketsOK
<1>5. /\ \A d \in Client \ {c} : ClientOK(d)' /\ MsgOK(d)' /\ Same(d)
      /\ Unsent(c)' = Unsent(c) /\ (Held(c) => Held(c)')
  BY <1>1, <1>3, OtherClients
<1>6. Msg(c)' = Msg(c) /\ Msg(c) = g \o Unsent(c)
  <2>1. Msg(c) = g \o Unsent(c)
    BY <1>2 DEF Msg
  <2>2. g \o <<>> = g
    BY ConcatEmptySeq
  <2>3. Msg(c)' = (g \o <<>>) \o Unsent(c)
    BY <1>3, <1>5 DEF Msg
  <2> QED
    BY <2>1, <2>2, <2>3
<1>7. req[c] = NULL /\ \A i \in DOMAIN backlog : backlog[i] # c
  BY <1>1 DEF AInv, Flow, ClientOK, Fresh
<1>8. ClientOK(c)' /\ MsgOK(c)'
  <2>1. ClientOK(c)'
    BY <1>1, <1>3, <1>7 DEF ClientOK
  <2>2. MsgOK(c)
    BY DEF AInv, Flow
  <2>3. MsgOK(c)'
    BY <2>2, <1>1, <1>6 DEF MsgOK
  <2> QED
    BY <2>1, <2>3
<1>9. \A u \in DOMAIN conn' : ConnOK(u)'
  <2>1. ASSUME NEW u \in DOMAIN conn PROVE ConnOK(u)'
    <3>1. ConnOK(u) /\ sock[conn[u].fd] \in Client
      BY OfConn DEF AInv, Flow, SInv
    <3>2. prog'[sock[conn[u].fd]] # "connected" \/ prog'[sock[conn[u].fd]] = prog[sock[conn[u].fd]]
      BY <3>1, <1>3
    <3> QED
      BY <3>1, <3>2, <1>1 DEF ConnOK
  <2> QED
    BY <2>1, <1>1
<1>10. Flow'
  BY <1>4, <1>5, <1>8, <1>9 DEF Flow
<1>11. CASE Len(g) > g[1]
  <2>1. PICK u \in Seq(Int) : u = Unsent(c)
    BY UnsentTyped
  <2>2. g # <<>> /\ g[1] \in Int
    <3>1. Len(rep[c]) \in Nat \ {0} /\ Len(got[c]) \in Nat /\ Len(g) = Len(got[c]) + Len(rep[c])
      <4>1. got[c] \in Seq(Int) /\ rep[c] \in Seq(Int)
        BY MsgTyped
      <4>2. PICK a, b : a = got[c] /\ b = rep[c]
        OBVIOUS
      <4>3. Len(a \o b) = Len(a) + Len(b) /\ Len(b) \in Nat \ {0} /\ Len(a) \in Nat
        BY <4>1, <4>2, <1>1
      <4> QED
        BY <4>2, <4>3, <1>2
    <3>2. Len(g) \in Nat \ {0}
      <4>1. PICK x \in Nat, y \in Nat \ {0} : Len(g) = x + y
        BY <3>1
      <4>2. x + y \in Nat \ {0}
        OBVIOUS
      <4> QED
        BY <4>1, <4>2
    <3>3. \A h \in Seq(Int) : Len(h) \in Nat \ {0} => h # <<>> /\ h[1] \in Int
      OBVIOUS
    <3> QED
      BY <3>2, <3>3
  <2>3. Msg(c) # <<>> /\ Msg(c)[1] = g[1] /\ Len(g) <= Len(Msg(c)) /\ Msg(c) \in Seq(Int)
    <3>1. Len(g \o u) = Len(g) + Len(u) /\ g \o u # <<>> /\ (g \o u)[1] = g[1] /\ g \o u \in Seq(Int)
      BY <2>2, FrontOf
    <3> QED
      BY <3>1, <2>1, <1>6
  <2>4. g[1] >= 1 /\ Len(Msg(c)) <= g[1] + 1
    BY <2>3, <1>1 DEF AInv, Flow, MsgOK
  <2>5. Len(Msg(c)) = g[1] + 1 /\ Tail(Msg(c)) # <<>>
    BY <2>2, <2>3, <2>4, <1>11
  <2>6. prog'[c] = "answered" /\ req'[c] = NULL
    BY <1>1, <1>3, <1>7, <1>11
  <2>7. /\ phases[c] = "effected" /\ phases'[c] = "answered" /\ answers'[c] = answers[c]
    BY <2>3, <2>5, <2>6, <1>1, <1>6, <1>7, AnswersAre, AnswersWillBe DEF AnswersExact
  <2>8. answers' = answers /\ phases' = [phases EXCEPT ![c] = "answered"]
    BY <2>7, <1>5, OnlyOne
  <2>9. Abs!Quiet
    BY <1>1 DEF Quiet, Abs!Quiet, data, Abs!data
  <2>10. Abs!Deliver(c)
    BY <2>7, <2>8, <2>9, <1>1 DEF Abs!Deliver, answers, phases
  <2> QED
    BY <2>10, <1>10 DEF Abs!Next
<1>12. CASE ~ (Len(g) > g[1])
  <2>1. Same(c)
    BY <1>1, <1>3, <1>6, <1>12, SameStep
  <2>2. \A d \in Client : Same(d) \/ Lost(d)
    BY <2>1, <1>5
  <2> QED
    BY <2>2, <1>1, <1>10, QuietStep DEF AInv
<1> QED
  BY <1>11, <1>12

\* A client ends; its request does not.
LEMMA GoneFlow ==
  ASSUME AInv, SInv', NEW c \in Client, ClientExit(c) \/ ClientLeave(c)
  PROVE  Flow' /\ Abs!Next
<1>1. /\ prog[c] # "out" /\ prog' = [prog EXCEPT ![c] = "out"]
      /\ rep' = [rep EXCEPT ![c] = <<>>] /\ got' = [got EXCEPT ![c] = <<>>]
      /\ UNCHANGED <<req, backlog, sock, conn>> /\ Quiet
  BY DEF ClientExit, ClientLeave, Gone, table
<1>2. /\ prog'[c] = "out" /\ got'[c] = <<>> /\ rep'[c] = <<>>
      /\ \A d \in Client \ {c} : prog'[d] = prog[d] /\ rep'[d] = rep[d] /\ got'[d] = got[d]
  BY <1>1 DEF AInv, Flow, SocketsOK
<1>3. SocketsOK'
  <2>1. <<>> \in Seq(Int) /\ Len(<<>>) <= SockCap
    BY ServerAssumption
  <2> QED
    BY <2>1, <1>1, <1>2 DEF AInv, Flow, SocketsOK
<1>4. /\ \A d \in Client \ {c} : ClientOK(d)' /\ MsgOK(d)' /\ Same(d)
      /\ (Held(c) => Held(c)')
  BY <1>1, <1>2, OtherClients
<1>5. ClientOK(c)' /\ MsgOK(c)'
  <2>1. ~ Held(c) => req[c] = NULL
    BY DEF AInv, Flow, ClientOK
  <2> QED
    BY <2>1, <1>1, <1>2, <1>4 DEF ClientOK, MsgOK, Fresh
<1>6. \A u \in DOMAIN conn' : ConnOK(u)'
  <2>1. ASSUME NEW u \in DOMAIN conn PROVE ConnOK(u)'
    <3>1. ConnOK(u) /\ sock[conn[u].fd] \in Client
      BY OfConn DEF AInv, Flow, SInv
    <3>2. prog'[sock[conn[u].fd]] # "connected" \/ prog'[sock[conn[u].fd]] = prog[sock[conn[u].fd]]
      BY <3>1, <1>2
    <3> QED
      BY <3>1, <3>2, <1>1 DEF ConnOK
  <2> QED
    BY <2>1, <1>1
<1>7. Flow'
  BY <1>3, <1>4, <1>5, <1>6 DEF Flow
<1>8. CASE req[c] = NULL
  <2>1. Lost(c)
    BY <1>1, <1>2, <1>8, OutLost
  <2>2. \A d \in Client : Same(d) \/ Lost(d)
    BY <2>1, <1>4
  <2> QED
    BY <2>2, <1>1, <1>7, QuietStep DEF AInv
<1>9. CASE req[c] # NULL
  <2>1. Msg(c) = <<>>
    BY <1>9, MsgTyped
  <2>2. /\ phases[c] = "called" /\ phases'[c] = "orphan" /\ answers'[c] = answers[c]
    BY <2>1, <1>1, <1>2, <1>9, AnswersAre, AnswersWillBe DEF AnswersExact
  <2>3. answers' = answers /\ phases' = [phases EXCEPT ![c] = "orphan"]
    BY <2>2, <1>4, OnlyOne
  <2>4. Abs!Quiet
    BY <1>1 DEF Quiet, Abs!Quiet, data, Abs!data
  <2>5. Abs!Abandon(c)
    BY <2>2, <2>3, <2>4, <1>1 DEF Abs!Abandon, answers, phases
  <2> QED
    BY <2>5, <1>7 DEF Abs!Next
<1> QED
  BY <1>8, <1>9
-----------------------------------------------------------------------------
LEMMA InitAInv == Init => AInv
<1> SUFFICES ASSUME Init PROVE AInv
  OBVIOUS
<1>1. SInv
  BY InitSInv
<1>2. DOMAIN db = {} /\ out = <<>> /\ DOMAIN conn = {} /\ DOMAIN backlog = {}
  BY DEF Init, DataInit
<1>3. OutOK /\ PcOK
  <2>1. IsFiniteSet(DOMAIN db)
    BY <1>2, FS_EmptySet
  <2>2. out \in Seq(Int)
    BY <1>2
  <2>3. PcOK
    BY DEF PcOK, Init
  <2> QED
    BY <2>1, <2>2, <2>3 DEF OutOK
<1>4. SocketsOK
  <2>1. <<>> \in Seq(Int) /\ Len(<<>>) <= SockCap
    BY ServerAssumption
  <2> QED
    BY <2>1 DEF SocketsOK, Init
<1>5. ASSUME NEW c \in Client PROVE ClientOK(c) /\ MsgOK(c)
  <2>1. prog[c] = "out" /\ req[c] = NULL /\ Fresh(c)
    BY DEF Init, Fresh
  <2> QED
    BY <2>1 DEF ClientOK, MsgOK
<1> QED
  BY <1>1, <1>2, <1>3, <1>4, <1>5 DEF AInv, Flow

\* Most steps leave the data alone and reply to nobody.
LEMMA QuietOut ==
  ASSUME AInv, Quiet
  PROVE  OutOK'
  BY DEF Quiet, data, AInv, OutOK

LEMMA HandleOut ==
  ASSUME AInv, Handle
  PROVE  OutOK'
<1>1. PICK fd \in ready : LET o == fd2conn[fd]
                          IN HandleRequest(o) \/ HandleReply(o) \/ HandleEnd(o)
  BY DEF Handle
<1>2. PICK o : o = fd2conn[fd]
  OBVIOUS
<1>3. fd \in Fd /\ fd2conn[fd] # NULL
  BY DEF AInv, SInv, LoopOK, ConnsExact
<1>4. o \in DOMAIN conn /\ sock[conn[o].fd] \in Client
  BY <1>2, <1>3, InTable DEF AInv, SInv
<1>5. CASE HandleRequest(o)
  <2>1. PICK cmd : cmd = req[sock[conn[o].fd]]
    OBVIOUS
  <2>2. cmd \in Command /\ do_request(cmd)
    BY <2>1, <1>4, <1>5, RequestIsCommand DEF HandleRequest, AInv, SInv
  <2>3. out' \in Cells
    BY <2>2, RequestCells DEF AInv, SInv, OutOK
  <2>4. IsFiniteSet(DOMAIN db')
    BY <2>2, RequestKeys DEF AInv, SInv, OutOK
  <2> QED
    BY <2>3, <2>4 DEF OutOK, Cells
<1>6. CASE HandleReply(o) \/ HandleEnd(o)
  BY <1>6, QuietOut DEF HandleReply, HandleEnd
<1> QED
  BY <1>1, <1>2, <1>5, <1>6

LEMMA NextOut ==
  ASSUME AInv, [Next]_vars
  PROVE  OutOK'
<1>1. CASE Handle
  BY <1>1, HandleOut
<1>2. CASE Quiet
  BY <1>2, QuietOut
<1>3. CASE UNCHANGED vars
  BY <1>3 DEF vars, AInv, OutOK
<1>4. CASE Poll \/ PollFail \/ CloseIdle \/ TimersDone \/ Accept \/ AcceptNoMemory \/ AcceptFail
  BY <1>4, <1>2 DEF Poll, PollFail, CloseIdle, TimersDone, Accept, AcceptNoMemory, AcceptFail, Accepted
<1>5. CASE \E c \in Client : Connect(c) \/ ClientStep(c) \/ ClientLeave(c)
  BY <1>5, <1>2 DEF Connect, ClientStep, ClientSend, ClientRead, ClientExit, ClientLeave, Gone
<1> QED
  BY <1>1, <1>3, <1>4, <1>5 DEF Next, Loop

\* Where main is after a connection has been served.
LEMMA ServedPc ==
  ASSUME PcOK, NEW o, NEW w, state_res(o, w) \/ Handled(conn[o].fd)
  PROVE  PcOK'
<1>1. CASE Handled(conn[o].fd)
  BY <1>1 DEF Handled, PcOK
<1>2. CASE die
  BY <1>2 DEF die, PcOK
<1> QED
  BY <1>1, <1>2 DEF state_res

LEMMA NextPc ==
  ASSUME AInv, [Next]_vars
  PROVE  PcOK'
<1>1. CASE Handle
  <2>1. PICK o : HandleRequest(o) \/ HandleReply(o) \/ HandleEnd(o)
    BY <1>1 DEF Handle
  <2>2. (\E w : state_res(o, w)) \/ Handled(conn[o].fd)
    BY <2>1 DEF HandleRequest, HandleReply, HandleEnd
  <2> QED
    BY <2>2, ServedPc DEF AInv
<1>2. CASE Poll
  <2>1. pc' \in {"timers", "io"} /\ arrived' \in BOOLEAN
    BY <1>2 DEF Poll
  <2> QED
    BY <2>1 DEF PcOK
<1>3. CASE TimersDone
  BY <1>3 DEF TimersDone, AInv, PcOK
<1>4. CASE Accept \/ AcceptNoMemory
  BY <1>4 DEF Accept, AcceptNoMemory, Accepted, PcOK
<1>5. CASE PollFail \/ AcceptFail
  BY <1>5 DEF PollFail, AcceptFail, die, PcOK
<1>6. CASE UNCHANGED loop
  BY <1>6 DEF loop, AInv, PcOK
<1>7. CASE CloseIdle \/ UNCHANGED vars
  BY <1>6, <1>7 DEF CloseIdle, vars
<1>8. CASE \E c \in Client : Connect(c) \/ ClientStep(c) \/ ClientLeave(c)
  BY <1>6, <1>8 DEF Connect, ClientStep, ClientSend, ClientRead, ClientExit, ClientLeave, Gone
<1> QED
  BY <1>1, <1>2, <1>3, <1>4, <1>5, <1>7, <1>8 DEF Next, Loop

\* Each step of the server, or of a client, is a step of Service.
LEMMA HandleFlow ==
  ASSUME AInv, SInv', Handle
  PROVE  Flow' /\ Abs!Next
<1>1. PICK fd \in ready : LET o == fd2conn[fd]
                          IN HandleRequest(o) \/ HandleReply(o) \/ HandleEnd(o)
  BY DEF Handle
<1>2. PICK o : o = fd2conn[fd]
  OBVIOUS
<1>3. fd \in Fd /\ fd2conn[fd] # NULL
  BY DEF AInv, SInv, LoopOK, ConnsExact
<1>4. o \in DOMAIN conn
  BY <1>2, <1>3, InTable DEF AInv, SInv
<1>5. CASE HandleRequest(o)
  BY <1>4, <1>5, RequestFlow
<1>6. CASE HandleReply(o)
  <2>1. Flow' /\ \A c \in Client : Same(c) \/ Lost(c)
    BY <1>4, <1>6, ReplyFlow
  <2>2. Quiet
    BY <1>6 DEF HandleReply
  <2> QED
    BY <2>1, <2>2, QuietStep DEF AInv
<1>7. CASE HandleEnd(o)
  <2>1. conn_done(o) /\ UNCHANGED <<prog, rep, got, backlog>> /\ Quiet
    BY <1>7 DEF HandleEnd, Handled
  <2>2. Flow' /\ \A c \in Client : Same(c) \/ Lost(c)
    BY <1>4, <2>1, DoneFlow
  <2> QED
    BY <2>1, <2>2, QuietStep DEF AInv
<1> QED
  BY <1>1, <1>2, <1>5, <1>6, <1>7

LEMMA LoopFlow ==
  ASSUME AInv, SInv', Loop
  PROVE  Flow' /\ Abs!Next
<1>1. CASE Handle
  BY <1>1, HandleFlow
<1>2. ASSUME Quiet, Flow', \A c \in Client : Same(c) \/ Lost(c)
      PROVE  Flow' /\ Abs!Next
  BY <1>2, QuietStep DEF AInv
<1>3. CASE Poll \/ TimersDone
  <2>1. UNCHANGED <<prog, req, rep, got, backlog, sock, conn>> /\ Quiet
    BY <1>3 DEF Poll, TimersDone, clients, table
  <2> QED
    BY <1>2, <2>1, KeptFlow
<1>4. CASE CloseIdle
  <2>1. PICK o \in DOMAIN conn : conn_done(o)
    BY <1>4 DEF CloseIdle
  <2>2. UNCHANGED <<prog, rep, got, backlog>> /\ Quiet
    BY <1>4 DEF CloseIdle
  <2> QED
    BY <1>2, <2>1, <2>2, DoneFlow
<1>5. CASE Accept
  <2>1. Quiet
    BY <1>5 DEF Accept, Accepted
  <2> QED
    BY <1>2, <1>5, <2>1, AcceptFlow
<1>6. CASE AcceptNoMemory
  <2>1. Quiet
    BY <1>6 DEF AcceptNoMemory, Accepted
  <2> QED
    BY <1>2, <1>6, <2>1, NoMemoryFlow
<1>7. CASE PollFail \/ AcceptFail
  <2>1. die /\ UNCHANGED <<prog, rep, got>> /\ Quiet
    BY <1>7 DEF PollFail, AcceptFail
  <2> QED
    BY <1>2, <2>1, DieFlow
<1> QED
  BY <1>1, <1>3, <1>4, <1>5, <1>6, <1>7 DEF Loop

LEMMA ClientFlow ==
  ASSUME AInv, SInv', NEW c \in Client, Connect(c) \/ ClientStep(c) \/ ClientLeave(c)
  PROVE  Flow' /\ Abs!Next
<1>1. CASE Connect(c)
  <2>1. Flow' /\ \A d \in Client : Same(d) \/ Lost(d)
    BY <1>1, ConnectFlow
  <2>2. Quiet
    BY <1>1 DEF Connect
  <2> QED
    BY <2>1, <2>2, QuietStep DEF AInv
<1>2. CASE ClientSend(c)
  BY <1>2, SendReqFlow
<1>3. CASE ClientRead(c)
  BY <1>3, ReadFlow
<1>4. CASE ClientExit(c) \/ ClientLeave(c)
  BY <1>4, GoneFlow
<1> QED
  BY <1>1, <1>2, <1>3, <1>4 DEF ClientStep

LEMMA IdleFlow ==
  ASSUME AInv, SInv', UNCHANGED vars
  PROVE  Flow' /\ UNCHANGED Abs!vars
<1>1. UNCHANGED <<prog, req, rep, got, backlog, sock, conn, db, zsets, out>>
  BY DEF vars, clients, table
<1>2. Flow' /\ \A c \in Client : Same(c)
  BY <1>1, KeptFlow
<1>3. answers' = answers /\ phases' = phases
  <2>1. /\ answers = [d \in Client |-> answers[d]] /\ phases = [d \in Client |-> phases[d]]
        /\ answers' = [d \in Client |-> answers'[d]] /\ phases' = [d \in Client |-> phases'[d]]
    BY DEF answers, phases
  <2> QED
    BY <1>2, <2>1 DEF Same
<1> QED
  BY <1>1, <1>2, <1>3 DEF Abs!vars, Abs!data, answers, phases

\* The invariant is inductive, and under it the server does what Service says.
LEMMA NextAInv == AInv /\ [Next]_vars => AInv'
<1> SUFFICES ASSUME AInv, [Next]_vars PROVE AInv'
  OBVIOUS
<1>1. SInv'
  BY NextSInv DEF AInv
<1>2. Flow'
  BY <1>1, LoopFlow, ClientFlow, IdleFlow DEF Next
<1> QED
  BY <1>1, <1>2, NextOut, NextPc DEF AInv

LEMMA InitService == Init => Abs!Init
<1> SUFFICES ASSUME Init PROVE Abs!Init
  OBVIOUS
<1>1. AInv
  BY InitAInv
<1>2. ASSUME NEW c \in Client PROVE req[c] = NULL /\ answers[c] = <<>> /\ phases[c] = "idle"
  <2>1. prog[c] = "out" /\ req[c] = NULL
    BY DEF Init
  <2> QED
    BY <2>1, AnswersAre DEF AnswersExact
<1>3. answers = [c \in Client |-> <<>>] /\ phases = [c \in Client |-> "idle"]
  BY <1>2 DEF answers, phases
<1>4. req = [c \in Client |-> NULL] /\ Abs!DataInit
  BY DEF Init, DataInit, Abs!DataInit
<1> QED
  BY <1>3, <1>4 DEF Abs!Init, answers, phases

LEMMA NextService == AInv /\ SInv' /\ [Next]_vars => [Abs!Next]_(Abs!vars)
<1> SUFFICES ASSUME AInv, SInv', [Next]_vars PROVE Abs!Next \/ UNCHANGED Abs!vars
  OBVIOUS
<1> QED
  BY LoopFlow, ClientFlow, IdleFlow DEF Next

\* Each client has what ClientOK and MsgOK say of it, and each connection
\* what ConnOK does, at every moment: read by read and send by send no cell
\* of a reply is lost, doubled or put behind another (server.cpp:594-642,
\* client.cpp:185-207).
THEOREM AInvHolds == Spec => []AInv
  BY InitAInv, NextAInv, PTL DEF Spec

\* The variables of the server have their types, for any number of clients,
\* descriptors and Conn objects: a connection that is in the table is never
\* in STATE_END when main polls (server.cpp:766-811).
THEOREM TypesHold == Spec => []TypeOK
<1>1. ASSUME AInv PROVE TypeOK
  <2>1. DataOK /\ out \in Seq(Int)
    BY <1>1 DEF AInv, OutOK, SInv, DataInv
  <2>2. conn \in [DOMAIN conn -> [fd : Fd, state : {"REQ", "RES"}, wbuf : Seq(Int), wbuf_sent : Nat]]
    BY <1>1 DEF AInv, SInv, TableOK, Flow, ConnOK
  <2> QED
    BY <1>1, <2>1, <2>2
    DEF AInv, SInv, ReqOK, TableOK, QueueOK, LoopOK, PcOK, Flow, SocketsOK, TypeOK
<1> QED
  BY <1>1, AInvHolds, PTL

\* Whichever clients come, go and stay away, however many there are, whatever
\* the sockets take, and whichever connections time out, are closed or have
\* their descriptor and memory used again: a request is run at most once, and
\* the client that sent it gets its reply whole or not at all, never a cell
\* of another's (server.cpp:594-755, 766-811, 880-1000).
THEOREM ImplementsServiceHolds == Spec => ImplementsService
<1>1. AInv /\ AInv' /\ [Next]_vars => [Abs!Next]_(Abs!vars)
  BY NextService DEF AInv
<1> QED
  BY InitService, AInvHolds, <1>1, PTL DEF Spec, ImplementsService, Abs!Spec
=============================================================================
