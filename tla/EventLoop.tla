----------------------------- MODULE EventLoop ------------------------------
(***************************************************************************)
(* The poll() loop of src/server.cpp: the table of connections, the list   *)
(* of idle timers, and the order in which one round of the loop handles    *)
(* ready connections, expired timers and a new client.                     *)
(*                                                                         *)
(* Time.  now is CLOCK_MONOTONIC in microseconds; it may advance between   *)
(* any two steps, those from reading it to using what was read among them. *)
(* poll() takes milliseconds, so next_timer_ms truncates.                  *)
(*                                                                         *)
(* Data.  What connection_io does with the bytes of a connection is the    *)
(* subject of Connection.tla: here it either leaves STATE_END behind or    *)
(* does not.  conn maps the Conn objects that are allocated to the fields  *)
(* this loop reads; idle_list is the sequence of the Conns linked after    *)
(* the sentinel g_data.idle_list.                                          *)
(***************************************************************************)
EXTENDS Integers, FiniteSets, Sequences, SequencesExt

CONSTANTS
  Fd,             \* descriptors accept() may return, as numbers
  Conn,           \* Conn objects malloc() may return
  NULL,           \* a NULL entry of fd2conn
  UsPerMs,        \* 1000 in the code
  IdleTimeout,    \* 5000 in the code: k_idle_timeout_ms
  NoTimer,        \* 10000 in the code: next_timer_ms without a timer
  MaxTime         \* bound on now, for TLC

ASSUME EventLoopAssumption ==
  /\ Fd \subseteq Nat
  /\ NULL \notin Conn
  /\ UsPerMs \in Nat \ {0}
  /\ IdleTimeout \in Nat /\ NoTimer \in Nat /\ MaxTime \in Nat

VARIABLES
  fd2conn,        \* g_data.fd2conn; entries past its size are NULL
  idle_list,      \* g_data.idle_list
  conn,           \* the allocated Conn objects: fd and idle_start
  now,            \* the monotonic clock
  pc,             \* where the loop is
  poll_args,      \* the connection each descriptor stood for when poll was called
  timeout_ms,     \* what poll is asked to wait, in milliseconds
  until,          \* when poll gives up waiting; 0 outside of poll
  woken,          \* whether poll returned because of an event
  ready,          \* descriptors whose revents are still to be handled
  listening,      \* revents of the listening socket
  now_us          \* the clock as next_timer_ms or process_timers read it

vars == <<fd2conn, idle_list, conn, now, pc, poll_args, timeout_ms, until,
          woken, ready, listening, now_us>>
heap == <<fd2conn, idle_list, conn>>
round == <<poll_args, timeout_ms, until, woken, ready, listening>>

PC == {"top", "ask", "poll", "io", "timers", "accept", "dead"}

\* k_idle_timeout_ms * 1000.
Timeout == IdleTimeout * UsPerMs

\* Mutant: no extra millisecond.
Mut_Expired(c, t) == conn[c].idle_start + Timeout < t

\* A connection process_timers may close at time t: the extra millisecond
\* makes up for what next_timer_ms truncates.
Expired(c, t) == conn[c].idle_start + Timeout < t + UsPerMs

\* dlist_detach of a node on the list.
Position(list, c) == CHOOSE i \in 1 .. Len(list) : list[i] = c
dlist_detach(list, c) == RemoveAt(list, Position(list, c))

\* Mutant: at the head.
Mut_dlist_insert_before(list, c) == <<c>> \o list

\* dlist_insert_before the sentinel: at the tail.
dlist_insert_before(list, c) == Append(list, c)
-----------------------------------------------------------------------------
Init ==
  /\ fd2conn = [f \in Fd |-> NULL]
  /\ idle_list = <<>>
  /\ conn = [c \in {} |-> {}]
  /\ now = 0 /\ now_us = 0
  /\ pc = "top"
  /\ poll_args = [f \in Fd |-> NULL]
  /\ timeout_ms = 0 /\ until = 0
  /\ woken = FALSE /\ ready = {} /\ listening = FALSE

\* The Conn after the sentinel; NULL if the list is empty.
first == IF idle_list = <<>> THEN NULL ELSE Head(idle_list)

\* Mutant: the remaining time is rounded up.
Mut_next_timer_ms(next) ==
  IF next = NULL THEN NoTimer
  ELSE LET next_us == conn[next].idle_start + Timeout
       IN IF next_us <= now THEN 0 ELSE (next_us - now + UsPerMs - 1) \div UsPerMs

\* next_timer_ms, in milliseconds, when next is the Conn after the sentinel.
next_timer_ms(next) ==
  IF next = NULL THEN NoTimer
  ELSE LET next_us == conn[next].idle_start + Timeout
       IN IF next_us <= now THEN 0 ELSE (next_us - now) \div UsPerMs

\* Fill poll_args from fd2conn, read the clock if there is a timer, and
\* compute the timeout.
AskTimeout(next) ==
  /\ pc = "top"
  /\ pc' = "ask"
  /\ poll_args' = fd2conn
  /\ timeout_ms' = next_timer_ms(next)
  /\ now_us' = IF next = NULL THEN now_us ELSE now
  /\ UNCHANGED <<heap, now, until, woken, ready, listening>>

\* Enter poll(), some time after the clock was read.
Poll ==
  /\ pc = "ask"
  /\ pc' = "poll"
  /\ until' = now + timeout_ms * UsPerMs
  /\ UNCHANGED <<heap, now, poll_args, timeout_ms, woken, ready, listening, now_us>>

\* poll() returns: some of the polled descriptors have events, or time is up.
PollReturn(R, l) ==
  /\ pc = "poll"
  /\ \A f \in R : poll_args[f] # NULL
  /\ R # {} \/ l \/ now >= until
  /\ pc' = "io"
  /\ until' = 0
  /\ woken' = (R # {} \/ l)
  /\ ready' = R /\ listening' = l
  /\ UNCHANGED <<heap, now, poll_args, timeout_ms, now_us>>

\* poll() fails, with EINTR for one: die().
PollFail ==
  /\ pc = "poll"
  /\ pc' = "dead"
  /\ UNCHANGED <<heap, now, round, now_us>>

\* Mutant: the Conn is freed but stays linked.
Mut_conn_done(c, list) ==
  /\ fd2conn' = [fd2conn EXCEPT ![conn[c].fd] = NULL]
  /\ idle_list' = list
  /\ conn' = [d \in DOMAIN conn \ {c} |-> conn[d]]

\* conn_done: forget the descriptor, close it, unlink and free the Conn.
conn_done(c, list) ==
  /\ fd2conn' = [fd2conn EXCEPT ![conn[c].fd] = NULL]
  /\ idle_list' = dlist_detach(list, c)
  /\ conn' = [d \in DOMAIN conn \ {c} |-> conn[d]]

\* f is the next ready descriptor in the order of poll_args.
NextReady(f) ==
  /\ pc = "io"
  /\ f \in ready /\ \A g \in ready : f <= g

\* Mutant: the descriptor of a connection that ended is handled again.
Mut_HandleConn(f, ended) ==
  LET c == fd2conn[f]
      list == dlist_insert_before(dlist_detach(idle_list, c), c)
  IN /\ NextReady(f)
     /\ ready' = IF ended THEN ready ELSE ready \ {f}
     /\ \/ ended /\ conn_done(c, list)
        \/ /\ ~ ended /\ idle_list' = list
           /\ conn' = [conn EXCEPT ![c] = [fd |-> @.fd, idle_start |-> now]]
           /\ UNCHANGED fd2conn
     /\ UNCHANGED <<now, pc, poll_args, timeout_ms, until, woken, listening, now_us>>

\* One ready descriptor: connection_io restarts the idle timer and moves
\* the Conn to the tail of the list, then state_req or state_res run; a
\* connection they end is destroyed at once.
HandleConn(f, ended) ==
  LET c == fd2conn[f]
      list == dlist_insert_before(dlist_detach(idle_list, c), c)
  IN /\ NextReady(f)
     /\ ready' = ready \ {f}
     /\ \/ /\ ended
           /\ conn_done(c, list)
        \/ /\ ~ ended
           /\ conn' = [conn EXCEPT ![c] = [fd |-> @.fd, idle_start |-> now]]
           /\ idle_list' = list
           /\ UNCHANGED fd2conn
     /\ UNCHANGED <<now, pc, poll_args, timeout_ms, until, woken, listening, now_us>>

\* Mutant: the clock is not read again; poll is taken to have waited as
\* long as it was asked to.
Mut_StartTimersUnread ==
  /\ pc = "io" /\ ready = {}
  /\ pc' = "timers"
  /\ now_us' = now_us + timeout_ms * UsPerMs
  /\ UNCHANGED <<heap, now, round>>

\* Mutant: timers are looked at only after an event.
Mut_StartTimers ==
  /\ pc = "io" /\ ready = {}
  /\ pc' = IF woken THEN "timers" ELSE "accept"
  /\ now_us' = now
  /\ UNCHANGED <<heap, now, round>>

\* All descriptors handled; process_timers reads the clock once.
StartTimers ==
  /\ pc = "io" /\ ready = {}
  /\ pc' = "timers"
  /\ now_us' = now
  /\ UNCHANGED <<heap, now, round>>

\* The loop of process_timers goes on: there is a next Conn, and it is ready.
MustClose(next) == next # NULL /\ Expired(next, now_us)

\* process_timers: the next Conn has expired.
CloseIdle(next) ==
  /\ pc = "timers"
  /\ MustClose(next)
  /\ conn_done(next, idle_list)
  /\ UNCHANGED <<now, pc, round, now_us>>

\* process_timers: the list is empty, or the next Conn is not ready.
TimersDone(next) ==
  /\ pc = "timers"
  /\ ~ MustClose(next)
  /\ pc' = "accept"
  /\ UNCHANGED <<heap, now, round, now_us>>

\* Mutant: the fields malloc left uninitialised are not all set.
Mut_Accept(f, c) ==
  /\ pc = "accept" /\ listening
  /\ f \in Fd /\ fd2conn[f] = NULL
  /\ c \in Conn \ DOMAIN conn
  /\ conn' = [d \in DOMAIN conn \cup {c} |->
                IF d = c THEN [fd |-> f, idle_start |-> NULL] ELSE conn[d]]
  /\ idle_list' = dlist_insert_before(idle_list, c)
  /\ fd2conn' = [fd2conn EXCEPT ![f] = c]
  /\ pc' = "top"
  /\ UNCHANGED <<now, round, now_us>>

\* accept_new_conn: a Conn is allocated, put at the tail of the idle list
\* and registered.
Accept(f, c) ==
  /\ pc = "accept" /\ listening
  /\ f \in Fd /\ fd2conn[f] = NULL      \* the kernel returns a free descriptor
  /\ c \in Conn \ DOMAIN conn           \* malloc returns a free object
  /\ conn' = [d \in DOMAIN conn \cup {c} |->
                IF d = c THEN [fd |-> f, idle_start |-> now] ELSE conn[d]]
  /\ idle_list' = dlist_insert_before(idle_list, c)
  /\ fd2conn' = [fd2conn EXCEPT ![f] = c]
  /\ pc' = "top"
  /\ UNCHANGED <<now, round, now_us>>

\* accept_new_conn: malloc fails and the new descriptor is closed.
AcceptNoMemory ==
  /\ pc = "accept" /\ listening
  /\ pc' = "top"
  /\ UNCHANGED <<heap, now, round, now_us>>

\* accept_new_conn: accept() fails, because the client is gone or no
\* descriptor is left: die().
AcceptFail ==
  /\ pc = "accept" /\ listening
  /\ pc' = "dead"
  /\ UNCHANGED <<heap, now, round, now_us>>

NoAccept ==
  /\ pc = "accept" /\ ~ listening
  /\ pc' = "top"
  /\ UNCHANGED <<heap, now, round, now_us>>

\* The clock.
Tick ==
  /\ now < MaxTime
  /\ now' = now + 1
  /\ UNCHANGED <<heap, pc, round, now_us>>

Loop ==
  \/ AskTimeout(first) \/ Poll
  \/ \E R \in SUBSET Fd, l \in BOOLEAN : PollReturn(R, l)
  \/ PollFail
  \/ \E f \in Fd, ended \in BOOLEAN : HandleConn(f, ended)
  \/ StartTimers \/ CloseIdle(first) \/ TimersDone(first)
  \/ \E f \in Fd, c \in Conn : Accept(f, c)
  \/ AcceptNoMemory \/ AcceptFail \/ NoAccept

Next == Loop \/ Tick

SafeSpec == Init /\ [][Next]_vars

\* The kernel runs the process, and time passes.
Spec == SafeSpec /\ WF_vars(Loop) /\ WF_vars(Tick)
-----------------------------------------------------------------------------
\* The type of each variable; a Conn that is not allocated has no fields.
TypeOK ==
  /\ fd2conn \in [Fd -> Conn \cup {NULL}]
  /\ idle_list \in Seq(Conn)
  /\ DOMAIN conn \subseteq Conn
  /\ conn \in [DOMAIN conn -> [fd : Fd, idle_start : Nat]]
  /\ now \in Nat /\ now_us \in Nat /\ timeout_ms \in Nat /\ until \in Nat
  /\ pc \in PC
  /\ poll_args \in [Fd -> Conn \cup {NULL}]
  /\ woken \in BOOLEAN /\ ready \in SUBSET Fd /\ listening \in BOOLEAN

\* No Conn is leaked or used after free: whatever mix of I/O errors, idle
\* timeouts and new clients the loop meets, the table, the idle list and
\* the heap hold the same connections, each listed once and filed under its
\* own descriptor (server.cpp:805-811).
OneConnOneTimer ==
  /\ \A f \in Fd : fd2conn[f] # NULL =>
       fd2conn[f] \in DOMAIN conn /\ conn[fd2conn[f]].fd = f
  /\ \A c \in DOMAIN conn : fd2conn[conn[c].fd] = c
  /\ \A c \in DOMAIN conn : \E i \in 1 .. Len(idle_list) : idle_list[i] = c
  /\ \A i \in 1 .. Len(idle_list) : idle_list[i] \in DOMAIN conn
  /\ \A i, j \in 1 .. Len(idle_list) : idle_list[i] = idle_list[j] => i = j

\* The head of the idle list is the first to expire: process_timers and
\* next_timer_ms look at the head only (server.cpp:819-826,836-840).
IdleListSorted ==
  \A i, j \in 1 .. Len(idle_list) :
    i < j => conn[idle_list[i]].idle_start <= conn[idle_list[j]].idle_start

\* The connection a ready descriptor is handled for is the one poll() was
\* asked about: it has not been destroyed, nor its descriptor given to
\* another client, by what the round did before (server.cpp:953-956).
PolledConnAlive ==
  pc = "io" => \A f \in ready : fd2conn[f] # NULL /\ fd2conn[f] = poll_args[f]

\* poll() is never asked to sleep past the expiry of any connection: it
\* oversleeps by no more than the time from the reading of the clock to the
\* call (server.cpp:820, 944-945).
NoOversleep ==
  pc \in {"ask", "poll"} =>
    \A c \in DOMAIN conn :
      timeout_ms = 0 \/ now_us + timeout_ms * UsPerMs <= conn[c].idle_start + Timeout

\* The loop does not spin: when poll() times out and some timer is set, the
\* first timer counts as expired, although its remaining time was truncated
\* to milliseconds (server.cpp:829,840).
TimeoutFires ==
  pc = "io" /\ ~ woken /\ idle_list # <<>> => Expired(Head(idle_list), now)

\* process_timers leaves no expired connection behind, although it stops at
\* the first one that is not (server.cpp:834-846).
NoneExpiredLeft ==
  pc = "accept" => \A c \in DOMAIN conn : ~ Expired(c, now_us)

\* No connection is closed for idleness before its timeout is over but for
\* a millisecond, although process_timers goes by a clock that was read
\* before it began, and poll() may have been woken long before its own
\* timeout (server.cpp:833-845).
NeverEarly ==
  [][\A c \in DOMAIN conn \ DOMAIN conn' :
       pc = "timers" => conn[c].idle_start + Timeout < now + UsPerMs]_vars

\* A connection without I/O is closed: every stay at one idle_start ends,
\* unless the server itself dies.
IdleConnClosed ==
  \A c \in Conn, t \in 0 .. MaxTime - Timeout :
    (c \in DOMAIN conn /\ conn[c].idle_start = t)
      ~> (pc = "dead" \/ c \notin DOMAIN conn \/ conn[c].idle_start # t)

\* README.md:110 says that the timer of a connection with an event is moved
\* to the head of the list.  connection_io moves it to the tail.
ActiveConnMovedToHead ==
  [][\A f \in Fd : NextReady(f) /\ fd2conn[f] \in DOMAIN conn'
       => Head(idle_list') = fd2conn[f]]_<<ready, idle_list, conn>>
=============================================================================
