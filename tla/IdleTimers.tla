----------------------------- MODULE IdleTimers ------------------------------
(***************************************************************************)
(* The event loop over the list it really has: the pointers of list.h.     *)
(* Every step that links or unlinks a Conn does to prev and next what      *)
(* server.cpp calls list.h for, and next_timer_ms and process_timers go by *)
(* the pointers alone: whether there is a timer, how long poll() waits,    *)
(* which Conn is closed and when the loop ends is what they find after the *)
(* sentinel.  The sequence idle_list of EventLoop.tla is kept beside them  *)
(* as an auxiliary variable: it is updated, and no step here depends on    *)
(* it.  That the loop on pointers implements the loop on the sequence is   *)
(* ImplementsEventLoop.                                                    *)
(*                                                                         *)
(* Data.  links holds the DList embedded in each allocated Conn and that   *)
(* of g_data.idle_list.  Memory that is not allocated has no links to      *)
(* follow: Unset, which malloc leaves to accept_new_conn to overwrite.     *)
(***************************************************************************)
EXTENDS EventLoop

CONSTANT Sentinel   \* &g_data.idle_list

ASSUME SentinelAssumption == Sentinel \notin Conn

VARIABLE links

timerVars == <<vars, links>>

D == INSTANCE DList

Node == Conn \cup {Sentinel}
Unset == [prev |-> NULL, next |-> NULL]

\* conn_done's dlist_detach(&conn->idle_list) and free(conn).
Unlink(l, c) == [D!dlist_detach(l, c) EXCEPT ![c] = Unset]

\* Mutant: before the first node, not before the sentinel.
Mut_MoveToTail(l, c) ==
  LET rest == D!dlist_detach(l, c)
  IN D!dlist_insert_before(rest, rest[Sentinel].next, c)

\* Mutant: the idle timer is restarted, the node stays where it is.
Mut_MoveToTailForgotten(l, c) == l

\* connection_io's dlist_detach and dlist_insert_before.
MoveToTail(l, c) == D!dlist_insert_before(D!dlist_detach(l, c), Sentinel, c)

\* What next_timer_ms and process_timers find: the Conn after the sentinel,
\* if dlist_empty does not say that there is none.
head == IF D!dlist_empty(links, Sentinel) THEN NULL ELSE links[Sentinel].next
-----------------------------------------------------------------------------
\* main's dlist_init of the sentinel.
TInit ==
  /\ Init
  /\ links = D!dlist_init([n \in Node |-> Unset], Sentinel)

THandleConn(f, ended) ==
  LET moved == MoveToTail(links, fd2conn[f])
  IN /\ HandleConn(f, ended)
     /\ links' = IF ended THEN Unlink(moved, fd2conn[f]) ELSE moved

TAskTimeout == AskTimeout(head) /\ UNCHANGED links

TCloseIdle == CloseIdle(head) /\ links' = Unlink(links, head)

TTimersDone == TimersDone(head) /\ UNCHANGED links

TAccept(f, c) ==
  /\ Accept(f, c)
  /\ links' = D!dlist_insert_before(links, Sentinel, c)

\* The steps that have nothing to do with the list.
Elsewhere ==
  /\ \/ Poll
     \/ \E R \in SUBSET Fd, l \in BOOLEAN : PollReturn(R, l)
     \/ PollFail \/ StartTimers
     \/ AcceptNoMemory \/ AcceptFail \/ NoAccept
  /\ UNCHANGED links

TLoop ==
  \/ TAskTimeout
  \/ \E f \in Fd, ended \in BOOLEAN : THandleConn(f, ended)
  \/ TCloseIdle \/ TTimersDone
  \/ \E f \in Fd, c \in Conn : TAccept(f, c)
  \/ Elsewhere

TTick == Tick /\ UNCHANGED links

TNext == TLoop \/ TTick

TSafeSpec == TInit /\ [][TNext]_timerVars

\* The kernel runs the process, and time passes.
TSpec == TSafeSpec /\ WF_timerVars(TLoop) /\ WF_timerVars(TTick)
-----------------------------------------------------------------------------
\* However connections are moved to the tail, ended where they are, expired
\* at the head and their memory reused, the pointers are the ring of the
\* idle list, in both directions: no node is lost, none is left behind
\* (list.h:20-35, server.cpp:750-751, 802, 809).
ListLinked == D!Linked(links, Sentinel, idle_list)

\* The loop that goes by prev and next does what a loop over a sequence in
\* the order of expiry does: it waits as long, closes the same connections
\* and stops at the same one, whatever was moved, ended and used again
\* before (server.cpp:813-847).
ImplementsEventLoop == SafeSpec
=============================================================================
