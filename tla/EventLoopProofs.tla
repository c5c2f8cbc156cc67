-------------------------- MODULE EventLoopProofs ---------------------------
(***************************************************************************)
(* Proofs about EventLoop, and then about IdleTimers, which composes it    *)
(* with the pointers of list.h: for every set of descriptors and of Conn   *)
(* objects, every timeout, and a clock that advances at any step.          *)
(***************************************************************************)
EXTENDS IdleTimers, TLAPS

\* The elements of the idle list are distinct.
Distinct(list) ==
  \A i, j \in 1 .. Len(list) : list[i] = list[j] => i = j

\* Position finds where a listed element is.
LEMMA PositionOf ==
  ASSUME NEW list \in Seq(Conn), NEW c, \E i \in 1 .. Len(list) : list[i] = c
  PROVE  Position(list, c) \in 1 .. Len(list) /\ list[Position(list, c)] = c
  BY DEF Position

\* dlist_detach takes out one element and keeps the order of the others.
LEMMA Detach ==
  ASSUME NEW list \in Seq(Conn), NEW c, \E i \in 1 .. Len(list) : list[i] = c
  PROVE  /\ dlist_detach(list, c) \in Seq(Conn)
         /\ Len(dlist_detach(list, c)) = Len(list) - 1
         /\ \A i \in 1 .. Len(list) - 1 :
              dlist_detach(list, c)[i] =
                IF i < Position(list, c) THEN list[i] ELSE list[i + 1]
<1> DEFINE p == Position(list, c)
           a == SubSeq(list, 1, p - 1)
           b == SubSeq(list, p + 1, Len(list))
<1>1. p \in 1 .. Len(list) /\ Len(list) \in Nat
  BY PositionOf
<1>2. dlist_detach(list, c) = a \o b
  BY DEF dlist_detach, RemoveAt
<1> HIDE DEF p
<1>3. /\ a \in Seq(Conn) /\ Len(a) = p - 1
      /\ \A i \in 1 .. p - 1 : a[i] = list[i]
  BY <1>1
<1>4. /\ b \in Seq(Conn) /\ Len(b) = Len(list) - p
      /\ \A i \in 1 .. Len(list) - p : b[i] = list[p + i]
  BY <1>1
<1> HIDE DEF a, b
<1>5. a \o b \in Seq(Conn) /\ Len(a \o b) = Len(list) - 1
  <2>1. a \in Seq(Conn) /\ b \in Seq(Conn)
    BY <1>3, <1>4
  <2>2. a \o b \in Seq(Conn) /\ Len(a \o b) = Len(a) + Len(b)
    BY ONLY <2>1
  <2> QED
    BY <2>2, <1>1, <1>3, <1>4
<1>6. ASSUME NEW i \in 1 .. Len(list) - 1
      PROVE  (a \o b)[i] = IF i < p THEN list[i] ELSE list[i + 1]
  <2>1. CASE i < p
    BY <2>1, <1>1, <1>3, <1>4
  <2>2. CASE ~ (i < p)
    <3>1. i - (p - 1) \in 1 .. Len(list) - p /\ p + (i - (p - 1)) = i + 1
      BY <2>2, <1>1
    <3>2. (a \o b)[i] = b[i - (p - 1)]
      BY <2>2, <3>1, <1>1, <1>3, <1>4
    <3>3. b[i - (p - 1)] = list[i + 1]
      BY <3>1, <1>4
    <3> QED
      BY <3>2, <3>3, <2>2
  <2> QED
    BY <2>1, <2>2
<1> QED
  BY <1>2, <1>5, <1>6 DEF p

\* dlist_detach unlinks the element and nothing else, and shuffles nothing:
\* every element left has its old place in the order.
LEMMA DetachOrder ==
  ASSUME NEW list \in Seq(Conn), Distinct(list),
         NEW c, \E i \in 1 .. Len(list) : list[i] = c
  PROVE  /\ \A i \in 1 .. Len(dlist_detach(list, c)) :
              \E j \in 1 .. Len(list) :
                 dlist_detach(list, c)[i] = list[j] /\ list[j] # c
         /\ \A j \in 1 .. Len(list) :
              list[j] # c =>
                \E i \in 1 .. Len(dlist_detach(list, c)) : dlist_detach(list, c)[i] = list[j]
         /\ \A i, j \in 1 .. Len(dlist_detach(list, c)) :
              i < j => \E k, l \in 1 .. Len(list) :
                         /\ k < l
                         /\ dlist_detach(list, c)[i] = list[k]
                         /\ dlist_detach(list, c)[j] = list[l]
         /\ Distinct(dlist_detach(list, c))
<1> DEFINE u == dlist_detach(list, c)
           p == Position(list, c)
           at(i) == IF i < p THEN i ELSE i + 1
<1>1. /\ Len(list) \in Nat
      /\ p \in 1 .. Len(list) /\ list[p] = c
      /\ u \in Seq(Conn) /\ Len(u) = Len(list) - 1
      /\ \A i \in 1 .. Len(list) - 1 : u[i] = IF i < p THEN list[i] ELSE list[i + 1]
  BY PositionOf, Detach
<1> HIDE DEF p, u
<1>2. ASSUME NEW i \in 1 .. Len(u)
      PROVE  at(i) \in 1 .. Len(list) /\ u[i] = list[at(i)] /\ at(i) # p
  BY <1>1
<1>3. ASSUME NEW i \in 1 .. Len(u) PROVE list[at(i)] # c
  BY <1>1, <1>2 DEF Distinct
<1>4. ASSUME NEW j \in 1 .. Len(list), list[j] # c
      PROVE  \E i \in 1 .. Len(u) : u[i] = list[j]
  <2>1. j # p
    BY <1>1, <1>4
  <2>2. CASE j < p
    <3>1. j \in 1 .. Len(u) /\ u[j] = list[j]
      BY <1>1, <2>2
    <3> QED
      BY <3>1
  <2>3. CASE j > p
    <3>1. j - 1 \in 1 .. Len(u) /\ ~ (j - 1 < p) /\ (j - 1) + 1 = j
      BY <1>1, <2>3
    <3>2. u[j - 1] = list[j]
      BY <1>1, <3>1
    <3> QED
      BY <3>1, <3>2
  <2> QED
    BY <1>1, <2>1, <2>2, <2>3
<1>5. ASSUME NEW i \in 1 .. Len(u), NEW j \in 1 .. Len(u), i < j
      PROVE  at(i) < at(j)
  BY <1>1, <1>5
<1>6. \A i, j \in 1 .. Len(u) : i < j =>
         \E k, l \in 1 .. Len(list) : k < l /\ u[i] = list[k] /\ u[j] = list[l]
  BY <1>2, <1>5
<1>7. Distinct(u)
  <2> SUFFICES ASSUME NEW i \in 1 .. Len(u), NEW j \in 1 .. Len(u), u[i] = u[j]
               PROVE  i = j
    BY DEF Distinct
  <2>1. at(i) = at(j)
    BY <1>2 DEF Distinct
  <2>2. i \in Int /\ j \in Int
    OBVIOUS
  <2> QED
    BY <2>1, <2>2, <1>1, <1>5
<1>8. \A i \in 1 .. Len(u) : \E j \in 1 .. Len(list) : u[i] = list[j] /\ list[j] # c
  BY <1>2, <1>3
<1> QED
  BY <1>4, <1>6, <1>7, <1>8 DEF u
-----------------------------------------------------------------------------
\* The inductive invariant: the properties, no clock that was read is ahead
\* and no timer starts in the future, poll_args is the table until poll()
\* returns, the first timer will have expired when the time that was asked
\* for is over, which is not before poll() gives up, and a timeout leaves
\* nothing to handle.
IInv ==
  /\ TypeOK /\ OneConnOneTimer /\ IdleListSorted
  /\ PolledConnAlive /\ NoOversleep /\ TimeoutFires /\ NoneExpiredLeft
  /\ now_us <= now /\ \A c \in DOMAIN conn : conn[c].idle_start <= now
  /\ pc \in {"ask", "poll"} => poll_args = fd2conn
  /\ pc \in {"ask", "poll"} /\ idle_list # <<>> =>
       Expired(Head(idle_list), now_us + timeout_ms * UsPerMs)
  /\ pc = "poll" => now_us + timeout_ms * UsPerMs <= until
  /\ pc = "io" /\ ~ woken => ready = {}

\* The conjuncts of the invariant that speak of the table, the list and the
\* allocated connections, as predicates of these three.
Typed(tbl, cn) ==
  /\ tbl \in [Fd -> Conn \cup {NULL}]
  /\ DOMAIN cn \subseteq Conn
  /\ cn \in [DOMAIN cn -> [fd : Fd, idle_start : Nat]]

Filed(tbl, cn) ==
  /\ \A f \in Fd : tbl[f] # NULL => tbl[f] \in DOMAIN cn /\ cn[tbl[f]].fd = f
  /\ \A c \in DOMAIN cn : tbl[cn[c].fd] = c

Listed(list, cn) ==
  /\ list \in Seq(Conn) /\ Distinct(list)
  /\ \A c \in DOMAIN cn : \E i \in 1 .. Len(list) : list[i] = c
  /\ \A i \in 1 .. Len(list) : list[i] \in DOMAIN cn

Sorted(list, cn) ==
  \A i, j \in 1 .. Len(list) :
    i < j => cn[list[i]].idle_start <= cn[list[j]].idle_start

Heap(tbl, list, cn) ==
  Typed(tbl, cn) /\ Filed(tbl, cn) /\ Listed(list, cn) /\ Sorted(list, cn)

\* The invariant says that of the state.
LEMMA IInvHeap ==
  ASSUME IInv
  PROVE  /\ Heap(fd2conn, idle_list, conn)
         /\ \A c \in DOMAIN conn : conn[c].idle_start <= now
         /\ now \in Nat
  BY DEF IInv, TypeOK, OneConnOneTimer, IdleListSorted, Heap, Typed, Filed,
         Listed, Sorted, Distinct

\* conn_done removes one connection from all three.
LEMMA DoneHeap ==
  ASSUME NEW tbl, NEW list, NEW cn, Heap(tbl, list, cn), NEW c \in DOMAIN cn
  PROVE  Heap([tbl EXCEPT ![cn[c].fd] = NULL], dlist_detach(list, c),
              [d \in DOMAIN cn \ {c} |-> cn[d]])
<1> DEFINE tbl2 == [tbl EXCEPT ![cn[c].fd] = NULL]
           list2 == dlist_detach(list, c)
           cn2 == [d \in DOMAIN cn \ {c} |-> cn[d]]
<1>1. Typed(tbl, cn) /\ Filed(tbl, cn) /\ Listed(list, cn) /\ Sorted(list, cn)
  BY DEF Heap
<1>2. c \in Conn /\ cn[c].fd \in Fd
  BY <1>1 DEF Typed
<1>3. Typed(tbl2, cn2)
  BY <1>1 DEF Typed
<1>4. Filed(tbl2, cn2)
  <2>1. ASSUME NEW f \in Fd, tbl2[f] # NULL
        PROVE  tbl2[f] \in DOMAIN cn2 /\ cn2[tbl2[f]].fd = f
    BY <2>1, <1>1, <1>2 DEF Typed, Filed
  <2>2. ASSUME NEW d \in DOMAIN cn2 PROVE tbl2[cn2[d].fd] = d
    BY <2>2, <1>1, <1>2 DEF Typed, Filed
  <2> QED
    BY <2>1, <2>2 DEF Filed
<1>5. /\ list \in Seq(Conn) /\ Distinct(list)
      /\ \E i \in 1 .. Len(list) : list[i] = c
  BY <1>1 DEF Listed
<1>6. /\ list2 \in Seq(Conn) /\ Distinct(list2)
      /\ \A i \in 1 .. Len(list2) :
           \E j \in 1 .. Len(list) : list2[i] = list[j] /\ list[j] # c
      /\ \A j \in 1 .. Len(list) :
           list[j] # c => \E i \in 1 .. Len(list2) : list2[i] = list[j]
      /\ \A i, j \in 1 .. Len(list2) :
           i < j => \E k, l \in 1 .. Len(list) :
                      k < l /\ list2[i] = list[k] /\ list2[j] = list[l]
  BY <1>5, Detach, DetachOrder
<1> HIDE DEF list2
<1>7. Listed(list2, cn2)
  <2>1. ASSUME NEW d \in DOMAIN cn2 PROVE \E i \in 1 .. Len(list2) : list2[i] = d
    <3>1. d # c /\ d \in DOMAIN cn
      OBVIOUS
    <3>2. PICK j \in 1 .. Len(list) : list[j] = d
      BY <3>1, <1>1 DEF Listed
    <3> QED
      BY <3>1, <3>2, <1>6
  <2>2. ASSUME NEW i \in 1 .. Len(list2) PROVE list2[i] \in DOMAIN cn2
    <3>1. PICK j \in 1 .. Len(list) : list2[i] = list[j] /\ list[j] # c
      BY <1>6
    <3> QED
      BY <3>1, <1>1 DEF Listed
  <2> QED
    BY <2>1, <2>2, <1>6 DEF Listed
<1>8. Sorted(list2, cn2)
  <2> SUFFICES ASSUME NEW i \in 1 .. Len(list2), NEW j \in 1 .. Len(list2), i < j
               PROVE  cn2[list2[i]].idle_start <= cn2[list2[j]].idle_start
    BY DEF Sorted
  <2>1. PICK k \in 1 .. Len(list), l \in 1 .. Len(list) :
          k < l /\ list2[i] = list[k] /\ list2[j] = list[l]
    BY <1>6
  <2>2. list2[i] \in DOMAIN cn2 /\ list2[j] \in DOMAIN cn2
    BY <1>7 DEF Listed
  <2>3. cn[list[k]].idle_start <= cn[list[l]].idle_start
    BY <2>1, <1>1 DEF Sorted
  <2> QED
    BY <2>1, <2>2, <2>3
<1> QED
  BY <1>3, <1>4, <1>7, <1>8 DEF Heap, list2

\* A timer started now, at the tail of the list, keeps the list sorted:
\* what accept_new_conn and connection_io rely on.
LEMMA TailHeap ==
  ASSUME NEW tbl, NEW list, NEW cn, Heap(tbl, list, cn),
         NEW c \in Conn, c \notin DOMAIN cn, NEW f \in Fd, tbl[f] = NULL,
         NEW t \in Nat, \A d \in DOMAIN cn : cn[d].idle_start <= t
  PROVE  Heap([tbl EXCEPT ![f] = c], Append(list, c),
              [d \in DOMAIN cn \cup {c} |->
                 IF d = c THEN [fd |-> f, idle_start |-> t] ELSE cn[d]])
<1> DEFINE tbl2 == [tbl EXCEPT ![f] = c]
           list2 == Append(list, c)
           cn2 == [d \in DOMAIN cn \cup {c} |->
                     IF d = c THEN [fd |-> f, idle_start |-> t] ELSE cn[d]]
<1>1. Typed(tbl, cn) /\ Filed(tbl, cn) /\ Listed(list, cn) /\ Sorted(list, cn)
  BY DEF Heap
<1>2. Typed(tbl2, cn2)
  BY <1>1 DEF Typed
<1>3. c # NULL /\ \A d \in DOMAIN cn : cn[d].fd # f /\ d # NULL
  BY <1>1, EventLoopAssumption DEF Typed, Filed
<1>4. Filed(tbl2, cn2)
  <2>1. ASSUME NEW g \in Fd, tbl2[g] # NULL
        PROVE  tbl2[g] \in DOMAIN cn2 /\ cn2[tbl2[g]].fd = g
    BY <2>1, <1>1 DEF Typed, Filed
  <2>2. ASSUME NEW d \in DOMAIN cn2 PROVE tbl2[cn2[d].fd] = d
    BY <2>2, <1>1, <1>3 DEF Typed, Filed
  <2> QED
    BY <2>1, <2>2 DEF Filed
<1>5. /\ Len(list) \in Nat /\ list2 \in Seq(Conn) /\ Len(list2) = Len(list) + 1
      /\ \A i \in 1 .. Len(list) : list2[i] = list[i] /\ list[i] \in DOMAIN cn
      /\ list2[Len(list) + 1] = c
  BY <1>1 DEF Listed
<1> HIDE DEF list2
<1>6. Listed(list2, cn2)
  <2>1. Distinct(list2)
    BY <1>1, <1>5 DEF Distinct, Listed
  <2>2. ASSUME NEW d \in DOMAIN cn2 PROVE \E i \in 1 .. Len(list2) : list2[i] = d
    <3>1. CASE d = c
      BY <3>1, <1>5
    <3>2. CASE d # c
      <4>1. PICK i \in 1 .. Len(list) : list[i] = d
        BY <3>2, <1>1 DEF Listed
      <4> QED
        BY <4>1, <1>5
    <3> QED
      BY <3>1, <3>2
  <2>3. ASSUME NEW i \in 1 .. Len(list2) PROVE list2[i] \in DOMAIN cn2
    BY <1>5
  <2> QED
    BY <1>5, <2>1, <2>2, <2>3 DEF Listed
<1>7. Sorted(list2, cn2)
  <2> SUFFICES ASSUME NEW i \in 1 .. Len(list2), NEW j \in 1 .. Len(list2), i < j
               PROVE  cn2[list2[i]].idle_start <= cn2[list2[j]].idle_start
    BY DEF Sorted
  <2>1. i \in 1 .. Len(list) /\ list2[i] = list[i] /\ list[i] \in DOMAIN cn
    BY <1>5
  <2>2. cn2[list2[i]].idle_start = cn[list[i]].idle_start
    BY <2>1
  <2>3. CASE j \in 1 .. Len(list)
    <3>1. list2[j] = list[j] /\ list[j] \in DOMAIN cn
      BY <2>3, <1>5
    <3>2. cn2[list2[j]].idle_start = cn[list[j]].idle_start
      BY <3>1
    <3> QED
      BY <2>1, <2>2, <2>3, <3>2, <1>1 DEF Sorted
  <2>4. CASE j = Len(list) + 1
    <3>1. cn2[list2[j]].idle_start = t
      BY <2>4, <1>5
    <3> QED
      BY <2>1, <2>2, <3>1
  <2> QED
    BY <1>5, <2>3, <2>4
<1> QED
  BY <1>2, <1>4, <1>6, <1>7 DEF Heap, list2

\* connection_io: the connection goes to the tail with the current time.
LEMMA TouchHeap ==
  ASSUME NEW tbl, NEW list, NEW cn, Heap(tbl, list, cn), NEW c \in DOMAIN cn,
         NEW t \in Nat, \A d \in DOMAIN cn : cn[d].idle_start <= t
  PROVE  Heap(tbl, Append(dlist_detach(list, c), c),
              [cn EXCEPT ![c] = [fd |-> @.fd, idle_start |-> t]])
<1> DEFINE f == cn[c].fd
           tbl1 == [tbl EXCEPT ![f] = NULL]
           list1 == dlist_detach(list, c)
           cn1 == [d \in DOMAIN cn \ {c} |-> cn[d]]
           cn2 == [d \in DOMAIN cn1 \cup {c} |->
                     IF d = c THEN [fd |-> f, idle_start |-> t] ELSE cn1[d]]
<1>1. Typed(tbl, cn) /\ Filed(tbl, cn)
  BY DEF Heap
<1>2. c \in Conn /\ f \in Fd /\ tbl[f] = c /\ tbl1[f] = NULL
  BY <1>1 DEF Typed, Filed
<1>3. Heap(tbl1, list1, cn1)
  BY DoneHeap
<1>4. \A d \in DOMAIN cn1 : cn1[d].idle_start <= t
  OBVIOUS
<1>5. [tbl1 EXCEPT ![f] = c] = tbl
  BY <1>1, <1>2 DEF Typed
<1>6. cn2 = [cn EXCEPT ![c] = [fd |-> @.fd, idle_start |-> t]]
  BY <1>1 DEF Typed
<1>7. c \notin DOMAIN cn1
  OBVIOUS
<1> HIDE DEF tbl1, list1, cn1, f
<1>8. Heap([tbl1 EXCEPT ![f] = c], Append(list1, c), cn2)
  BY <1>2, <1>3, <1>4, <1>7, TailHeap
<1> QED
  BY <1>5, <1>6, <1>8 DEF list1

\* The truncated sleep falls short of the first expiry by less than a
\* millisecond.
LEMMA Truncation ==
  ASSUME NEW a \in Nat, NEW u \in Nat \ {0}
  PROVE  (a \div u) * u \in Nat /\ (a \div u) * u <= a /\ a < (a \div u) * u + u
<1>1. a = u * (a \div u) + (a % u) /\ a % u \in 0 .. u - 1 /\ a \div u \in Nat
  OBVIOUS
<1>2. u * (a \div u) = (a \div u) * u /\ u * (a \div u) \in Nat
  BY <1>1
<1> QED
  BY <1>1, <1>2

\* The head of the list is the first to expire.
LEMMA HeadFirst ==
  ASSUME Heap(fd2conn, idle_list, conn), NEW c \in DOMAIN conn
  PROVE  /\ idle_list # <<>> /\ Head(idle_list) \in DOMAIN conn
         /\ conn[Head(idle_list)].idle_start <= conn[c].idle_start
<1>1. Listed(idle_list, conn) /\ Sorted(idle_list, conn) /\ Typed(fd2conn, conn)
  BY DEF Heap
<1>2. PICK i \in 1 .. Len(idle_list) : idle_list[i] = c
  BY <1>1 DEF Listed
<1>3. /\ idle_list # <<>> /\ 1 \in 1 .. Len(idle_list)
      /\ Head(idle_list) = idle_list[1] /\ idle_list[1] \in DOMAIN conn
  BY <1>1, <1>2 DEF Listed
<1>4. conn[idle_list[1]].idle_start <= conn[idle_list[i]].idle_start
  <2>1. CASE i = 1
    BY <2>1, <1>1, <1>2, <1>3 DEF Typed
  <2>2. CASE i # 1
    BY <2>2, <1>1, <1>2, <1>3 DEF Sorted
  <2> QED
    BY <2>1, <2>2
<1> QED
  BY <1>2, <1>3, <1>4

\* Types of the durations.
LEMMA Durations ==
  /\ Timeout \in Nat /\ UsPerMs \in Nat \ {0} /\ NoTimer * UsPerMs \in Nat
  BY EventLoopAssumption DEF Timeout

\* A Conn that is listed is allocated.
LEMMA HeadAllocated ==
  ASSUME Heap(fd2conn, idle_list, conn), idle_list # <<>>
  PROVE  Head(idle_list) \in DOMAIN conn
<1>1. Listed(idle_list, conn)
  BY DEF Heap
<1>2. 1 \in 1 .. Len(idle_list) /\ Head(idle_list) = idle_list[1]
  BY <1>1 DEF Listed
<1> QED
  BY <1>1, <1>2 DEF Listed

\* The empty server satisfies the invariant.
LEMMA InitIInv == Init => IInv
<1> SUFFICES ASSUME Init PROVE IInv
  OBVIOUS
<1>1. TypeOK
  <2>1. conn = [c \in {} |-> {}]
    BY DEF Init
  <2>2. DOMAIN conn = {}
    BY <2>1
  <2>3. conn = [c \in DOMAIN conn |-> conn[c]]
    BY <2>1
  <2>4. conn \in [DOMAIN conn -> [fd : Fd, idle_start : Nat]]
    BY <2>2, <2>3
  <2>5. fd2conn \in [Fd -> Conn \cup {NULL}] /\ poll_args \in [Fd -> Conn \cup {NULL}]
    BY DEF Init
  <2>6. idle_list \in Seq(Conn)
    BY DEF Init
  <2> QED
    BY <2>2, <2>4, <2>5, <2>6 DEF Init, TypeOK, PC
<1>2. /\ idle_list = <<>> /\ DOMAIN conn = {} /\ pc = "top"
      /\ \A f \in Fd : fd2conn[f] = NULL
  BY DEF Init
<1>3. OneConnOneTimer /\ IdleListSorted
  BY <1>2 DEF OneConnOneTimer, IdleListSorted
<1>4. now = 0 /\ now_us = 0
  BY DEF Init
<1>5. PolledConnAlive /\ NoOversleep /\ TimeoutFires /\ NoneExpiredLeft
  BY <1>2 DEF PolledConnAlive, NoOversleep, TimeoutFires, NoneExpiredLeft
<1> QED
  BY <1>1, <1>2, <1>3, <1>4, <1>5 DEF IInv

\* What first is, of a list of the heap.
LEMMA FirstIsHead ==
  ASSUME Heap(fd2conn, idle_list, conn)
  PROVE  /\ idle_list = <<>> => first = NULL
         /\ idle_list # <<>> => first = Head(idle_list) /\ first # NULL /\ first \in DOMAIN conn
<1>1. idle_list # <<>> => Head(idle_list) \in DOMAIN conn
  BY HeadAllocated
<1>2. NULL \notin DOMAIN conn
  BY EventLoopAssumption DEF Heap, Typed
<1> QED
  BY <1>1, <1>2 DEF first

\* next_timer_ms: a timeout that ends at or before the first expiry, and
\* less than a millisecond before it.
LEMMA TimerTruncated ==
  ASSUME Heap(fd2conn, idle_list, conn), now \in Nat
  PROVE  /\ next_timer_ms(first) \in Nat
         /\ idle_list # <<>> =>
              /\ conn[first].idle_start + Timeout < now + next_timer_ms(first) * UsPerMs + UsPerMs
              /\ \/ next_timer_ms(first) = 0
                 \/ now + next_timer_ms(first) * UsPerMs <= conn[first].idle_start + Timeout
<1>1. CASE idle_list = <<>>
  BY <1>1, FirstIsHead, EventLoopAssumption DEF next_timer_ms
<1>2. CASE idle_list # <<>>
  <2> DEFINE next_us == conn[first].idle_start + Timeout
             ms == next_timer_ms(first)
  <2>1. first # NULL /\ first \in DOMAIN conn
    BY <1>2, FirstIsHead
  <2>2. next_us \in Nat
    <3>1. conn[first].idle_start \in Nat
      BY <2>1 DEF Heap, Typed
    <3> QED
      BY <3>1, Durations
  <2> HIDE DEF next_us
  <2>3. ms = IF next_us <= now THEN 0 ELSE (next_us - now) \div UsPerMs
    BY <2>1 DEF next_timer_ms, next_us
  <2> HIDE DEF ms
  <2>4. CASE next_us <= now
    BY <2>2, <2>3, <2>4, Durations DEF next_us, ms
  <2>5. CASE ~ (next_us <= now)
    <3>1. next_us - now \in Nat
      BY <2>2, <2>5
    <3>2. ms = (next_us - now) \div UsPerMs
      BY <2>3, <2>5
    <3>3. ms \in Nat
      BY <3>1, <3>2, Durations
    <3>4. ms * UsPerMs \in Nat /\ ms * UsPerMs <= next_us - now /\ next_us - now < ms * UsPerMs + UsPerMs
      BY <3>1, <3>2, Truncation, Durations
    <3> DEFINE d == ms * UsPerMs
    <3>5. now + d <= next_us /\ next_us < now + d + UsPerMs
      <4> HIDE DEF d
      <4>1. d \in Nat /\ d <= next_us - now /\ next_us - now < d + UsPerMs
        BY <3>4 DEF d
      <4> QED
        BY <4>1, <2>2, Durations
    <3> QED
      BY <3>3, <3>5, <1>2 DEF next_us, ms
  <2> QED
    BY <2>4, <2>5
<1> QED
  BY <1>1, <1>2

\* The timeout is computed for the table and the list as they are.
LEMMA AskIInv ==
  ASSUME IInv, AskTimeout(first)
  PROVE  IInv'
<1> DEFINE ms == next_timer_ms(first)
<1>1. /\ UNCHANGED <<fd2conn, idle_list, conn, now, until, woken, ready, listening>>
      /\ pc = "top" /\ pc' = "ask" /\ poll_args' = fd2conn
      /\ timeout_ms' = ms /\ now_us' = IF first = NULL THEN now_us ELSE now
  BY DEF AskTimeout, heap
<1>2. /\ Heap(fd2conn, idle_list, conn) /\ now \in Nat
      /\ \A c \in DOMAIN conn : conn[c].idle_start \in Nat
  BY IInvHeap DEF Heap, Typed
<1>3. /\ ms \in Nat
      /\ idle_list # <<>> =>
           /\ conn[first].idle_start + Timeout < now + ms * UsPerMs + UsPerMs
           /\ ms = 0 \/ now + ms * UsPerMs <= conn[first].idle_start + Timeout
  BY <1>2, TimerTruncated
<1> HIDE DEF ms
<1>4. idle_list # <<>> => now_us' = now /\ first = Head(idle_list)
  BY <1>1, <1>2, FirstIsHead
<1>5. \A c \in DOMAIN conn :
        timeout_ms' = 0 \/ now_us' + timeout_ms' * UsPerMs <= conn[c].idle_start + Timeout
  <2> SUFFICES ASSUME NEW c \in DOMAIN conn
               PROVE  ms = 0 \/ now_us' + ms * UsPerMs <= conn[c].idle_start + Timeout
    BY <1>1
  <2>1. /\ idle_list # <<>> /\ Head(idle_list) \in DOMAIN conn
        /\ conn[Head(idle_list)].idle_start <= conn[c].idle_start
    BY <1>2, HeadFirst
  <2>2. now_us' = now /\ (ms = 0 \/ now + ms * UsPerMs <= conn[Head(idle_list)].idle_start + Timeout)
    BY <1>3, <1>4, <2>1
  <2>3. ms * UsPerMs \in Int
    BY <1>3, Durations
  <2> DEFINE d == ms * UsPerMs
  <2> HIDE DEF d
  <2>4. /\ d \in Int /\ now \in Nat /\ Timeout \in Int
        /\ conn[Head(idle_list)].idle_start \in Nat /\ conn[c].idle_start \in Nat
    BY <2>1, <2>3, <1>2, Durations DEF d
  <2>5. now + d <= conn[Head(idle_list)].idle_start + Timeout => now + d <= conn[c].idle_start + Timeout
    BY <2>1, <2>4
  <2> QED
    BY <2>2, <2>5 DEF d
<1>6. now_us' \in Nat /\ now_us' <= now
  BY <1>1, <1>2 DEF IInv, TypeOK
<1>7. TypeOK'
  BY <1>1, <1>3, <1>6 DEF IInv, TypeOK, PC
<1>8. OneConnOneTimer' /\ IdleListSorted'
  BY <1>1 DEF IInv, OneConnOneTimer, IdleListSorted
<1>9. NoOversleep'
  BY <1>1, <1>5 DEF NoOversleep
<1>10. (idle_list # <<>> => Expired(Head(idle_list), now_us + timeout_ms * UsPerMs))'
  BY <1>1, <1>3, <1>4 DEF Expired
<1>11. PolledConnAlive' /\ TimeoutFires' /\ NoneExpiredLeft'
  BY <1>1 DEF PolledConnAlive, TimeoutFires, NoneExpiredLeft
<1>12. now_us' <= now' /\ \A c \in DOMAIN conn' : conn'[c].idle_start <= now'
  BY <1>1, <1>6 DEF IInv
<1> QED
  BY <1>1, <1>7, <1>8, <1>9, <1>10, <1>11, <1>12 DEF IInv

\* A step that leaves table, list and connections alone disturbs only what
\* the invariant says of its own stage of the round.
LEMMA SameHeap ==
  ASSUME IInv, UNCHANGED <<fd2conn, idle_list, conn>>
  PROVE  /\ OneConnOneTimer' /\ IdleListSorted'
         /\ fd2conn' \in [Fd -> Conn \cup {NULL}]
         /\ idle_list' \in Seq(Conn)
         /\ DOMAIN conn' \subseteq Conn
         /\ conn' \in [DOMAIN conn' -> [fd : Fd, idle_start : Nat]]
         /\ \A c \in DOMAIN conn : conn[c].idle_start \in Nat
  BY DEF IInv, TypeOK, OneConnOneTimer, IdleListSorted

\* poll() is entered after the clock was read: it gives up when the time
\* that was asked for is over, or later.
LEMMA PollIInv ==
  ASSUME IInv, Poll
  PROVE  IInv'
<1>1. /\ UNCHANGED <<fd2conn, idle_list, conn, now, poll_args, timeout_ms, woken, ready, listening, now_us>>
      /\ pc = "ask" /\ pc' = "poll"
      /\ until' = now + timeout_ms * UsPerMs
  BY DEF Poll, heap
<1>2. /\ now \in Nat /\ now_us \in Nat /\ now_us <= now /\ timeout_ms * UsPerMs \in Nat
  BY Durations DEF IInv, TypeOK
<1>3. until' \in Nat /\ now_us' + timeout_ms' * UsPerMs <= until'
  <2> DEFINE d == timeout_ms * UsPerMs
  <2>1. now_us' + timeout_ms' * UsPerMs = now_us + d /\ until' = now + d
    BY <1>1
  <2>2. d \in Nat
    BY <1>2
  <2> HIDE DEF d
  <2> QED
    BY <1>2, <2>1, <2>2
<1>4. TypeOK'
  BY <1>1, <1>3 DEF IInv, TypeOK, PC
<1>5. NoOversleep' /\ (idle_list # <<>> => Expired(Head(idle_list), now_us + timeout_ms * UsPerMs))'
  BY <1>1 DEF IInv, NoOversleep, Expired
<1>6. PolledConnAlive' /\ TimeoutFires' /\ NoneExpiredLeft'
  BY <1>1 DEF PolledConnAlive, TimeoutFires, NoneExpiredLeft
<1> QED
  BY <1>1, <1>3, <1>4, <1>5, <1>6, SameHeap DEF IInv

\* poll() returns: what it reports is connected, or time is up.
LEMMA PollReturnIInv ==
  ASSUME IInv, NEW R \in SUBSET Fd, NEW l \in BOOLEAN, PollReturn(R, l)
  PROVE  IInv'
<1>1. /\ UNCHANGED <<fd2conn, idle_list, conn, now, poll_args, timeout_ms, now_us>>
      /\ pc = "poll" /\ pc' = "io" /\ until' = 0
      /\ ready' = R /\ woken' = (R # {} \/ l) /\ listening' = l
      /\ \A f \in R : poll_args[f] # NULL
      /\ ~ woken' => now >= until
  BY DEF PollReturn, heap
<1>2. TypeOK'
  BY <1>1 DEF IInv, TypeOK, PC
<1>3. PolledConnAlive'
  BY <1>1 DEF IInv, PolledConnAlive
<1>4. TimeoutFires'
  <2> SUFFICES ASSUME ~ woken', idle_list # <<>>
               PROVE  Expired(Head(idle_list), now)
    BY <1>1 DEF TimeoutFires, Expired
  <2>1. Expired(Head(idle_list), now_us + timeout_ms * UsPerMs) /\ now_us + timeout_ms * UsPerMs <= until
    BY <1>1 DEF IInv
  <2>2. now >= until /\ now \in Nat /\ until \in Nat
    BY <1>1 DEF IInv, TypeOK
  <2>3. conn[Head(idle_list)].idle_start \in Nat
    BY <1>1, IInvHeap, HeadAllocated, SameHeap
  <2> DEFINE asked == now_us + timeout_ms * UsPerMs
  <2>4. now_us \in Nat /\ timeout_ms \in Nat
    BY DEF IInv, TypeOK
  <2>5. asked \in Nat
    BY <2>4, Durations
  <2>6. Expired(Head(idle_list), asked) /\ asked <= until
    BY <2>1
  <2> HIDE DEF asked
  <2> QED
    BY <2>2, <2>3, <2>5, <2>6, Durations DEF Expired
<1>5. NoOversleep' /\ NoneExpiredLeft'
  BY <1>1 DEF NoOversleep, NoneExpiredLeft
<1> QED
  BY <1>1, <1>2, <1>3, <1>4, <1>5, SameHeap DEF IInv

\* The stages that only pass control on.
LEMMA ControlIInv ==
  ASSUME IInv, PollFail \/ StartTimers \/ AcceptNoMemory \/ AcceptFail \/ NoAccept
  PROVE  IInv'
<1>1. /\ UNCHANGED <<fd2conn, idle_list, conn, now, poll_args, timeout_ms, until, woken, ready, listening>>
      /\ pc' \in {"dead", "timers", "top"} /\ now_us' \in {now, now_us}
  BY DEF PollFail, StartTimers, AcceptNoMemory, AcceptFail, NoAccept, heap, round
<1>2. TypeOK'
  BY <1>1 DEF IInv, TypeOK, PC
<1>3. PolledConnAlive' /\ TimeoutFires' /\ NoOversleep' /\ NoneExpiredLeft'
  BY <1>1 DEF PolledConnAlive, TimeoutFires, NoOversleep, NoneExpiredLeft
<1>4. now_us' <= now' /\ \A c \in DOMAIN conn' : conn'[c].idle_start <= now'
  BY <1>1 DEF IInv, TypeOK
<1> QED
  BY <1>1, <1>2, <1>3, <1>4, SameHeap DEF IInv

\* Stopping at the first timer that is not ready leaves none that is.
LEMMA TimersDoneIInv ==
  ASSUME IInv, TimersDone(first)
  PROVE  IInv'
<1>1. /\ UNCHANGED <<fd2conn, idle_list, conn, now, poll_args, timeout_ms, until, woken, ready, listening, now_us>>
      /\ pc' = "accept" /\ ~ MustClose(first)
  BY DEF TimersDone, heap, round
<1>2. TypeOK'
  BY <1>1 DEF IInv, TypeOK, PC
<1>3. NoneExpiredLeft'
  <2> SUFFICES ASSUME NEW c \in DOMAIN conn PROVE ~ Expired(c, now_us)
    BY <1>1 DEF NoneExpiredLeft, Expired
  <2>1. /\ idle_list # <<>> /\ Head(idle_list) \in DOMAIN conn
        /\ conn[Head(idle_list)].idle_start <= conn[c].idle_start
    BY IInvHeap, HeadFirst
  <2>2. ~ Expired(Head(idle_list), now_us)
    BY <1>1, <2>1, IInvHeap, FirstIsHead DEF MustClose
  <2>3. now_us \in Nat
    BY DEF IInv, TypeOK
  <2>4. conn[Head(idle_list)].idle_start \in Nat /\ conn[c].idle_start \in Nat
    BY <2>1, IInvHeap DEF Heap, Typed
  <2> QED
    BY <2>1, <2>2, <2>3, <2>4, Durations DEF Expired
<1>4. PolledConnAlive' /\ TimeoutFires' /\ NoOversleep'
  BY <1>1 DEF PolledConnAlive, TimeoutFires, NoOversleep
<1> QED
  BY <1>1, <1>2, <1>3, <1>4, SameHeap DEF IInv

\* An expired connection goes from the table, the list and the heap.
LEMMA CloseIdleIInv ==
  ASSUME IInv, CloseIdle(first)
  PROVE  IInv'
<1> DEFINE c == Head(idle_list)
<1>0. idle_list # <<>> /\ first = c
  BY IInvHeap, FirstIsHead DEF CloseIdle, MustClose
<1>1. /\ UNCHANGED <<now, pc, poll_args, timeout_ms, until, woken, ready, listening, now_us>>
      /\ pc = "timers"
      /\ fd2conn' = [fd2conn EXCEPT ![conn[c].fd] = NULL]
      /\ idle_list' = dlist_detach(idle_list, c)
      /\ conn' = [d \in DOMAIN conn \ {c} |-> conn[d]]
  BY <1>0 DEF CloseIdle, conn_done, round
<1>2. c \in DOMAIN conn
  BY <1>0, IInvHeap, HeadAllocated
<1>3. Heap(fd2conn', idle_list', conn')
  BY <1>1, <1>2, IInvHeap, DoneHeap
<1>5. \A d \in DOMAIN conn' : conn'[d].idle_start <= now
  BY <1>1 DEF IInv
<1>6. /\ OneConnOneTimer' /\ IdleListSorted'
      /\ fd2conn' \in [Fd -> Conn \cup {NULL}]
      /\ idle_list' \in Seq(Conn)
      /\ DOMAIN conn' \subseteq Conn
      /\ conn' \in [DOMAIN conn' -> [fd : Fd, idle_start : Nat]]
  BY <1>3 DEF Heap, Typed, Filed, Listed, Sorted, Distinct, OneConnOneTimer, IdleListSorted
<1>7. TypeOK'
  BY <1>1, <1>6 DEF IInv, TypeOK
<1>8. PolledConnAlive' /\ TimeoutFires' /\ NoOversleep' /\ NoneExpiredLeft'
  BY <1>1 DEF PolledConnAlive, TimeoutFires, NoOversleep, NoneExpiredLeft
<1> QED
  BY <1>1, <1>5, <1>6, <1>7, <1>8 DEF IInv

\* A ready descriptor is handled: its connection moves to the tail, or is
\* destroyed; the other ready descriptors keep theirs.
LEMMA HandleConnIInv ==
  ASSUME IInv, NEW f \in Fd, NEW ended \in BOOLEAN, HandleConn(f, ended)
  PROVE  IInv'
<1> DEFINE c == fd2conn[f]
           list == Append(dlist_detach(idle_list, c), c)
           touched == [conn EXCEPT ![c] = [fd |-> @.fd, idle_start |-> now]]
<1>1. /\ UNCHANGED <<now, pc, poll_args, timeout_ms, until, woken, listening, now_us>>
      /\ pc = "io" /\ ready # {} /\ ready' = ready \ {f}
      /\ \/ /\ ended
            /\ fd2conn' = [fd2conn EXCEPT ![conn[c].fd] = NULL]
            /\ idle_list' = dlist_detach(list, c)
            /\ conn' = [d \in DOMAIN conn \ {c} |-> conn[d]]
         \/ ~ ended /\ conn' = touched /\ idle_list' = list /\ UNCHANGED fd2conn
  BY DEF HandleConn, NextReady, conn_done, dlist_insert_before
<1>2. f \in ready
  BY DEF HandleConn, NextReady
<1>3. c # NULL /\ c = fd2conn[f] /\ c \in DOMAIN conn /\ conn[c].fd = f
  BY <1>1, <1>2 DEF IInv, PolledConnAlive, OneConnOneTimer
<1> HIDE DEF c
<1>4. Heap(fd2conn, list, touched)
  BY <1>3, IInvHeap, TouchHeap
<1>5. Heap(fd2conn', idle_list', conn')
  <2>1. CASE ended
    <3>1. c \in DOMAIN touched /\ touched[c].fd = conn[c].fd
      BY <1>3
    <3>2. [d \in DOMAIN touched \ {c} |-> touched[d]] = [d \in DOMAIN conn \ {c} |-> conn[d]]
      OBVIOUS
    <3>3. Heap([fd2conn EXCEPT ![touched[c].fd] = NULL], dlist_detach(list, c),
               [d \in DOMAIN touched \ {c} |-> touched[d]])
      BY <1>4, <3>1, DoneHeap
    <3> HIDE DEF touched, list
    <3> QED
      BY <1>1, <2>1, <3>1, <3>2, <3>3
  <2>2. CASE ~ ended
    BY <1>1, <1>4, <2>2
  <2> QED
    BY <2>1, <2>2
<1>6. \A d \in DOMAIN conn' : conn'[d].idle_start <= now
  <2>1. now \in Nat /\ \A d \in DOMAIN conn : conn[d].idle_start <= now
    BY IInvHeap
  <2>2. \A d \in DOMAIN touched : touched[d].idle_start <= now
    BY <2>1
  <2> QED
    BY <1>1, <2>1, <2>2
<1>7. /\ OneConnOneTimer' /\ IdleListSorted'
      /\ fd2conn' \in [Fd -> Conn \cup {NULL}]
      /\ idle_list' \in Seq(Conn)
      /\ DOMAIN conn' \subseteq Conn
      /\ conn' \in [DOMAIN conn' -> [fd : Fd, idle_start : Nat]]
  BY <1>5 DEF Heap, Typed, Filed, Listed, Sorted, Distinct, OneConnOneTimer, IdleListSorted
<1>8. TypeOK'
  BY <1>1, <1>7 DEF IInv, TypeOK
<1>9. PolledConnAlive'
  <2>1. \A g \in ready' : fd2conn'[g] = fd2conn[g] /\ g \in ready
    BY <1>1, <1>3 DEF IInv, TypeOK
  <2> QED
    BY <1>1, <2>1 DEF IInv, PolledConnAlive
<1>10. woken
  BY <1>1 DEF IInv
<1>11. TimeoutFires' /\ NoOversleep' /\ NoneExpiredLeft'
  BY <1>1, <1>10 DEF TimeoutFires, NoOversleep, NoneExpiredLeft
<1> QED
  BY <1>1, <1>6, <1>7, <1>8, <1>9, <1>10, <1>11 DEF IInv

\* A new connection gets a free descriptor and the tail of the list.
LEMMA AcceptIInv ==
  ASSUME IInv, NEW f \in Fd, NEW c \in Conn, Accept(f, c)
  PROVE  IInv'
<1>1. /\ UNCHANGED <<now, poll_args, timeout_ms, until, woken, ready, listening, now_us>>
      /\ pc' = "top" /\ fd2conn[f] = NULL /\ c \notin DOMAIN conn
      /\ fd2conn' = [fd2conn EXCEPT ![f] = c]
      /\ idle_list' = Append(idle_list, c)
      /\ conn' = [d \in DOMAIN conn \cup {c} |->
                    IF d = c THEN [fd |-> f, idle_start |-> now] ELSE conn[d]]
  BY DEF Accept, dlist_insert_before, round
<1>2. /\ now \in Nat /\ \A d \in DOMAIN conn : conn[d].idle_start <= now
      /\ Heap(fd2conn, idle_list, conn)
  BY IInvHeap
<1>3. Heap(fd2conn', idle_list', conn')
  <2>1. c \notin DOMAIN conn /\ fd2conn[f] = NULL
    BY <1>1
  <2>2. Heap([fd2conn EXCEPT ![f] = c], Append(idle_list, c),
             [d \in DOMAIN conn \cup {c} |->
                IF d = c THEN [fd |-> f, idle_start |-> now] ELSE conn[d]])
    BY <1>2, <2>1, TailHeap
  <2> QED
    BY <1>1, <2>2
<1>4. \A d \in DOMAIN conn' : conn'[d].idle_start <= now
  BY <1>1, <1>2
<1>5. /\ OneConnOneTimer' /\ IdleListSorted'
      /\ fd2conn' \in [Fd -> Conn \cup {NULL}]
      /\ idle_list' \in Seq(Conn)
      /\ DOMAIN conn' \subseteq Conn
      /\ conn' \in [DOMAIN conn' -> [fd : Fd, idle_start : Nat]]
  BY <1>3 DEF Heap, Typed, Filed, Listed, Sorted, Distinct, OneConnOneTimer, IdleListSorted
<1>6. TypeOK'
  BY <1>1, <1>5 DEF IInv, TypeOK, PC
<1>7. PolledConnAlive' /\ TimeoutFires' /\ NoOversleep' /\ NoneExpiredLeft'
  BY <1>1 DEF PolledConnAlive, TimeoutFires, NoOversleep, NoneExpiredLeft
<1> QED
  BY <1>1, <1>4, <1>5, <1>6, <1>7 DEF IInv

\* Time may pass at any step.
LEMMA TickIInv ==
  ASSUME IInv, Tick
  PROVE  IInv'
<1>1. /\ UNCHANGED <<fd2conn, idle_list, conn, pc, poll_args, timeout_ms, until, woken, ready, listening, now_us>>
      /\ now' = now + 1 /\ now \in Nat
  BY DEF Tick, heap, round, IInv, TypeOK
<1>2. /\ TypeOK' /\ PolledConnAlive' /\ NoneExpiredLeft'
      /\ \A c \in DOMAIN conn' : conn'[c].idle_start <= now'
      /\ now_us' <= now'
      /\ (pc \in {"ask", "poll"} => poll_args = fd2conn)' /\ (pc = "io" /\ ~ woken => ready = {})'
  BY <1>1, SameHeap DEF IInv, TypeOK, PolledConnAlive, NoneExpiredLeft, Expired
<1>3. NoOversleep'
  BY <1>1 DEF IInv, NoOversleep
<1>4. TimeoutFires'
  <2> SUFFICES ASSUME pc = "io", ~ woken, idle_list # <<>>
               PROVE  Expired(Head(idle_list), now')
    BY <1>1 DEF TimeoutFires, Expired
  <2>1. Expired(Head(idle_list), now) /\ Head(idle_list) \in DOMAIN conn
    BY IInvHeap, HeadAllocated DEF IInv, TimeoutFires
  <2>2. conn[Head(idle_list)].idle_start \in Nat
    BY <2>1, IInvHeap DEF Heap, Typed
  <2> QED
    BY <2>1, <2>2, <1>1, Durations DEF Expired
<1>5. /\ (pc \in {"ask", "poll"} /\ idle_list # <<>> =>
            Expired(Head(idle_list), now_us + timeout_ms * UsPerMs))'
      /\ (pc = "poll" => now_us + timeout_ms * UsPerMs <= until)'
  BY <1>1 DEF IInv, Expired
<1> QED
  BY <1>1, <1>2, <1>3, <1>4, <1>5, SameHeap DEF IInv

\* Every step of the loop, and of the clock, keeps the invariant.
LEMMA NextIInv == IInv /\ [Next]_vars => IInv'
<1> SUFFICES ASSUME IInv, [Next]_vars PROVE IInv'
  OBVIOUS
<1>0. CASE AskTimeout(first)
  BY <1>0, AskIInv
<1>1. CASE Poll
  BY <1>1, PollIInv
<1>2. CASE \E R \in SUBSET Fd, l \in BOOLEAN : PollReturn(R, l)
  BY <1>2, PollReturnIInv
<1>3. CASE PollFail \/ StartTimers \/ AcceptNoMemory \/ AcceptFail \/ NoAccept
  BY <1>3, ControlIInv
<1>4. CASE \E f \in Fd, ended \in BOOLEAN : HandleConn(f, ended)
  BY <1>4, HandleConnIInv
<1>5. CASE CloseIdle(first)
  BY <1>5, CloseIdleIInv
<1>6. CASE TimersDone(first)
  BY <1>6, TimersDoneIInv
<1>7. CASE \E f \in Fd, c \in Conn : Accept(f, c)
  BY <1>7, AcceptIInv
<1>8. CASE Tick
  BY <1>8, TickIInv
<1>9. CASE UNCHANGED vars
  <2>1. UNCHANGED <<fd2conn, idle_list, conn, now, pc, poll_args, timeout_ms, until, woken, ready, listening, now_us>>
    BY <1>9 DEF vars
  <2>2. /\ TypeOK' /\ PolledConnAlive' /\ NoneExpiredLeft' /\ NoOversleep' /\ TimeoutFires'
    BY <2>1 DEF IInv, TypeOK, PolledConnAlive, NoneExpiredLeft, NoOversleep, TimeoutFires, Expired
  <2>3. /\ (pc \in {"ask", "poll"} /\ idle_list # <<>> =>
              Expired(Head(idle_list), now_us + timeout_ms * UsPerMs))'
        /\ (pc = "poll" => now_us + timeout_ms * UsPerMs <= until)'
    BY <2>1 DEF IInv, Expired
  <2> QED
    BY <2>1, <2>2, <2>3, SameHeap DEF IInv
<1> QED
  BY <1>0, <1>1, <1>2, <1>3, <1>4, <1>5, <1>6, <1>7, <1>8, <1>9 DEF Next, Loop

\* The invariant of the loop.
THEOREM IInvHolds == SafeSpec => []IInv
  BY InitIInv, NextIInv, PTL DEF SafeSpec

\* The variables keep their types.
THEOREM TypeCorrect == SafeSpec => []TypeOK
<1>1. IInv => TypeOK
  BY DEF IInv
<1> QED
  BY <1>1, IInvHolds, PTL

\* No connection is leaked, listed twice or used after it is destroyed.
THEOREM ConnsAndTimersAgree == SafeSpec => []OneConnOneTimer
<1>1. IInv => OneConnOneTimer
  BY DEF IInv
<1> QED
  BY <1>1, IInvHolds, PTL

\* The idle list is sorted by expiry.
THEOREM IdleListStaysSorted == SafeSpec => []IdleListSorted
<1>1. IInv => IdleListSorted
  BY DEF IInv
<1> QED
  BY <1>1, IInvHolds, PTL

\* A ready descriptor is handled for the connection that was polled.
THEOREM HandledIsPolled == SafeSpec => []PolledConnAlive
<1>1. IInv => PolledConnAlive
  BY DEF IInv
<1> QED
  BY <1>1, IInvHolds, PTL

\* poll() is asked to sleep no longer than the first timer allows
\* (server.cpp:813-830).
THEOREM LoopNeverOversleeps == SafeSpec => []NoOversleep
<1>1. IInv => NoOversleep
  BY DEF IInv
<1> QED
  BY <1>1, IInvHolds, PTL

\* A timeout of poll finds a timer that counts as expired, although the two
\* are computed from clocks read at different times (server.cpp:829, 840).
THEOREM TimeoutsFire == SafeSpec => []TimeoutFires
<1>1. IInv => TimeoutFires
  BY DEF IInv
<1> QED
  BY <1>1, IInvHolds, PTL

\* process_timers leaves no connection that it should have closed, however
\* far down the list (server.cpp:834-846).
THEOREM NoneExpiredStays == SafeSpec => []NoneExpiredLeft
<1>1. IInv => NoneExpiredLeft
  BY DEF IInv
<1> QED
  BY <1>1, IInvHolds, PTL

\* Only process_timers takes a Conn away after the ready descriptors have
\* been handled, and it goes by a clock that is not ahead.
LEMMA ClosedInTime ==
  ASSUME IInv, [Next]_vars, pc = "timers", NEW c \in DOMAIN conn \ DOMAIN conn'
  PROVE  conn[c].idle_start + Timeout < now + UsPerMs
<1>1. CASE CloseIdle(first)
  <2>1. c = first
    BY <1>1 DEF CloseIdle, conn_done
  <2>2. Expired(c, now_us)
    BY <1>1, <2>1 DEF CloseIdle, MustClose
  <2>3. now_us \in Nat /\ now \in Nat /\ now_us <= now /\ conn[c].idle_start \in Nat
    BY SameHeap, IInvHeap DEF IInv, TypeOK, Heap, Typed
  <2> QED
    BY <2>2, <2>3, Durations DEF Expired
<1>2. CASE TimersDone(first) \/ Tick \/ UNCHANGED vars
  <2>1. conn' = conn
    BY <1>2 DEF TimersDone, Tick, heap, vars
  <2> QED
    BY <2>1
<1> QED
  BY <1>1, <1>2 DEF Next, Loop, AskTimeout, Poll, PollReturn, PollFail, HandleConn, NextReady,
     StartTimers, Accept, AcceptNoMemory, AcceptFail, NoAccept

\* No connection is closed for idleness early, by more than the millisecond
\* that poll() cannot tell (server.cpp:833-845).
THEOREM NeverClosedEarly == SafeSpec => NeverEarly
<1>1. IInv /\ [Next]_vars =>
        [\A c \in DOMAIN conn \ DOMAIN conn' :
           pc = "timers" => conn[c].idle_start + Timeout < now + UsPerMs]_vars
  BY ClosedInTime
<1> QED
  BY <1>1, IInvHolds, PTL DEF SafeSpec, NeverEarly
-----------------------------------------------------------------------------
(***************************************************************************)
(* Whatever the loop does, prev and next form the ring of the idle list.   *)
(* The two lemmas on list.h hold for any list.                             *)
(***************************************************************************)

\* Node i of the ring of a list.
At(list, i) == D!RingNode(Sentinel, list, i)

Ring(l, list) == D!Linked(l, Sentinel, list)

LinksType == [Node -> [prev : Node \cup {NULL}, next : Node \cup {NULL}]]

\* Neither end of a stretch of the ring that leaves out one of its ends
\* comes twice.
LEMMA RingDistinct ==
  ASSUME NEW list \in Seq(Conn), Distinct(list)
  PROVE  /\ \A i \in 0 .. Len(list) + 1 : At(list, i) \in Node
         /\ \A i, j \in 0 .. Len(list) : At(list, i) = At(list, j) => i = j
         /\ \A i, j \in 1 .. Len(list) + 1 : At(list, i) = At(list, j) => i = j
<1>1. Len(list) \in Nat /\ \A i \in 1 .. Len(list) : list[i] \in Conn /\ list[i] # Sentinel
  BY SentinelAssumption
<1>2. \A i \in Int : At(list, i) = IF i \in 1 .. Len(list) THEN list[i] ELSE Sentinel
  BY DEF At, D!RingNode
<1>3. \A i \in 0 .. Len(list) + 1 : At(list, i) \in Node
  BY <1>1, <1>2 DEF Node
<1>4. \A i, j \in 0 .. Len(list) : At(list, i) = At(list, j) => i = j
  <2> SUFFICES ASSUME NEW i \in 0 .. Len(list), NEW j \in 0 .. Len(list),
                      At(list, i) = At(list, j)
               PROVE  i = j
    OBVIOUS
  <2>1. CASE i = 0 \/ j = 0
    BY <1>1, <1>2, <2>1
  <2>2. CASE i # 0 /\ j # 0
    BY <1>1, <1>2, <2>2 DEF Distinct
  <2> QED
    BY <2>1, <2>2
<1>5. \A i, j \in 1 .. Len(list) + 1 : At(list, i) = At(list, j) => i = j
  <2> SUFFICES ASSUME NEW i \in 1 .. Len(list) + 1, NEW j \in 1 .. Len(list) + 1,
                      At(list, i) = At(list, j)
               PROVE  i = j
    OBVIOUS
  <2>1. CASE i = Len(list) + 1 \/ j = Len(list) + 1
    BY <1>1, <1>2, <2>1
  <2>2. CASE i # Len(list) + 1 /\ j # Len(list) + 1
    BY <1>1, <1>2, <2>2 DEF Distinct
  <2> QED
    BY <2>1, <2>2
<1> QED
  BY <1>3, <1>4, <1>5

\* What linked means, in terms of At.
LEMMA RingLinks ==
  ASSUME NEW l, NEW list \in Seq(Conn)
  PROVE  Ring(l, list) <=>
           \A i \in 0 .. Len(list) :
             l[At(list, i)].next = At(list, i + 1) /\ l[At(list, i + 1)].prev = At(list, i)
  BY DEF Ring, At, D!Linked

\* dlist_insert_before the sentinel links a node at the end of the ring.
LEMMA InsertRing ==
  ASSUME NEW l \in LinksType, NEW list \in Seq(Conn), Distinct(list), Ring(l, list),
         NEW c \in Conn, \A i \in 1 .. Len(list) : list[i] # c
  PROVE  /\ D!dlist_insert_before(l, Sentinel, c) \in LinksType
         /\ Ring(D!dlist_insert_before(l, Sentinel, c), Append(list, c))
         /\ Append(list, c) \in Seq(Conn) /\ Distinct(Append(list, c))
<1> DEFINE n == Len(list)
           list2 == Append(list, c)
           prev == l[Sentinel].prev
           l2 == D!dlist_insert_before(l, Sentinel, c)
<1>1. n \in Nat /\ c # Sentinel /\ c \in Node /\ Sentinel \in Node
  BY SentinelAssumption DEF Node
<1>2. /\ list2 \in Seq(Conn) /\ Len(list2) = n + 1 /\ list2[n + 1] = c
      /\ \A i \in 1 .. n : list2[i] = list[i]
  BY <1>1
<1>3. Distinct(list2)
  BY <1>1, <1>2 DEF Distinct
<1>4. /\ \A i \in 0 .. n : At(list2, i) = At(list, i) /\ At(list, i) # c
      /\ At(list2, n + 1) = c /\ At(list2, n + 2) = Sentinel /\ At(list, n + 1) = Sentinel
      /\ At(list, 0) = Sentinel
  BY <1>1, <1>2 DEF At, D!RingNode
<1>5. prev = At(list, n) /\ prev \in Node /\ prev # c
  BY <1>1, <1>4, RingLinks, RingDistinct
<1>6. l2 = [l EXCEPT ![prev].next = c, ![c] = [prev |-> prev, next |-> Sentinel],
                     ![Sentinel].prev = c]
  BY DEF D!dlist_insert_before
<1> HIDE DEF l2, prev, list2, n
<1>7. l2 \in LinksType
  BY <1>1, <1>5, <1>6 DEF LinksType
<1>8. /\ l2[prev].next = c
      /\ l2[c].prev = prev /\ l2[c].next = Sentinel
      /\ l2[Sentinel].prev = c
      /\ \A x \in Node \ {prev, c} : l2[x].next = l[x].next
      /\ \A x \in Node \ {Sentinel, c} : l2[x].prev = l[x].prev
  BY <1>1, <1>5, <1>6 DEF LinksType
<1>9. ASSUME NEW i \in 0 .. n + 1
      PROVE  l2[At(list2, i)].next = At(list2, i + 1) /\ l2[At(list2, i + 1)].prev = At(list2, i)
  <2>1. CASE i < n
    <3>1. /\ i \in 0 .. Len(list) /\ i + 1 \in 1 .. Len(list) /\ i + 1 \in 0 .. Len(list)
          /\ n \in 0 .. Len(list) /\ 0 \in 0 .. Len(list)
      BY <1>1, <2>1 DEF n
    <3>2. At(list, i) # prev /\ At(list, i + 1) # Sentinel
      BY <1>4, <1>5, <2>1, <3>1, RingDistinct
    <3>3. At(list, i) \in Node \ {prev, c} /\ At(list, i + 1) \in Node \ {Sentinel, c}
      BY <1>4, <3>1, <3>2, RingDistinct DEF n
    <3>4. l[At(list, i)].next = At(list, i + 1) /\ l[At(list, i + 1)].prev = At(list, i)
      BY <3>1, RingLinks
    <3> QED
      BY <1>4, <1>8, <3>1, <3>3, <3>4 DEF n
  <2>2. CASE i = n
    BY <1>1, <1>4, <1>5, <1>8, <2>2
  <2>3. CASE i = n + 1
    BY <1>1, <1>4, <1>8, <2>3
  <2> QED
    BY <1>1, <2>1, <2>2, <2>3
<1>10. Ring(l2, list2)
  BY <1>2, <1>9, RingLinks
<1> QED
  BY <1>2, <1>3, <1>7, <1>10 DEF l2, list2

\* dlist_detach of a node on the ring closes the ring behind it.
LEMMA DetachRing ==
  ASSUME NEW l \in LinksType, NEW list \in Seq(Conn), Distinct(list), Ring(l, list),
         NEW c \in Conn, \E i \in 1 .. Len(list) : list[i] = c
  PROVE  /\ D!dlist_detach(l, c) \in LinksType
         /\ Ring(D!dlist_detach(l, c), dlist_detach(list, c))
         /\ dlist_detach(list, c) \in Seq(Conn) /\ Distinct(dlist_detach(list, c))
         /\ \A i \in 1 .. Len(dlist_detach(list, c)) : dlist_detach(list, c)[i] # c
<1> DEFINE n == Len(list)
           p == Position(list, c)
           list2 == dlist_detach(list, c)
           prev == l[c].prev
           next == l[c].next
           l2 == D!dlist_detach(l, c)
<1>1. n \in Nat /\ p \in 1 .. n /\ list[p] = c
  BY PositionOf
<1>2. /\ list2 \in Seq(Conn) /\ Len(list2) = n - 1
      /\ \A i \in 1 .. n - 1 : list2[i] = IF i < p THEN list[i] ELSE list[i + 1]
  BY Detach
<1>3. Distinct(list2) /\ \A i \in 1 .. Len(list2) : list2[i] # c
  BY DetachOrder
<1>4. l2 = [l EXCEPT ![prev].next = next, ![next].prev = prev]
  BY DEF D!dlist_detach
<1> HIDE DEF n, p, list2, prev, next, l2
<1>5. \A i \in 0 .. n : At(list2, i) = IF i < p THEN At(list, i) ELSE At(list, i + 1)
  BY <1>1, <1>2 DEF At, D!RingNode, n
<1>6. At(list, p) = c /\ p \in 0 .. Len(list) /\ p - 1 \in 0 .. Len(list)
  BY <1>1 DEF At, D!RingNode, n
<1>7. prev = At(list, p - 1) /\ next = At(list, p + 1)
  <2>1. l[At(list, p)].next = At(list, p + 1)
    BY <1>6, RingLinks
  <2>2. l[At(list, (p - 1) + 1)].prev = At(list, p - 1) /\ (p - 1) + 1 = p
    BY <1>1, <1>6, RingLinks
  <2> QED
    BY <1>6, <2>1, <2>2 DEF prev, next
<1>8. prev \in Node /\ next \in Node
  BY <1>1, <1>7, RingDistinct DEF n
<1>9. l2 \in LinksType
  BY <1>4, <1>8 DEF LinksType
<1>10. /\ l2[prev].next = next /\ l2[next].prev = prev
       /\ \A x \in Node \ {prev} : l2[x].next = l[x].next
       /\ \A x \in Node \ {next} : l2[x].prev = l[x].prev
  BY <1>4, <1>8 DEF LinksType
<1>11. ASSUME NEW i \in 0 .. n, i # p - 1, i # p
       PROVE  /\ l2[At(list, i)].next = At(list, i + 1)
              /\ l2[At(list, i + 1)].prev = At(list, i)
  <2>1. At(list, i) \in Node \ {prev}
    <3>1. i \in 0 .. Len(list) + 1 /\ i \in 0 .. Len(list)
      BY <1>1 DEF n
    <3> QED
      BY <1>6, <1>7, <1>11, <3>1, RingDistinct
  <2>2. At(list, i + 1) \in Node \ {next}
    <3>1. /\ i + 1 \in 0 .. Len(list) + 1 /\ i + 1 \in 1 .. Len(list) + 1
          /\ p + 1 \in 1 .. Len(list) + 1 /\ i + 1 # p + 1
      BY <1>1, <1>11 DEF n
    <3> QED
      BY <1>7, <3>1, RingDistinct
  <2>3. l[At(list, i)].next = At(list, i + 1) /\ l[At(list, i + 1)].prev = At(list, i)
    BY RingLinks DEF n
  <2> QED
    BY <1>10, <2>1, <2>2, <2>3
<1>12. ASSUME NEW i \in 0 .. n - 1
       PROVE  /\ l2[At(list2, i)].next = At(list2, i + 1)
              /\ l2[At(list2, i + 1)].prev = At(list2, i)
  <2>1. CASE i < p - 1
    <3>1. At(list2, i) = At(list, i) /\ At(list2, i + 1) = At(list, i + 1)
      BY <1>1, <1>5, <2>1
    <3> QED
      BY <1>1, <1>11, <2>1, <3>1
  <2>2. CASE i = p - 1
    <3>1. At(list2, i) = prev /\ At(list2, i + 1) = next
      BY <1>1, <1>5, <1>7, <2>2
    <3> QED
      BY <1>10, <3>1
  <2>3. CASE i >= p
    <3>1. At(list2, i) = At(list, i + 1) /\ At(list2, i + 1) = At(list, (i + 1) + 1)
      BY <1>1, <1>5, <2>3
    <3>2. i + 1 \in 0 .. n /\ i + 1 # p - 1 /\ i + 1 # p
      BY <1>1, <2>3
    <3> QED
      BY <1>11, <3>1, <3>2
  <2> QED
    BY <1>1, <2>1, <2>2, <2>3
<1>13. Ring(l2, list2)
  BY <1>1, <1>2, <1>12, RingLinks
<1> QED
  BY <1>2, <1>3, <1>9, <1>13 DEF l2, list2
-----------------------------------------------------------------------------
\* The inductive invariant: that of the event loop, which says that a listed
\* Conn is allocated and listed once, the type of links, and the ring.
LInv == IInv /\ links \in LinksType /\ ListLinked

LEMMA ListLinkedRing == ListLinked <=> Ring(links, idle_list)
  BY DEF ListLinked, Ring

\* free() of a Conn that is not on the ring leaves the ring alone.
LEMMA FreeRing ==
  ASSUME NEW l \in LinksType, NEW list \in Seq(Conn), Distinct(list), Ring(l, list),
         NEW c \in Conn, \A i \in 1 .. Len(list) : list[i] # c
  PROVE  [l EXCEPT ![c] = Unset] \in LinksType /\ Ring([l EXCEPT ![c] = Unset], list)
<1> DEFINE l2 == [l EXCEPT ![c] = Unset]
<1>1. l2 \in LinksType /\ \A x \in Node \ {c} : l2[x] = l[x]
  BY DEF LinksType, Unset
<1>2. \A i \in 0 .. Len(list) + 1 : At(list, i) \in Node \ {c}
  <2> SUFFICES ASSUME NEW i \in 0 .. Len(list) + 1 PROVE At(list, i) # c
    BY RingDistinct
  <2> QED
    BY SentinelAssumption DEF At, D!RingNode
<1> HIDE DEF l2
<1>3. ASSUME NEW i \in 0 .. Len(list)
      PROVE  l2[At(list, i)].next = At(list, i + 1) /\ l2[At(list, i + 1)].prev = At(list, i)
  <2>1. i \in 0 .. Len(list) + 1 /\ i + 1 \in 0 .. Len(list) + 1
    OBVIOUS
  <2> QED
    BY <1>1, <1>2, <2>1, RingLinks
<1> QED
  BY <1>1, <1>3, RingLinks DEF l2

\* dlist_detach and free of a node on the ring.
LEMMA UnlinkRing ==
  ASSUME NEW l \in LinksType, NEW list \in Seq(Conn), Distinct(list), Ring(l, list),
         NEW c \in Conn, \E i \in 1 .. Len(list) : list[i] = c
  PROVE  Unlink(l, c) \in LinksType /\ Ring(Unlink(l, c), dlist_detach(list, c))
  BY DetachRing, FreeRing DEF Unlink

\* connection_io's move of a node to the tail.
LEMMA MoveRing ==
  ASSUME NEW l \in LinksType, NEW list \in Seq(Conn), Distinct(list), Ring(l, list),
         NEW c \in Conn, \E i \in 1 .. Len(list) : list[i] = c
  PROVE  /\ MoveToTail(l, c) \in LinksType
         /\ Ring(MoveToTail(l, c), Append(dlist_detach(list, c), c))
         /\ Append(dlist_detach(list, c), c) \in Seq(Conn)
         /\ Distinct(Append(dlist_detach(list, c), c))
  BY DetachRing, InsertRing DEF MoveToTail

\* What the invariant of the event loop says of its list.
LEMMA ListOfIInv ==
  ASSUME IInv
  PROVE  /\ idle_list \in Seq(Conn) /\ Distinct(idle_list)
         /\ \A c \in DOMAIN conn : c \in Conn /\ \E i \in 1 .. Len(idle_list) : idle_list[i] = c
         /\ \A i \in 1 .. Len(idle_list) : idle_list[i] \in DOMAIN conn
  BY DEF IInv, TypeOK, OneConnOneTimer, Distinct

LEMMA InitLInv == TInit => LInv
<1> SUFFICES ASSUME TInit PROVE LInv
  OBVIOUS
<1>1. Init /\ links = [[n \in Node |-> Unset] EXCEPT ![Sentinel] = [prev |-> Sentinel, next |-> Sentinel]]
  BY DEF TInit, D!dlist_init
<1>2. links \in LinksType /\ links[Sentinel] = [prev |-> Sentinel, next |-> Sentinel]
  BY <1>1 DEF LinksType, Unset, Node
<1>3. idle_list = <<>> /\ idle_list \in Seq(Conn)
  BY <1>1 DEF Init
<1>4. Ring(links, idle_list)
  BY <1>2, <1>3 DEF Ring, D!Linked, D!RingNode
<1> QED
  BY <1>1, <1>2, <1>4, InitIInv, ListLinkedRing DEF LInv

LEMMA HandleConnRing ==
  ASSUME LInv, NEW f \in Fd, NEW ended \in BOOLEAN, THandleConn(f, ended)
  PROVE  links' \in LinksType /\ Ring(links', idle_list')
<1> DEFINE c == fd2conn[f]
           list == Append(dlist_detach(idle_list, c), c)
           moved == MoveToTail(links, c)
<1>1. f \in ready /\ pc = "io" /\ HandleConn(f, ended) /\ IInv
  BY DEF THandleConn, HandleConn, NextReady, LInv
<1>2. c \in DOMAIN conn
  BY <1>1 DEF IInv, PolledConnAlive, OneConnOneTimer
<1>3. c \in Conn /\ \E i \in 1 .. Len(idle_list) : idle_list[i] = c
  BY <1>1, <1>2, ListOfIInv
<1>4. idle_list' = IF ended THEN dlist_detach(list, c) ELSE list
  BY <1>1 DEF HandleConn, conn_done, dlist_insert_before
<1>5. links' = IF ended THEN Unlink(moved, c) ELSE moved
  BY DEF THandleConn
<1> HIDE DEF c
<1>6. /\ moved \in LinksType /\ Ring(moved, list)
      /\ list \in Seq(Conn) /\ Distinct(list)
  BY <1>1, <1>3, ListOfIInv, ListLinkedRing, MoveRing DEF LInv
<1>7. \E i \in 1 .. Len(list) : list[i] = c
  <2>1. dlist_detach(idle_list, c) \in Seq(Conn)
    BY <1>1, <1>3, ListOfIInv, Detach
  <2>2. Len(list) = Len(dlist_detach(idle_list, c)) + 1 /\ list[Len(list)] = c
    BY <1>3, <2>1
  <2>3. Len(list) \in 1 .. Len(list)
    BY <2>1, <2>2
  <2> QED
    BY <2>2, <2>3
<1> HIDE DEF list, moved
<1>8. Unlink(moved, c) \in LinksType /\ Ring(Unlink(moved, c), dlist_detach(list, c))
  BY <1>3, <1>6, <1>7, UnlinkRing
<1> QED
  BY <1>4, <1>5, <1>6, <1>8

\* What the pointers show after the sentinel is the head of the sequence.
LEMMA HeadIsFirst ==
  ASSUME LInv
  PROVE  head = first
<1>1. idle_list \in Seq(Conn) /\ Ring(links, idle_list)
  BY ListOfIInv, ListLinkedRing DEF LInv
<1>2. links[Sentinel].next = At(idle_list, 1)
  <2>1. 0 \in 0 .. Len(idle_list) /\ At(idle_list, 0) = Sentinel /\ 0 + 1 = 1
    BY <1>1 DEF At, D!RingNode
  <2>2. links[At(idle_list, 0)].next = At(idle_list, 0 + 1)
    BY <1>1, <2>1, RingLinks
  <2> QED
    BY <2>1, <2>2
<1>3. CASE idle_list = <<>>
  <2>1. At(idle_list, 1) = Sentinel
    BY <1>3 DEF At, D!RingNode
  <2> QED
    BY <1>2, <1>3, <2>1 DEF head, first, D!dlist_empty
<1>4. CASE idle_list # <<>>
  <2>1. 1 \in 1 .. Len(idle_list) /\ idle_list[1] = Head(idle_list) /\ idle_list[1] \in Conn
    BY <1>1, <1>4
  <2>2. At(idle_list, 1) = Head(idle_list) /\ Head(idle_list) # Sentinel
    BY <2>1, SentinelAssumption DEF At, D!RingNode
  <2> QED
    BY <1>2, <1>4, <2>2 DEF head, first, D!dlist_empty
<1> QED
  BY <1>3, <1>4

LEMMA CloseIdleRing ==
  ASSUME LInv, TCloseIdle
  PROVE  links' \in LinksType /\ Ring(links', idle_list')
<1>1. /\ head = first /\ first # NULL /\ idle_list' = dlist_detach(idle_list, first)
      /\ links' = Unlink(links, first) /\ IInv
  BY HeadIsFirst DEF TCloseIdle, CloseIdle, MustClose, conn_done, LInv
<1>2. idle_list \in Seq(Conn) /\ Distinct(idle_list) /\ Ring(links, idle_list)
  BY <1>1, ListOfIInv, ListLinkedRing DEF LInv
<1>3. 1 \in 1 .. Len(idle_list) /\ first = idle_list[1] /\ first \in Conn
  BY <1>1, <1>2 DEF first
<1> QED
  BY <1>1, <1>2, <1>3, UnlinkRing DEF LInv

LEMMA AcceptRing ==
  ASSUME LInv, NEW f \in Fd, NEW c \in Conn, TAccept(f, c)
  PROVE  links' \in LinksType /\ Ring(links', idle_list')
<1>1. /\ c \notin DOMAIN conn /\ idle_list' = Append(idle_list, c) /\ IInv
      /\ links' = D!dlist_insert_before(links, Sentinel, c)
  BY DEF TAccept, Accept, dlist_insert_before, LInv
<1>2. \A i \in 1 .. Len(idle_list) : idle_list[i] # c
  BY <1>1, ListOfIInv
<1> QED
  BY <1>1, <1>2, ListOfIInv, ListLinkedRing, InsertRing DEF LInv

\* Every step of the loop over pointers is one of the loop over sequences,
\* because what it reads after the sentinel is the head of the sequence.
LEMMA NextIsNext == LInv /\ TNext => Next
<1> SUFFICES ASSUME LInv, TNext PROVE Next
  OBVIOUS
<1>1. head = first
  BY HeadIsFirst
<1>2. CASE TAskTimeout \/ TCloseIdle \/ TTimersDone
  BY <1>1, <1>2 DEF TAskTimeout, TCloseIdle, TTimersDone, Next, Loop
<1>3. CASE \/ \E f \in Fd, ended \in BOOLEAN : THandleConn(f, ended)
           \/ \E f \in Fd, c \in Conn : TAccept(f, c)
           \/ Elsewhere \/ TTick
  BY <1>3 DEF Elsewhere, THandleConn, TAccept, TTick, Next, Loop
<1> QED
  BY <1>2, <1>3 DEF TNext, TLoop

LEMMA NextLInv == LInv /\ [TNext]_timerVars => LInv'
<1> SUFFICES ASSUME LInv, [TNext]_timerVars PROVE LInv'
  OBVIOUS
<1>1. IInv'
  BY NextIsNext, NextIInv DEF LInv, timerVars
<1>2. CASE \E f \in Fd, ended \in BOOLEAN : THandleConn(f, ended)
  BY <1>1, <1>2, HandleConnRing DEF LInv, ListLinked, Ring
<1>3. CASE TCloseIdle
  BY <1>1, <1>3, CloseIdleRing DEF LInv, ListLinked, Ring
<1>4. CASE \E f \in Fd, c \in Conn : TAccept(f, c)
  BY <1>1, <1>4, AcceptRing DEF LInv, ListLinked, Ring
<1>5. CASE TAskTimeout \/ TTimersDone \/ Elsewhere \/ TTick \/ UNCHANGED timerVars
  <2>1. UNCHANGED <<links, idle_list>>
    BY <1>5 DEF TAskTimeout, TTimersDone, Elsewhere, TTick, timerVars, vars, heap, AskTimeout,
                Poll, PollReturn, PollFail, StartTimers, TimersDone, AcceptNoMemory,
                AcceptFail, NoAccept, Tick
  <2> QED
    BY <1>1, <2>1 DEF LInv, ListLinked, D!Linked, D!RingNode, LinksType
<1> QED
  BY <1>2, <1>3, <1>4, <1>5 DEF TNext, TLoop

\* For any number of connections and any behaviour of theirs, the prev and
\* next pointers of the idle list are a ring in both directions, the nodes
\* of which are the allocated connections.
THEOREM PointersStayLinked == TSafeSpec => []ListLinked
<1>1. LInv => ListLinked
  BY DEF LInv
<1> QED
  BY <1>1, InitLInv, NextLInv, PTL DEF TSafeSpec

\* The loop that finds its timers by following pointers does what the loop
\* over the sequence does, for any number of connections and whatever became
\* of them before: what is proved of the latter holds of the former.
THEOREM ImplementsEventLoopHolds == TSafeSpec => ImplementsEventLoop
<1>1. TInit => Init
  BY DEF TInit
<1>2. LInv /\ [TNext]_timerVars => [Next]_vars
  BY NextIsNext DEF timerVars
<1> QED
  BY <1>1, <1>2, InitLInv, NextLInv, PTL DEF TSafeSpec, SafeSpec, ImplementsEventLoop
=============================================================================
