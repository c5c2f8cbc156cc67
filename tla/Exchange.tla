------------------------------ MODULE Exchange -------------------------------
(***************************************************************************)
(* A command from end to end: client.cpp packs its arguments, the server   *)
(* parses them, runs the command and packs the reply, and the client       *)
(* prints what it reads.  Messages arrive whole; how they are cut up is    *)
(* the subject of Connection.tla, and many clients that of Server.tla.     *)
(***************************************************************************)
EXTENDS Keyspace, Client

CONSTANTS
  Argv,           \* the arguments clients are started with
  Garbage,        \* requests that no client.cpp packs
  Beyond          \* what rbuf may hold after a request

\* f is the body of a request: its cells are a count and that many strings,
\* each after its length; end says where each string ends.
IsBody(f) ==
  /\ f # <<>>
  /\ \E end \in [0 .. f[1] -> 1 .. Len(f)] :
       /\ end[0] = 1 /\ end[f[1]] = Len(f)
       /\ \A i \in 1 .. f[1] : /\ end[i - 1] < Len(f)
                              /\ end[i] = end[i - 1] + 1 + f[end[i - 1] + 1]

\* rbuf goes on after a request that has no cell, and the error that takes
\* the place of a reply is short.
ASSUME ExchangeAssumption ==
  /\ Argv \subseteq Seq(Seq(Nat)) /\ NULL \notin Argv
  /\ Garbage \subseteq Seq(Nat) /\ \A f \in Garbage : ~ IsBody(f)
  /\ Beyond \subseteq Seq(Nat) \ {<<>>} /\ Beyond # {}
  /\ 4 + Len(ErrText[ERR_2BIG]) <= MaxMsg

VARIABLES
  phase,          \* "idle", "sent" or "served"
  argv,           \* the arguments of the client; NULL if it is another program
  msg,            \* the message sent; empty if the client gave up
  reply           \* the message sent back; empty if the connection was closed

vars == <<db, zsets, out, phase, argv, msg, reply>>

Init ==
  /\ DataInit
  /\ phase = "idle" /\ argv = NULL /\ msg = <<>> /\ reply = <<>>

\* Bound: a ZSet that no entry points to any more is never freed, so only
\* so many can be created.
MayAllocate(args) == Is(args, 4, "zadd") => ZSetObj # DOMAIN zsets

\* client.cpp's main, to send_req.
Send(args) ==
  /\ phase = "idle" /\ MayAllocate(args)
  /\ phase' = "sent" /\ argv' = args
  /\ msg' \in IF send_req(args) = {} THEN {<<>>} ELSE send_req(args)
  /\ UNCHANGED <<data, out, reply>>

\* Some other program sends something else.
SendGarbage(body) ==
  /\ phase = "idle"
  /\ phase' = "sent" /\ argv' = NULL
  /\ msg' = Framed(body)
  /\ UNCHANGED <<data, out, reply>>

\* try_one_request up to the call of do_request: the commands it may run.
Parsed(m) ==
  IF m = <<>> \/ m[1] > MaxMsg THEN {}
  ELSE UNION {parse_req(Tail(m) \o rest, m[1]) : rest \in Beyond}

\* try_one_request of a request it takes.
Serve ==
  /\ phase = "sent"
  /\ phase' = "served"
  /\ \E cmd \in Parsed(msg) : do_request(cmd) /\ reply' = Framed(Fitted(out'))
  /\ UNCHANGED <<argv, msg>>

\* There is no request, or it is a bad one: the connection is closed.
Close ==
  /\ phase = "sent" /\ Parsed(msg) = {}
  /\ phase' = "served" /\ reply' = <<>>
  /\ UNCHANGED <<data, out, argv, msg>>

\* The client has printed the reply and exits.
Exit ==
  /\ phase = "served"
  /\ phase' = "idle" /\ argv' = NULL
  /\ out' = <<>> /\ msg' = <<>> /\ reply' = <<>>
  /\ UNCHANGED data

Next ==
  \/ \E args \in Argv : Send(args)
  \/ \E body \in Garbage : SendGarbage(body)
  \/ Serve \/ Close \/ Exit

Spec == Init /\ [][Next]_vars
-----------------------------------------------------------------------------
\* The type of each variable.
TypeOK ==
  /\ DataOK /\ out \in Seq(Int)
  /\ phase \in {"idle", "sent", "served"}
  /\ argv \in Argv \cup {NULL}
  /\ msg \in Seq(Int) /\ reply \in Seq(Int)

\* The sum of some sizes.
Total(sizes) ==
  LET sum[i \in 0 .. Len(sizes)] == IF i = 0 THEN 0 ELSE sum[i - 1] + sizes[i]
  IN sum[Len(sizes)]

\* What a client is asked for, and nothing if it cannot be sent.
Sendable(args) ==
  /\ args # NULL /\ Len(args) <= MaxArgs
  /\ 1 + Total([i \in DOMAIN args |-> 1 + Len(args[i])]) <= MaxMsg

Numbers(args) ==
  /\ Is(args, 4, "zadd") \/ Is(args, 6, "zquery") => args[3] \in DOMAIN Dbl
  /\ Is(args, 6, "zquery") => {args[5], args[6]} \subseteq DOMAIN Int64

Meaning(args) ==
  IF ~ Sendable(args) THEN [verb |-> "refused"]
  ELSE IF ~ Known(args) THEN [verb |-> "unknown"]
  ELSE IF ~ Numbers(args) THEN [verb |-> "badnumber"]
  ELSE CASE Is(args, 1, "keys") -> [verb |-> "keys"]
         [] Is(args, 2, "get") -> [verb |-> "get", key |-> args[2]]
         [] Is(args, 3, "set") -> [verb |-> "set", key |-> args[2], val |-> args[3]]
         [] Is(args, 2, "del") -> [verb |-> "del", key |-> args[2]]
         [] Is(args, 4, "zadd") ->
              [verb |-> "zadd", key |-> args[2], score |-> Dbl[args[3]], name |-> args[4]]
         [] Is(args, 3, "zrem") -> [verb |-> "zrem", key |-> args[2], name |-> args[3]]
         [] Is(args, 3, "zscore") -> [verb |-> "zscore", key |-> args[2], name |-> args[3]]
         [] Is(args, 6, "zquery") ->
              [verb |-> "zquery", key |-> args[2], score |-> Dbl[args[3]],
               name |-> args[4], offset |-> Int64[args[5]], limit |-> Int64[args[6]]]

\* The cells of an answer: it fits if they do, with the length before them.
Size(value) ==
  CASE value[1] = "nil" -> 1
    [] value[1] = "str" -> 2 + Len(value[2])
    [] value[1] = "err" -> 3 + Len(ErrText[value[2]])
    [] OTHER -> 2

FitsReply(values) == 1 + Total([i \in DOMAIN values |-> Size(values[i])]) <= MaxMsg

Abs == INSTANCE Store WITH
         store   <- [k \in DOMAIN db |->
                       [type |-> db[k].type, val |-> db[k].val,
                        members |-> IF db[k].zset = NULL THEN [n \in {} |-> 0]
                                    ELSE zsets[db[k].zset]]],
         phase   <- CASE phase = "sent" -> "called" [] phase = "served" -> "done"
                      [] OTHER -> phase,
         cmd     <- Meaning(argv),
         answer  <- IF phase = "sent" \/ reply = <<>> THEN <<>> ELSE read_res(reply).seen,
         Command <- {Meaning(args) : args \in Argv \cup {NULL}},
         Refusable <- [verb |-> "refused"],
         String  <- {Moved} \cup UNION {{a[i] : i \in DOMAIN a} : a \in Argv},
         Fits    <- FitsReply,
         Before  <- TupleLess

\* From the command line to what is printed, a command does to one store of
\* values what it says, and nothing else does anything: whatever the order
\* of commands, no byte that is not a request is taken for one, and every
\* answer is printed as it was meant, or as too big.
ImplementsStore == Abs!Spec

\* The client has read a reply to its last cell when it takes it for a good
\* one, and it takes every reply for a good one (client.cpp:254-262): what
\* an array announces is what follows (server.cpp:464, 582-593).
ReplyWhole ==
  phase = "served" /\ reply # <<>> =>
    /\ on_response(Tail(reply)).rv = Len(reply) - 1
    /\ read_res(reply).err = 0
    /\ Len(reply) <= MaxMsg
-----------------------------------------------------------------------------
\* server.cpp:353: if the key exists, replace its value.  Its value becomes
\* what is left of a string that was moved from.
SetReplaces ==
  [][\A cmd \in Argv :
       phase = "sent" /\ phase' = "served" /\ argv = cmd /\ Is(cmd, 3, "set")
         => db'[cmd[2]].val = cmd[3]]_vars
=============================================================================
