-------------------------------- MODULE Store --------------------------------
(***************************************************************************)
(* What someone who types commands relies on: a store of strings and       *)
(* sorted sets; a command that is called takes effect at one instant and   *)
(* prints its answer.  Nothing here knows of entries, pointers, cells or   *)
(* messages; Exchange.tla is shown to implement this module.               *)
(*                                                                         *)
(* A value has a string and members, the names of a sorted set with their  *)
(* scores.  What SET leaves in a key that exists is any string: C++        *)
(* promises no more of what was moved from.  A query names tuples of the   *)
(* set, from the right one on if its offset is 0.                          *)
(***************************************************************************)
EXTENDS Integers, FiniteSets, Sequences, SequencesExt

CONSTANTS
  Command,            \* the commands that may be called, as records
  Refusable,          \* one that has no effect and no answer
  String,
  Fits(_),            \* an answer that is not too big
  Before(_, _, _, _)  \* the order of tuples: score, name, score, name

VARIABLES
  store,    \* the value of each key
  phase,    \* where the one caller is: "idle", "called" or "done"
  cmd,      \* what is called
  answer    \* the values printed

vars == <<store, phase, cmd, answer>>

Nil == <<"nil">>
TooBig == <<"err", 2>>
Count(b) == <<"int", IF b THEN 1 ELSE 0>>

Keys == DOMAIN store
Members == IF cmd.key \in Keys THEN store[cmd.key].members ELSE [n \in {} |-> 0]

Answer(values) == answer' = IF Fits(values) THEN values ELSE <<TooBig>>
Only(values) == Answer(values) /\ UNCHANGED store

Put(key, value) ==
  store' = [k \in Keys \cup {key} |-> IF k = key THEN value ELSE store[k]]
-----------------------------------------------------------------------------
ListKeys ==
  \E order \in SetToSeqs(Keys) :
    Only(<<<<"arr", Cardinality(Keys)>>>> \o [i \in DOMAIN order |-> <<"str", order[i]>>])

Get == Only(IF cmd.key \in Keys THEN <<<<"str", store[cmd.key].val>>>> ELSE <<Nil>>)

Set ==
  /\ \/ cmd.key \notin Keys
        /\ Put(cmd.key, [type |-> "str", val |-> cmd.val, members |-> [n \in {} |-> 0]])
     \/ cmd.key \in Keys
        /\ \E v \in String : Put(cmd.key, [store[cmd.key] EXCEPT !.val = v])
  /\ Answer(<<Nil>>)

Del ==
  /\ store' = [k \in Keys \ {cmd.key} |-> store[k]]
  /\ Answer(<<Count(cmd.key \in Keys)>>)

\* The commands on a sorted set that find another type.
WrongType ==
  /\ cmd.key \in Keys /\ store[cmd.key].type # "zset"
  /\ Only(<<<<"err", 3>>>>)

RightType == cmd.key \in Keys => store[cmd.key].type = "zset"

ZAdd ==
  /\ RightType
  /\ Put(cmd.key,
         [type |-> "zset",
          val |-> IF cmd.key \in Keys THEN store[cmd.key].val ELSE <<>>,
          members |-> [n \in DOMAIN Members \cup {cmd.name} |->
                         IF n = cmd.name THEN cmd.score ELSE Members[n]]])
  /\ Answer(<<Count(cmd.name \notin DOMAIN Members)>>)

ZRem ==
  /\ RightType
  /\ \/ cmd.key \notin Keys /\ Only(<<Nil>>)
     \/ /\ cmd.key \in Keys
        /\ Put(cmd.key, [store[cmd.key] EXCEPT
                           !.members = [n \in DOMAIN Members \ {cmd.name} |-> Members[n]]])
        /\ Answer(<<Count(cmd.name \in DOMAIN Members)>>)

ZScore ==
  /\ RightType
  /\ Only(IF cmd.name \in DOMAIN Members THEN <<<<"dbl", Members[cmd.name]>>>> ELSE <<Nil>>)

\* The first tuple not before the one asked for.
First(n) ==
  /\ ~ Before(Members[n], n, cmd.score, cmd.name)
  /\ \A m \in DOMAIN Members \ {n} :
       Before(Members[m], m, cmd.score, cmd.name) \/ Before(Members[n], n, Members[m], m)

ZQuery ==
  /\ RightType
  /\ \E k \in 0 .. (IF cmd.limit > 0 THEN (cmd.limit + 1) \div 2 ELSE 0) :
       \E names \in [1 .. k -> DOMAIN Members] :
         /\ cmd.limit > 0 /\ cmd.offset = 0 =>
              IF names = <<>> THEN ~ \E n \in DOMAIN Members : First(n) ELSE First(names[1])
         /\ Only(<<<<"arr", 2 * k>>>>
                   \o FlattenSeq([i \in 1 .. k |-> <<<<"str", names[i]>>,
                                                     <<"dbl", Members[names[i]]>>>>]))

\* A command that is none, and one whose numbers are not.
Unknown == Only(<<<<"err", 1>>>>)
BadNumber == Only(<<<<"err", 4>>>>)
-----------------------------------------------------------------------------
Init ==
  /\ store = [k \in {} |-> 0]
  /\ phase = "idle" /\ cmd = Refusable /\ answer = <<>>

Call(c) ==
  /\ phase = "idle"
  /\ phase' = "called" /\ cmd' = c /\ answer' = <<>>
  /\ UNCHANGED store

Effect ==
  /\ phase = "called"
  /\ phase' = "done"
  /\ \/ cmd.verb = "keys" /\ ListKeys
     \/ cmd.verb = "get" /\ Get
     \/ cmd.verb = "set" /\ Set
     \/ cmd.verb = "del" /\ Del
     \/ cmd.verb \in {"zadd", "zrem", "zscore", "zquery"} /\ WrongType
     \/ cmd.verb = "zadd" /\ ZAdd
     \/ cmd.verb = "zrem" /\ ZRem
     \/ cmd.verb = "zscore" /\ ZScore
     \/ cmd.verb = "zquery" /\ ZQuery
     \/ cmd.verb = "unknown" /\ Unknown
     \/ cmd.verb = "badnumber" /\ BadNumber
     \/ cmd = Refusable /\ answer' = <<>> /\ UNCHANGED store
  /\ UNCHANGED cmd

Return ==
  /\ phase = "done"
  /\ phase' = "idle" /\ cmd' = Refusable /\ answer' = <<>>
  /\ UNCHANGED store

Next == (\E c \in Command : Call(c)) \/ Effect \/ Return

Spec == Init /\ [][Next]_vars
=============================================================================
