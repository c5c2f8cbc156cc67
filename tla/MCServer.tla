------------------------------ MODULE MCServer -------------------------------
(***************************************************************************)
(* A small instance of Server for TLC: one key, replies of two, three and  *)
(* four cells, and sockets that take two.                                  *)
(***************************************************************************)
EXTENDS Server

CONSTANTS c1, c2, o1, o2

get == <<11>>
set == <<12>>
del == <<13>>
a == <<1>>

MCSpelling ==
  [v \in Verb |-> CASE v = "get" -> {get} [] v = "set" -> {set} [] v = "del" -> {del}
                    [] OTHER -> {}]
MCNumbers == [w \in {} |-> 0]
MCErrText == [code \in 1 .. 4 |-> <<code, code>>]
MCRequest == {<<get, a>>, <<set, a, a>>, <<del, a>>}
=============================================================================
