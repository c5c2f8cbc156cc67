----------------------------- MODULE MCExchange ------------------------------
(***************************************************************************)
(* A small instance of Exchange for TLC.  Messages have at most 13 cells:  *)
(* a ZQUERY just fits, as do the two tuples of its reply; the names of all *)
(* three keys do not, nor does a ZADD to the third.                        *)
(***************************************************************************)
EXTENDS Exchange

CONSTANTS z1, z2

Objects == Permutations({z1, z2})

keys == <<10>>
get == <<11>>
set == <<12>>
del == <<13>>
zadd == <<14>>
zrem == <<15>>
zscore == <<16>>
zquery == <<17>>

a == <<1>>
b == <<2>>
c == <<4, 4, 4, 4, 4, 4>>

\* GET may be spelled in two ways.
MCSpelling ==
  [keys |-> {keys}, get |-> {get, <<21>>}, set |-> {set}, del |-> {del},
   zadd |-> {zadd}, zrem |-> {zrem}, zscore |-> {zscore}, zquery |-> {zquery}]

\* An empty string is the number 0.
one == <<5>>
minus == <<7>>
MCDbl == [w \in {<<>>, one} |-> Len(w)]
MCInt64 == [w \in {<<>>, one, minus, <<5, 5>>} |-> IF w = minus THEN -1 ELSE Len(w)]

MCErrText == [code \in 1 .. 4 |-> <<code, code>>]

\* Two spellings, a word too many, none at all, and one too long to send.
Odd == {<<<<21>>, a>>, <<get, a, a>>, <<>>, <<a, a, a, a, a, a, a>>,
        <<zadd, c, one, a>>, <<zadd, a, a, a>>, <<zquery, a, one, a, a, one>>}

MCArgv ==
  Odd \cup {<<keys>>}
    \cup {<<v, k>> : v \in {get, del}, k \in {a, b, c}}
    \cup {<<set, k, <<3>>>> : k \in {a, b, c}}
    \cup {<<zadd, k, s, n>> : k \in {a, b}, s \in {<<>>, one}, n \in {a, b}}
    \cup {<<v, k, a>> : v \in {zrem, zscore}, k \in {a, b}}
    \cup {<<zquery, k, <<>>, n, o, <<5, 5>>>> : k \in {a, b}, n \in {a, b}, o \in {<<>>, one}}
    \cup {<<zquery, a, one, a, minus, l>> : l \in {minus, one, <<>>}}

\* Requests cut short, with a cell more, or with a cell that is wrong.
Spoilt(f) ==
  {Front(f), Append(f, 0), Append(f, 1)}
    \cup {[f EXCEPT ![i] = @ + 1] : i \in DOMAIN f}
    \cup {[f EXCEPT ![i] = 0] : i \in DOMAIN f}

MCGarbage ==
  {<<>>, [i \in 1 .. 14 |-> 0]}
    \cup {f \in UNION {Spoilt(Tail(CHOOSE m \in send_req(args) : TRUE)) :
                         args \in {<<set, a, b>>, <<del, c>>}} : ~ IsBody(f)}

MCBeyond == {<<0, 0>>, <<1, 1>>}
=============================================================================
