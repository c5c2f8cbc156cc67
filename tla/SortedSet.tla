----------------------------- MODULE SortedSet ------------------------------
(***************************************************************************)
(* What the commands rely on in a ZSet: it is a set of names, each with    *)
(* one score, ordered by (score, name).  ZSet.tla is shown to implement    *)
(* this module.                                                            *)
(***************************************************************************)
EXTENDS Integers

CONSTANTS Name, Score

VARIABLES
  member,   \* the score of each name in the set
  asked,    \* the tuple that is sought, or <<>>
  reply     \* the tuples the last operation found

vars == <<member, asked, reply>>

Tuple(S) == {<<member[n], n>> : n \in S}

\* (s, n) comes before (t, m).
Before(s, n, t, m) == s < t \/ (s = t /\ n < m)

Init == member = [n \in {} |-> 0] /\ asked = <<>> /\ reply = {}

\* A new tuple, or a new score for an old one.
Add(n, s) ==
  /\ asked' = <<>> /\ reply' = Tuple({n} \cap DOMAIN member)
  /\ member' = [m \in DOMAIN member \cup {n} |-> IF m = n THEN s ELSE member[m]]

Rem(n) ==
  /\ asked' = <<>> /\ reply' = Tuple({n} \cap DOMAIN member)
  /\ member' = [m \in DOMAIN member \ {n} |-> member[m]]

\* The first tuple that does not come before (s, n).
Seek(s, n) ==
  LET from == {m \in DOMAIN member : ~ Before(member[m], m, s, n)}
  IN /\ asked' = <<s, n>>
     /\ reply' = Tuple({m \in from :
                          \A k \in from : ~ Before(member[k], k, member[m], m)})
     /\ UNCHANGED member

\* The reply has been used.
Used == asked' = <<>> /\ reply' = {} /\ UNCHANGED member

Next ==
  \/ \E n \in Name, s \in Score : Add(n, s) \/ Seek(s, n)
  \/ \E n \in Name : Rem(n)
  \/ Used

Spec == Init /\ [][Next]_vars
=============================================================================
