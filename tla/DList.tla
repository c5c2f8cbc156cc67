-------------------------------- MODULE DList --------------------------------
(***************************************************************************)
(* The intrusive doubly linked list of src/include/list.h, on pointers.    *)
(* links maps a node to its prev and next; a list is the ring of the nodes *)
(* that were inserted before its sentinel.  The operations of list.h check *)
(* nothing: that a node is linked when it is detached, and not linked when *)
(* it is inserted, is up to the caller (IdleTimers.tla).                   *)
(***************************************************************************)
EXTENDS Integers, Sequences

dlist_init(links, node) ==
  [links EXCEPT ![node] = [prev |-> node, next |-> node]]

dlist_empty(links, node) == links[node].next = node

\* Mutant: next->prev is not set.
Mut_dlist_detach(links, node) ==
  [links EXCEPT ![links[node].prev].next = links[node].next]

\* The node keeps its own links.
dlist_detach(links, node) ==
  LET prev == links[node].prev
      next == links[node].next
  IN [links EXCEPT ![prev].next = next, ![next].prev = prev]

\* Mutant: target->prev is not set.
Mut_dlist_insert_before(links, target, rookie) ==
  LET prev == links[target].prev
  IN [links EXCEPT ![prev].next = rookie,
                   ![rookie] = [prev |-> prev, next |-> target]]

dlist_insert_before(links, target, rookie) ==
  LET prev == links[target].prev
  IN [links EXCEPT ![prev].next = rookie,
                   ![rookie] = [prev |-> prev, next |-> target],
                   ![target].prev = rookie]

\* The ring of a sentinel and a sequence of nodes, from position 0 to
\* Len(list) + 1, where it closes.
RingNode(sentinel, list, i) == IF i \in 1 .. Len(list) THEN list[i] ELSE sentinel

\* links holds the ring of sentinel and list, in both directions.
Linked(links, sentinel, list) ==
  \A i \in 0 .. Len(list) :
    /\ links[RingNode(sentinel, list, i)].next = RingNode(sentinel, list, i + 1)
    /\ links[RingNode(sentinel, list, i + 1)].prev = RingNode(sentinel, list, i)
=============================================================================
