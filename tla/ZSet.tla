-------------------------------- MODULE ZSet --------------------------------
(***************************************************************************)
(* The sorted set of src/zset.cpp, with the tree operations of avl.cpp:    *)
(* one ZNode per name, linked into a tree ordered by (score, name) and     *)
(* into a hash map keyed by name.                                          *)
(*                                                                         *)
(* Data.  A ZNode is its name, a number: the order of numbers is that of   *)
(* memcmp and length.  The hash map is the set of its keys, as KeySet.tla  *)
(* promises.  Free is the heap where no ZNode is allocated.                *)
(*                                                                         *)
(* Control.  One step per iteration of each loop: tree_add's search,       *)
(* avl_fix's climb, avl_del's search for a successor, zset_query's search, *)
(* avl_offset, and do_zquery's output.  avl_del calls itself: dels is the  *)
(* stack of the nodes it was called for.  No operation begins before the   *)
(* last one has ended: the server has one thread.                          *)
(***************************************************************************)
EXTENDS AVLTree, FiniteSets, Sequences

CONSTANTS
  Name,           \* the names of tuples, as numbers
  Score,          \* the scores
  Offset, Limit,  \* the offsets and limits zquery is asked for
  Width,          \* 2^32 in the code: uint32_t wraps around here
  MaxQueried      \* bound on the size of the sets that are queried, for TLC

ASSUME ZSetAssumption ==
  /\ Name \subseteq Nat /\ IsFiniteSet(Name) /\ NULL \notin Name
  /\ Score \subseteq Int
  /\ Offset \subseteq Int /\ Limit \subseteq Int
  /\ Width \in Nat /\ Cardinality(Name) < Width
  /\ MaxQueried \in Nat

VARIABLES
  tree,           \* the heap of AVLNodes, embedded in the ZNodes
  root,           \* zset->tree
  score,          \* ZNode::score
  hmap,           \* zset->hmap
  reply,          \* the node that zset_lookup, zset_pop or zset_query found
  asked,          \* the score and name that a zquery seeks, or <<>>
  pc,             \* "idle", or the loop or function that runs
  arg,            \* the score and name given to zset_update or zset_query
  node,           \* tree_add's node
  dels,           \* the nodes avl_del was called for, the last call last
  top,            \* what avl_fix or avl_del returned as the root
  cur,            \* the node a loop is at
  start,          \* what zset_query found
  pos, offset,    \* avl_offset's pos and argument
  limit, out      \* do_zquery's limit and the tuples written

zset == <<tree, root, score, hmap>>
call == <<arg, node, dels, top>>
query == <<start, pos, offset, limit, out>>
vars == <<zset, reply, asked, pc, call, cur, query>>

\* zless: the tuple (s, n) comes before (t, m).
zless(s, n, t, m) == s < t \/ (s = t /\ n < m)

\* zset_lookup, and the search of zset_pop: by name, in the hash map.
Found(n) == root # NULL /\ n \in hmap

NodeReply(n) == IF n = NULL THEN {} ELSE {<<score[n], n>>}
-----------------------------------------------------------------------------
Init ==
  /\ tree = [n \in Name |-> Free] /\ root = NULL
  /\ score = [n \in Name |-> 0] /\ hmap = {}
  /\ reply = {} /\ asked = <<>> /\ pc = "idle"
  /\ arg = <<>> /\ node = NULL /\ dels = <<>> /\ top = NULL /\ cur = NULL
  /\ start = NULL /\ pos = 0 /\ offset = 0 /\ limit = 0 /\ out = <<>>

\* zset_add of a new name: znode_new, hm_insert and the call of tree_add.
AddNew(n, s) ==
  /\ pc = "idle" /\ ~ Found(n)
  /\ hmap' = hmap \cup {n}
  /\ score' = [score EXCEPT ![n] = s]
  /\ tree' = [tree EXCEPT ![n] = avl_init]
  /\ node' = n /\ cur' = root /\ pc' = "tree_add"
  /\ reply' = {}
  /\ UNCHANGED <<root, asked, arg, dels, top, query>>

\* Mutant: the score is changed in place.
Mut_Update(n, s) ==
  /\ pc = "idle" /\ Found(n)
  /\ reply' = NodeReply(n)
  /\ score' = [score EXCEPT ![n] = s]
  /\ UNCHANGED <<tree, root, hmap, asked, pc, call, cur, query>>

\* zset_add of a name that is there, zset_update: the node is taken out of
\* the tree, to be added again with its new score.
Update(n, s) ==
  /\ pc = "idle" /\ Found(n)
  /\ \/ /\ score[n] = s
        /\ reply' = NodeReply(n)
        /\ UNCHANGED <<arg, dels, pc>>
     \/ /\ score[n] # s
        /\ reply' = {}
        /\ arg' = <<s, n>> /\ dels' = <<n>> /\ pc' = "avl_del"
  /\ UNCHANGED <<zset, asked, node, top, cur, query>>

\* zset_pop: hm_pop and the call of avl_del.
zset_pop(n) ==
  /\ pc = "idle"
  /\ \/ /\ Found(n)
        /\ hmap' = hmap \ {n}
        /\ reply' = NodeReply(n)
        /\ dels' = <<n>> /\ pc' = "avl_del"
     \/ /\ ~ Found(n)
        /\ reply' = {}
        /\ UNCHANGED <<hmap, dels, pc>>
  /\ UNCHANGED <<tree, root, score, asked, arg, node, top, cur, query>>

\* Where tuple c has, or will have, the node that is added.
Side(c) == IF zless(score[node], node, score[c], c) THEN "left" ELSE "right"

\* tree_add's loop ends at an empty place, zset->tree or a child of cur.
TreeAdd ==
  /\ pc = "tree_add"
  /\ \/ /\ cur = NULL
        /\ root' = node /\ cur' = node /\ pc' = "avl_fix"
        /\ UNCHANGED tree
     \/ /\ cur # NULL
        /\ tree[cur][Side(cur)] # NULL
        /\ cur' = tree[cur][Side(cur)]
        /\ UNCHANGED <<tree, root, pc>>
     \/ /\ cur # NULL
        /\ tree[cur][Side(cur)] = NULL
        /\ tree' = [tree EXCEPT ![node].parent = cur, ![cur][Side(cur)] = node]
        /\ cur' = node /\ pc' = "avl_fix"
        /\ UNCHANGED root
  /\ UNCHANGED <<score, hmap, reply, asked, call, query>>

\* avl_fix's loop: to the parent, or, from the root, back to tree_add or
\* avl_del.
AvlFix ==
  LET fixed == avl_fix(tree, cur)
  IN /\ pc = "avl_fix"
     /\ tree' = fixed.heap
     /\ \/ /\ tree[cur].parent # NULL
           /\ cur' = fixed.heap[fixed.root].parent
           /\ UNCHANGED <<root, node, top, pc>>
        \/ /\ tree[cur].parent = NULL /\ dels = <<>>
           /\ root' = fixed.root
           /\ node' = NULL /\ cur' = NULL /\ pc' = "idle"
           /\ UNCHANGED top
        \/ /\ tree[cur].parent = NULL /\ dels # <<>>
           /\ top' = fixed.root
           /\ cur' = NULL /\ pc' = "deleted"
           /\ UNCHANGED <<root, node>>
     /\ UNCHANGED <<score, hmap, reply, asked, arg, dels, query>>

\* The node that the innermost avl_del is to delete, or has deleted.
Deleting == dels[Len(dels)]

\* avl_del begins: the node is unlinked, or a successor is sought.
AvlDel ==
  /\ pc = "avl_del"
  /\ \/ /\ tree[Deleting].right # NULL
        /\ cur' = tree[Deleting].right /\ pc' = "victim"
        /\ UNCHANGED <<tree, top>>
     \/ /\ tree[Deleting].right = NULL
        /\ tree' = Unlink(tree, Deleting)
        /\ cur' = tree[Deleting].parent
        /\ \/ /\ tree[Deleting].parent # NULL
              /\ pc' = "avl_fix"
              /\ UNCHANGED top
           \/ /\ tree[Deleting].parent = NULL
              /\ pc' = "deleted"
              /\ top' = tree[Deleting].left
  /\ UNCHANGED <<root, score, hmap, reply, asked, arg, node, dels, query>>

\* avl_del's loop to the leftmost node of the right subtree, the victim,
\* which avl_del is called for.
Victim ==
  /\ pc = "victim"
  /\ \/ /\ tree[cur].left # NULL
        /\ cur' = tree[cur].left
        /\ UNCHANGED <<dels, pc>>
     \/ /\ tree[cur].left = NULL
        /\ dels' = Append(dels, cur)
        /\ cur' = NULL /\ pc' = "avl_del"
  /\ UNCHANGED <<zset, reply, asked, arg, node, top, query>>

\* avl_del has deleted the victim of the call before it.
VictimDeleted ==
  LET n == dels[Len(dels) - 1]
  IN /\ pc = "deleted" /\ Len(dels) > 1
     /\ tree' = TakePlace(tree, n, Deleting)
     /\ top' = IF tree[n].parent = NULL THEN Deleting ELSE top
     /\ dels' = SubSeq(dels, 1, Len(dels) - 1)
     /\ UNCHANGED <<root, score, hmap, reply, asked, pc, arg, node, cur, query>>

\* avl_del returns to zset_pop, which returns the node to do_zrem for
\* znode_del, or to zset_update, which gives it its new score.
Deleted ==
  /\ pc = "deleted" /\ Len(dels) = 1
  /\ root' = top /\ top' = NULL /\ dels' = <<>>
  /\ \/ /\ arg = <<>>
        /\ tree' = [tree EXCEPT ![Deleting] = Free]
        /\ score' = [score EXCEPT ![Deleting] = 0]
        /\ pc' = "idle"
        /\ UNCHANGED <<reply, node, cur>>
     \/ /\ arg # <<>>
        /\ tree' = [tree EXCEPT ![Deleting] = avl_init]
        /\ score' = [score EXCEPT ![Deleting] = arg[1]]
        /\ reply' = NodeReply(Deleting)
        /\ node' = Deleting /\ cur' = top /\ pc' = "tree_add"
  /\ arg' = <<>>
  /\ UNCHANGED <<hmap, asked, query>>

\* do_zquery with offset o calls zset_query.
Query(s, n, o, lim) ==
  /\ pc = "idle" /\ lim > 0
  /\ Cardinality(hmap) <= MaxQueried
  /\ arg' = <<s, n>> /\ reply' = {}
  /\ cur' = root /\ pc' = "zset_query"
  /\ offset' = o /\ limit' = lim
  /\ UNCHANGED <<zset, asked, node, dels, top, start, pos, out>>

\* zset_query's loop, and its return: then avl_offset is called.
ZSetQuery ==
  /\ pc = "zset_query"
  /\ \/ /\ cur # NULL
        /\ zless(score[cur], cur, arg[1], arg[2])
        /\ cur' = tree[cur].right
        /\ UNCHANGED <<start, arg, asked, reply, pc>>
     \/ /\ cur # NULL
        /\ ~ zless(score[cur], cur, arg[1], arg[2])
        /\ start' = cur /\ cur' = tree[cur].left
        /\ UNCHANGED <<arg, asked, reply, pc>>
     \/ /\ cur = NULL
        /\ asked' = arg /\ reply' = NodeReply(start)
        /\ cur' = start /\ arg' = <<>> /\ pc' = "offset"
        /\ UNCHANGED start
  /\ UNCHANGED <<zset, node, dels, top, pos, offset, limit, out>>

\* avl_offset's loop: into the right subtree.  avl_cnt(..) - 1 is a uint32_t.
OffsetRight ==
  LET r == tree[cur].right
  IN /\ pos < offset /\ pos + avl_cnt(tree, r) >= offset
     /\ cur' = r
     /\ pos' = pos + ((avl_cnt(tree, tree[r].left) - 1) % Width)

\* avl_offset's loop: into the left subtree.
OffsetLeft ==
  LET l == tree[cur].left
  IN /\ pos > offset /\ pos - avl_cnt(tree, l) <= offset
     /\ cur' = l
     /\ pos' = pos - (avl_cnt(tree, tree[l].left) + 1)

\* avl_offset's loop: up, or NULL at the root.
OffsetUp ==
  LET parent == tree[cur].parent
  IN /\ ~ (pos < offset /\ pos + avl_cnt(tree, tree[cur].right) >= offset)
     /\ ~ (pos > offset /\ pos - avl_cnt(tree, tree[cur].left) <= offset)
     /\ cur' = parent
     /\ IF parent = NULL THEN pos' = pos
        ELSE IF tree[parent].right = cur
          THEN pos' = pos - (avl_cnt(tree, tree[cur].left) + 1)
          ELSE pos' = pos + (avl_cnt(tree, tree[cur].right) + 1)

OffsetStep ==
  /\ pc = "offset" /\ cur # NULL /\ offset # pos
  /\ OffsetRight \/ OffsetLeft \/ OffsetUp
  /\ UNCHANGED <<zset, reply, asked, pc, call, start, offset, limit, out>>

\* znode_offset returns.
OffsetDone ==
  /\ pc = "offset" /\ (cur = NULL \/ offset = pos)
  /\ pc' = "output"
  /\ UNCHANGED <<zset, reply, asked, call, cur, query>>

\* A tuple is two elements of the reply: n += 2.
MoreOutput == cur # NULL /\ 2 * Len(out) < limit

\* do_zquery's loop: write a tuple, then avl_offset by +1.
Output ==
  /\ pc = "output" /\ MoreOutput
  /\ out' = Append(out, cur)
  /\ start' = cur /\ pos' = 0 /\ offset' = 1
  /\ pc' = "offset"
  /\ UNCHANGED <<zset, reply, asked, call, cur, limit>>

OutputDone ==
  /\ pc = "output" /\ ~ MoreOutput
  /\ pc' = "idle"
  /\ start' = NULL /\ cur' = NULL /\ pos' = 0 /\ offset' = 0
  /\ limit' = 0 /\ out' = <<>> /\ asked' = <<>> /\ reply' = {}
  /\ UNCHANGED <<zset, call>>

QueryStep == ZSetQuery \/ OffsetStep \/ OffsetDone \/ Output \/ OutputDone

\* A step of the operation that began.
Step ==
  \/ TreeAdd \/ AvlFix \/ AvlDel \/ Victim \/ VictimDeleted \/ Deleted
  \/ QueryStep

Next ==
  \/ \E n \in Name, s \in Score : AddNew(n, s) \/ Update(n, s)
  \/ \E n \in Name : zset_pop(n)
  \/ \E n \in Name, s \in Score, o \in Offset, lim \in Limit : Query(s, n, o, lim)
  \/ Step

SafeSpec == Init /\ [][Next]_vars

\* A zquery that began is run by the CPU.
Spec == SafeSpec /\ WF_vars(QueryStep)
-----------------------------------------------------------------------------
\* The type of each variable.
TypeOK ==
  LET Node == Name \cup {NULL}
      Count == 0 .. Cardinality(Name)
  IN /\ tree \in [Name -> [left : Node, right : Node, parent : Node,
                            depth : Count, cnt : Count]]
     /\ root \in Node /\ score \in [Name -> Score \cup {0}] /\ hmap \subseteq Name
     /\ reply \subseteq Score \X Name /\ asked \in (Score \X Name) \cup {<<>>}
     /\ pc \in {"idle", "tree_add", "avl_fix", "avl_del", "victim", "deleted",
                "zset_query", "offset", "output"}
     /\ arg \in (Score \X Name) \cup {<<>>} /\ dels \in Seq(Name)
     /\ node \in Node /\ top \in Node /\ cur \in Node /\ start \in Node /\ pos \in Int
     /\ offset \in Offset \cup {0, 1} /\ limit \in Limit \cup {0} /\ out \in Seq(Name)

\* No operation is changing the tree.
AtRest == pc \in {"idle", "zset_query", "offset", "output"}

\* A set that has the root, if any, and with each node its children.
Closed(S) ==
  /\ root \in S \cup {NULL}
  /\ \A n \in S : tree[n].left \in S \cup {NULL} /\ tree[n].right \in S \cup {NULL}

\* The nodes linked into the tree: the least such set.
Linked == {n \in Name : \A S \in SUBSET Name : Closed(S) => n \in S}

\* The two indexes hold the same nodes, and the links of the tree agree
\* with each other: a node is freed only when nothing points to it, however
\* avl_del moved its successor about (zset.cpp:217-228, avl.cpp:183-212).
IndexesAgree ==
  AtRest =>
    /\ Linked = hmap
    /\ root # NULL => tree[root].parent = NULL
    /\ \A n \in hmap, c \in Name :
         c \in {tree[n].left, tree[n].right} <=> c \in hmap /\ tree[c].parent = n

\* No sequence of insertions, deletions and new scores unbalances the tree
\* or leaves a stale depth or count in a node that was not on the path of
\* avl_fix (avl.cpp:118-153).
Balanced ==
  AtRest =>
    \A n \in hmap :
      LET l == tree[n].left
          r == tree[n].right
      IN /\ tree[n].depth = 1 + Larger(avl_depth(tree, l), avl_depth(tree, r))
         /\ tree[n].cnt = 1 + avl_cnt(tree, l) + avl_cnt(tree, r)
         /\ avl_depth(tree, l) - avl_depth(tree, r) \in -1 .. 1

\* The tree, the hash map and the scores together are one sorted set: what
\* zset_add, zset_pop and zset_query find is what it holds.  A tuple is in
\* the set from hm_insert to hm_pop.
Abs == INSTANCE SortedSet WITH member <- [n \in hmap |-> score[n]]

ImplementsSortedSet == Abs!Spec
-----------------------------------------------------------------------------
\* The tuples of the set, in order: a reference for avl_offset.
Rank(n) == Cardinality({m \in hmap : Abs!Before(score[m], m, score[n], n)})

\* test_offset.cpp:75 and 81: avl_offset by k is the k-th node further on,
\* or none.  avl.cpp moves pos the wrong way on its way down.
OffsetExact ==
  pc = "output" /\ start # NULL =>
    {n \in hmap : Rank(n) = Rank(start) + offset} = (IF cur = NULL THEN {} ELSE {cur})

\* README.md:92: avl_offset takes log time.  Its loop ends, at least.
QueryEnds == pc = "offset" ~> pc # "offset"
=============================================================================
