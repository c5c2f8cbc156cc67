----------------------------- MODULE ZSetProofs -----------------------------
(***************************************************************************)
(* Proofs about ZSet and AVLTree, for every finite set of names and every  *)
(* set of scores: after any sequence of operations the nodes are linked    *)
(* into one search tree that is balanced and counted.                      *)
(*                                                                         *)
(* A tree is described by the set sub[n] of the nodes under each node n.   *)
(* The lemmas on AVLTree say, of any heap, what each operation makes of    *)
(* these sets; the loop of avl_fix is then an invariant of ZSet's steps.   *)
(***************************************************************************)
EXTENDS ZSet, FiniteSetTheorems, TLAPS

Node == Name \cup {NULL}
Sides == {"left", "right"}
Heap == [Name -> [left : Node, right : Node, parent : Node, depth : Nat, cnt : Nat]]

\* Node n comes before node m, by the scores sc.
Less(sc, n, m) == zless(sc[n], n, sc[m], m)

\* m belongs on side s of n.
OnSide(sc, s, m, n) == IF s = "left" THEN Less(sc, m, n) ELSE Less(sc, n, m)

Under(sub, n) == IF n = NULL THEN {} ELSE sub[n]

\* The nodes of T are linked into a search tree with root r, and sub[n] is
\* the set of the nodes at and under n.
SearchTree(t, sc, T, r, sub) ==
  /\ sub \in [T -> SUBSET T]
  /\ r \in T \cup {NULL} /\ Under(sub, r) = T
  /\ r # NULL => t[r].parent = NULL
  /\ \A n \in T :
       sub[n] = {n} \cup Under(sub, t[n]["left"]) \cup Under(sub, t[n]["right"])
  /\ \A n \in T, s \in Sides :
       /\ t[n][s] \in T \cup {NULL}
       /\ t[n][s] # NULL => t[t[n][s]].parent = n
       /\ \A m \in Under(sub, t[n][s]) : OnSide(sc, s, m, n)
  /\ \A n \in T \ {r} : t[n].parent \in T /\ \E s \in Sides : t[t[n].parent][s] = n

\* The depth of m, where that of c is still e to the nodes above it.
Depth(t, c, e, m) == IF m = c THEN e ELSE avl_depth(t, m)

Near(d, e) == d - e \in -1 .. 1

\* The depth of n is right and its subtrees are balanced.
Poised(t, c, e, n) ==
  LET l == Depth(t, c, e, t[n].left)
      r == Depth(t, c, e, t[n].right)
  IN t[n].depth = 1 + Larger(l, r) /\ Near(l, r)

\* Node n was poised before the depth of one of its children changed by one.
Stale(t, n) ==
  \E l, r \in Nat :
    /\ t[n].depth = 1 + Larger(l, r) /\ Near(l, r)
    /\ \/ l = avl_depth(t, t[n].left) /\ Near(avl_depth(t, t[n].right), r)
       \/ r = avl_depth(t, t[n].right) /\ Near(avl_depth(t, t[n].left), l)

\* avl_fix may go on at c, whose depth was e: c is a new leaf, or stale.
Fixable(t, c, e) ==
  \/ c = NULL /\ e = 0
  \/ c # NULL /\ e = 0 /\ t[c].left = NULL /\ t[c].right = NULL
  \/ c # NULL /\ e = t[c].depth /\ Stale(t, c)

\* All nodes but c are poised, and their depths are no larger than their
\* counts.
BalancedBut(t, T, c) ==
  /\ \A n \in T \ {c} : 1 <= t[n].depth /\ t[n].depth <= t[n].cnt
  /\ \E e \in Nat : Fixable(t, c, e) /\ \A n \in T \ {c} : Poised(t, c, e, n)

\* All nodes but c count the nodes under them, those over c with d more.
CountedBut(t, T, sub, c, d) ==
  \A n \in T \ {c} : t[n].cnt = Cardinality(sub[n]) + (IF c \in sub[n] THEN d ELSE 0)
-----------------------------------------------------------------------------
\* The names of the set, and the one that zset_pop has taken out of hmap.
Full == hmap \cup {dels[i] : i \in 1 .. Len(dels)}

\* The names whose nodes are linked, and the root of their tree.
Nodes ==
  IF pc = "tree_add" THEN hmap \ {node}
  ELSE IF pc \in {"avl_fix", "deleted"} /\ dels # <<>> THEN Full \ {Deleting}
  ELSE Full

Root == IF pc = "deleted" THEN top ELSE root

Fixing == IF pc = "avl_fix" THEN cur ELSE NULL
Change == IF dels = <<>> THEN -1 ELSE 1

\* m is the next name after n.
Successor(n, m) ==
  Less(score, n, m) /\ \A k \in Full : ~ (Less(score, n, k) /\ Less(score, k, m))

\* Which operation is in progress, and what it was called with.
Calls ==
  /\ \A n \in Full : score[n] \in Score
  /\ pc \in {"avl_del", "victim", "deleted"} => dels # <<>>
  /\ pc \notin {"avl_del", "victim", "deleted", "avl_fix"} => dels = <<>>
  /\ dels # <<>> => IF arg = <<>> THEN dels[1] \notin hmap
                                  ELSE arg[2] = dels[1] /\ dels[1] \in hmap
  /\ dels = <<>> => (arg # <<>> <=> pc = "zset_query")
  /\ \A i \in 2 .. Len(dels) : /\ dels[i] \in hmap /\ Less(score, dels[1], dels[i])
                                /\ Successor(dels[i - 1], dels[i])
  /\ pc \notin {"offset", "output"} => asked = <<>>
  /\ pc \notin {"zset_query", "offset", "output"} => start = NULL

\* Where the loops are.
Places(sub) ==
  /\ pc = "tree_add" =>
       /\ node \in hmap /\ tree[node] = avl_init
       /\ cur \in Nodes \cup {NULL} /\ (cur = NULL => root = NULL)
       /\ \A n \in Nodes, s \in Sides :
            cur \in Under(sub, tree[n][s]) => OnSide(score, s, node, n)
  /\ pc = "avl_fix" => cur \in Nodes
  /\ pc = "victim" =>
       /\ cur \in Nodes /\ Less(score, Deleting, cur) /\ Deleting \notin sub[cur]
       /\ \A n \in Nodes :
            Less(score, Deleting, n) /\ Less(score, n, cur)
              => n \in Under(sub, tree[cur]["left"])
  /\ pc = "zset_query" =>
       /\ cur \in Nodes \cup {NULL} /\ start \in Nodes \cup {NULL}
       /\ start # NULL =>
            /\ ~ zless(score[start], start, arg[1], arg[2])
            /\ \A n \in Under(sub, cur) : Less(score, n, start)
       /\ \A n \in Nodes \ Under(sub, cur) :
            \/ zless(score[n], n, arg[1], arg[2])
            \/ start # NULL /\ ~ Less(score, n, start)
  /\ pc \in {"offset", "output"} => cur \in Nodes \cup {NULL}

Shape(sub) ==
  /\ SearchTree(tree, score, Nodes, Root, sub)
  /\ BalancedBut(tree, Nodes, Fixing)
  /\ CountedBut(tree, Nodes, sub, Fixing, Change)
  /\ Places(sub)

ZInv == TypeOK /\ Calls /\ \E sub \in [Nodes -> SUBSET Nodes] : Shape(sub)
-----------------------------------------------------------------------------
\* Tuples are totally ordered.
LEMMA LessOrder ==
  ASSUME NEW sc \in [Name -> Int]
  PROVE  /\ \A n \in Name : ~ Less(sc, n, n)
         /\ \A n, m \in Name : Less(sc, n, m) => ~ Less(sc, m, n)
         /\ \A n, m \in Name : n = m \/ Less(sc, n, m) \/ Less(sc, m, n)
         /\ \A n, m, k \in Name : Less(sc, n, m) /\ Less(sc, m, k) => Less(sc, n, k)
<1> DEFINE Int2 == \A n \in Name : sc[n] \in Int /\ n \in Int
<1>1. Int2
  BY ZSetAssumption
<1> QED
  BY <1>1 DEF Less, zless

\* A node is at the top of its subtree, which has those of its children.
Nodal(t, T, sub) ==
  /\ NULL \notin T
  /\ \A n \in T : n \in Name /\ n \in sub[n] /\ sub[n] \subseteq T
  /\ \A n \in T, s \in Sides :
       /\ t[n][s] \in T \cup {NULL} /\ t[n][s] # n
       /\ n \notin Under(sub, t[n][s])
       /\ Under(sub, t[n][s]) \subseteq sub[n]
  /\ \A n \in T, s \in Sides :
       t[n][s] # NULL => /\ t[n][s] \in T /\ sub[t[n][s]] = Under(sub, t[n][s])
                         /\ t[t[n][s]].parent = n
  /\ \A n \in T : Under(sub, t[n]["left"]) \cap Under(sub, t[n]["right"]) = {}
  /\ \A n \in T : \A m \in sub[n] :
       m = n \/ \E s \in Sides : t[n][s] # NULL /\ m \in sub[t[n][s]]

\* A search tree says this of each node and its children.
LEMMA TreeIsNodal ==
  ASSUME NEW t, NEW sc \in [Name -> Int], NEW T \in SUBSET Name, NEW r, NEW sub,
         SearchTree(t, sc, T, r, sub)
  PROVE  Nodal(t, T, sub)
<1>0. NULL \notin T
  BY ZSetAssumption
<1>1. \A n \in T : n # NULL /\ n \in Name /\ n \in sub[n] /\ sub[n] \subseteq T
  BY ZSetAssumption DEF SearchTree
<1>2. ASSUME NEW n \in T, NEW s \in Sides
      PROVE  /\ t[n][s] \in T \cup {NULL} /\ t[n][s] # n
             /\ n \notin Under(sub, t[n][s])
             /\ Under(sub, t[n][s]) \subseteq sub[n] /\ Under(sub, t[n][s]) \subseteq T
  <2>1. t[n][s] \in T \cup {NULL} /\ \A m \in Under(sub, t[n][s]) : OnSide(sc, s, m, n)
    BY DEF SearchTree
  <2>2. n \notin Under(sub, t[n][s])
    BY <1>1, <2>1, LessOrder DEF OnSide
  <2>3. t[n][s] # n
    BY <1>1, <2>2 DEF Under
  <2>4. Under(sub, t[n][s]) \subseteq sub[n]
    BY DEF SearchTree, Sides
  <2> QED
    BY <1>1, <2>1, <2>2, <2>3, <2>4
<1>3. ASSUME NEW n \in T, NEW m, m \in Under(sub, t[n]["left"]), m \in Under(sub, t[n]["right"])
      PROVE  FALSE
  <2>1. OnSide(sc, "left", m, n) /\ OnSide(sc, "right", m, n)
    BY <1>3 DEF SearchTree, Sides
  <2>2. m \in T
    BY <1>2, <1>3 DEF Sides
  <2> QED
    BY <1>1, <2>1, <2>2, LessOrder DEF OnSide
<1>4. ASSUME NEW n \in T, NEW m \in sub[n], m # n
      PROVE  \E s \in Sides : t[n][s] # NULL /\ m \in sub[t[n][s]]
  <2>1. \E s \in Sides : m \in Under(sub, t[n][s])
    BY <1>4 DEF SearchTree, Sides
  <2> QED
    BY <1>2, <2>1 DEF Under
<1>5. \A n \in T, s \in Sides :
        t[n][s] # NULL => /\ t[n][s] \in T /\ sub[t[n][s]] = Under(sub, t[n][s])
                          /\ t[t[n][s]].parent = n
  BY DEF SearchTree, Under
<1> QED
  BY <1>0, <1>1, <1>2, <1>3, <1>4, <1>5 DEF Nodal

\* A set of nodes has one whose subtree contains no other's of the set.
LEMMA LeastSubtree ==
  ASSUME NEW T \in SUBSET Name, NEW sub \in [T -> SUBSET T], NEW B \in SUBSET T, B # {}
  PROVE  \E a \in B : \A b \in B : sub[b] \subseteq sub[a] => sub[b] = sub[a]
<1> DEFINE F == {sub[a] : a \in B}
<1>1. IsFiniteSet(T)
  BY ZSetAssumption, FS_Subset
<1>2. F \subseteq FiniteSubsetsOf(T)
  BY <1>1, FS_FiniteSubsetsOfFinite
<1>3. PICK x \in F : \A y \in F : ~ (<<y, x>> \in StrictSubsetOrdering(T))
  <2>1. F # {}
    OBVIOUS
  <2>2. IsWellFoundedOn(StrictSubsetOrdering(T), FiniteSubsetsOf(T))
    BY FS_StrictSubsetOrderingWellFounded
  <2> HIDE DEF F
  <2> QED
    BY <1>2, <2>1, <2>2, WFMin, Zenon
<1>4. PICK a \in B : x = sub[a]
  OBVIOUS
<1>5. ASSUME NEW b \in B, sub[b] \subseteq sub[a], sub[b] # sub[a]
      PROVE  FALSE
  <2>1. <<sub[b], x>> \in StrictSubsetOrdering(T)
    BY <1>4, <1>5 DEF StrictSubsetOrdering
  <2> QED
    BY <1>3, <2>1
<1> QED
  BY <1>5

\* And one whose subtree is contained in no other's.
LEMMA GreatestSubtree ==
  ASSUME NEW T \in SUBSET Name, NEW sub \in [T -> SUBSET T], NEW B \in SUBSET T, B # {}
  PROVE  \E a \in B : \A b \in B : sub[a] \subseteq sub[b] => sub[b] = sub[a]
<1> DEFINE co == [n \in T |-> T \ sub[n]]
<1>1. PICK a \in B : \A b \in B : co[b] \subseteq co[a] => co[b] = co[a]
  <2>1. co \in [T -> SUBSET T]
    OBVIOUS
  <2> HIDE DEF co
  <2> QED
    BY <2>1, LeastSubtree
<1>2. ASSUME NEW b \in B, sub[a] \subseteq sub[b] PROVE sub[b] = sub[a]
  <2>1. sub[a] \subseteq T /\ sub[b] \subseteq T /\ co[b] = T \ sub[b] /\ co[a] = T \ sub[a]
    OBVIOUS
  <2>2. co[b] \subseteq co[a]
    BY <1>2, <2>1
  <2>3. co[b] = co[a]
    BY <1>1, <2>2
  <2> QED
    BY <2>1, <2>3
<1> QED
  BY <1>2

\* A subtree has the subtrees of its nodes, and their parents but for its
\* own top's.
Nested(t, T, sub) ==
  \A a \in T : \A m \in sub[a] :
    sub[m] \subseteq sub[a] /\ (m # a => t[m].parent \in sub[a])

\* The subtrees of a search tree are nested.
LEMMA TreeIsNested ==
  ASSUME NEW t, NEW sc \in [Name -> Int], NEW T \in SUBSET Name, NEW r, NEW sub,
         SearchTree(t, sc, T, r, sub)
  PROVE  Nested(t, T, sub)
<1> DEFINE Good(a, m) == sub[m] \subseteq sub[a] /\ (m # a => t[m].parent \in sub[a])
           B == {a \in T : \E m \in sub[a] : ~ Good(a, m)}
<1>1. sub \in [T -> SUBSET T] /\ Nodal(t, T, sub)
  BY TreeIsNodal DEF SearchTree
<1>2. ASSUME B # {} PROVE FALSE
  <2>1. B \in SUBSET T
    OBVIOUS
  <2>2. PICK a \in B : \A b \in B : sub[b] \subseteq sub[a] => sub[b] = sub[a]
    <3> HIDE DEF B
    <3> QED
      BY <1>1, <1>2, <2>1, LeastSubtree
  <2>3. PICK m \in sub[a] : ~ Good(a, m)
    OBVIOUS
  <2>4. PICK s \in Sides : t[a][s] # NULL /\ m \in sub[t[a][s]]
    BY <1>1, <2>3 DEF Nodal
  <2> DEFINE c == t[a][s]
  <2>5. c \in T /\ sub[c] \subseteq sub[a] /\ a \notin sub[c] /\ a \in sub[a] /\ t[c].parent = a
    BY <1>1, <2>4 DEF Nodal
  <2> HIDE DEF c
  <2>6. c \notin B
    BY <2>2, <2>5
  <2>7. Good(c, m)
    BY <2>4, <2>5, <2>6 DEF c
  <2> QED
    BY <2>3, <2>4, <2>5, <2>7 DEF c
<1> QED
  BY <1>2 DEF Nested

\* A node and its parent.
Familial(t, T, r, sub) ==
  /\ \A n \in T : t[n].parent = NULL <=> n = r
  /\ \A n \in T \ {r} :
       /\ t[n].parent \in T /\ t[n].parent # n /\ t[n].parent \notin sub[n]
       /\ n \in sub[t[n].parent] /\ \E s \in Sides : t[t[n].parent][s] = n
  /\ \A n \in T, a \in T : a # n => (n \in sub[a] <=> n # r /\ t[n].parent \in sub[a])
  /\ \A n \in T, a \in T : n \in sub[a] /\ a \in sub[n] => a = n
  /\ \A n \in T, a \in T, s \in Sides : t[a][s] = n => n # r /\ t[n].parent = a

\* In a search tree each node but the root is under its parent.
LEMMA TreeIsFamilial ==
  ASSUME NEW t, NEW sc \in [Name -> Int], NEW T \in SUBSET Name, NEW r, NEW sub,
         SearchTree(t, sc, T, r, sub)
  PROVE  Familial(t, T, r, sub)
<1>1. Nodal(t, T, sub) /\ Nested(t, T, sub)
  BY TreeIsNodal, TreeIsNested
<1>2. \A n \in T \ {r} : t[n].parent \in T /\ \E s \in Sides : t[t[n].parent][s] = n
  BY DEF SearchTree
<1>3. \A n \in T : n = r => t[n].parent = NULL
  BY <1>1 DEF SearchTree, Nodal
<1>4. ASSUME NEW n \in T \ {r}
      PROVE  t[n].parent # n /\ t[n].parent \notin sub[n] /\ n \in sub[t[n].parent]
  <2>1. PICK s \in Sides : t[t[n].parent][s] = n
    BY <1>2
  <2> DEFINE p == t[n].parent
  <2>2. p \in T /\ t[p][s] = n /\ n # NULL /\ n \in sub[n]
    BY <1>1, <1>2, <2>1 DEF Nodal
  <2> HIDE DEF p
  <2>3. p \notin sub[n] /\ sub[n] \subseteq sub[p] /\ n # p
    BY <1>1, <2>2 DEF Nodal
  <2> QED
    BY <2>2, <2>3 DEF p
<1>5. \A n \in T, a \in T : n \in sub[a] /\ a \in sub[n] => a = n
  <2> SUFFICES ASSUME NEW n \in T, NEW a \in T, n \in sub[a], a \in sub[n], a # n
               PROVE  FALSE
    OBVIOUS
  <2>1. PICK s \in Sides : t[n][s] # NULL /\ a \in sub[t[n][s]]
    BY <1>1 DEF Nodal
  <2>2. t[n][s] \in T /\ n \notin sub[t[n][s]]
    BY <1>1, <2>1 DEF Nodal
  <2>3. sub[a] \subseteq sub[t[n][s]]
    BY <1>1, <2>1, <2>2 DEF Nested
  <2> QED
    BY <2>2, <2>3
<1>6. ASSUME NEW n \in T, NEW a \in T, a # n, n \in sub[a]
      PROVE  n # r /\ t[n].parent \in sub[a]
  <2>1. t[n].parent \in sub[a]
    BY <1>1, <1>6 DEF Nested
  <2>2. sub[a] \subseteq T /\ NULL \notin T
    BY <1>1 DEF Nodal
  <2> QED
    BY <1>3, <2>1, <2>2
<1>7. ASSUME NEW n \in T, NEW a \in T, n # r, t[n].parent \in sub[a]
      PROVE  n \in sub[a]
  <2>1. sub[t[n].parent] \subseteq sub[a]
    BY <1>1, <1>7 DEF Nested
  <2> QED
    BY <1>4, <1>7, <2>1
<1>8. ASSUME NEW n \in T, NEW a \in T, NEW s \in Sides, t[a][s] = n
      PROVE  n # r /\ t[n].parent = a
  <2>1. t[n].parent = a /\ a # NULL
    BY <1>1, <1>8 DEF Nodal
  <2> QED
    BY <1>3, <2>1
<1>9. \A n \in T : t[n].parent = NULL <=> n = r
  BY <1>1, <1>2, <1>3 DEF Nodal
<1> QED
  BY <1>2, <1>4, <1>5, <1>6, <1>7, <1>8, <1>9 DEF Familial

\* What is not in a subtree is before or after all of it.
LEMMA Convex ==
  ASSUME NEW t, NEW sc \in [Name -> Int], NEW T \in SUBSET Name, NEW r, NEW sub,
         SearchTree(t, sc, T, r, sub)
  PROVE  \A a \in T, m \in T :
           m \notin sub[a] => \/ \A k \in sub[a] : Less(sc, m, k)
                              \/ \A k \in sub[a] : Less(sc, k, m)
<1> DEFINE Apart(a, m) == \/ \A k \in sub[a] : Less(sc, m, k)
                          \/ \A k \in sub[a] : Less(sc, k, m)
           B == {a \in T : \E m \in T : m \notin sub[a] /\ ~ Apart(a, m)}
<1>1. sub \in [T -> SUBSET T] /\ Nodal(t, T, sub) /\ Familial(t, T, r, sub)
  <2>1. sub \in [T -> SUBSET T]
    BY DEF SearchTree
  <2>2. Nodal(t, T, sub) /\ Familial(t, T, r, sub)
    BY TreeIsNodal, TreeIsFamilial
  <2> QED
    BY <2>1, <2>2
<1>2. \A n \in T, s \in Sides : \A m \in Under(sub, t[n][s]) : OnSide(sc, s, m, n)
  BY DEF SearchTree
<1>3. ASSUME B # {} PROVE FALSE
  <2>1. B \in SUBSET T
    OBVIOUS
  <2>2. PICK a \in B : \A b \in B : sub[a] \subseteq sub[b] => sub[b] = sub[a]
    <3> HIDE DEF B
    <3> QED
      BY <1>1, <1>3, <2>1, GreatestSubtree
  <2>3. PICK m \in T : m \notin sub[a] /\ ~ Apart(a, m)
    OBVIOUS
  <2>4. a # r
    BY <1>1, <2>3 DEF SearchTree, Under, Nodal
  <2> DEFINE p == t[a].parent
  <2>5. PICK s \in Sides : t[p][s] = a
    BY <1>1, <2>4 DEF Familial
  <2>6. p \in T
    BY <1>1, <2>4 DEF Familial
  <2> HIDE DEF p
  <2>7. /\ a # NULL /\ Under(sub, t[p][s]) = sub[a] /\ sub[a] \subseteq sub[p]
        /\ p \notin sub[a] /\ p \in sub[p] /\ sub[a] \subseteq Name /\ p \in Name /\ m \in Name
    BY <1>1, <2>5, <2>6 DEF Nodal
  <2>8. p \notin B
    BY <2>2, <2>7
  <2>9. m \in sub[p]
    <3>1. m \notin sub[p] => Apart(p, m)
      BY <2>6, <2>8
    <3> QED
      BY <2>3, <2>7, <3>1
  <2>10. \A k \in sub[a] : OnSide(sc, s, k, p) /\ k \in Name
    BY <1>2, <2>6, <2>7
  <2>11. m # p
    BY <2>3, <2>10 DEF OnSide
  <2>12. PICK s2 \in Sides : t[p][s2] # NULL /\ m \in sub[t[p][s2]]
    BY <1>1, <2>6, <2>9, <2>11 DEF Nodal
  <2>13. s2 # s
    BY <2>3, <2>5, <2>12
  <2>14. OnSide(sc, s2, m, p)
    <3>1. sub[t[p][s2]] = Under(sub, t[p][s2])
      BY <1>1, <2>6, <2>12 DEF Nodal
    <3> QED
      BY <1>2, <2>6, <2>12, <3>1
  <2>15. Apart(a, m)
    <3>1. CASE s = "left"
      <4>1. s2 = "right"
        BY <2>13, <3>1 DEF Sides
      <4> QED
        BY <2>7, <2>10, <2>14, <3>1, <4>1, LessOrder DEF OnSide
    <3>2. CASE s = "right"
      <4>1. s2 = "left"
        BY <2>13, <3>2 DEF Sides
      <4> QED
        BY <2>7, <2>10, <2>14, <3>2, <4>1, LessOrder DEF OnSide
    <3> QED
      BY <3>1, <3>2 DEF Sides
  <2> QED
    BY <2>3, <2>15
<1> QED
  BY <1>3
-----------------------------------------------------------------------------
(***************************************************************************)
(* Rotations.                                                              *)
(***************************************************************************)
Opposite(up, down) == {up, down} = Sides /\ up # down

\* In u, the child of n on side up has taken n's place in t, and n has
\* become its child on side down; both are updated.
Turned(t, u, n, up, down) ==
  LET x     == t[n][up]
      inner == t[x][down]
  IN /\ u[n][up] = inner /\ u[n][down] = t[n][down] /\ u[n].parent = x
     /\ u[x][up] = t[x][up] /\ u[x][down] = n /\ u[x].parent = t[n].parent
     /\ \A m \in Name \ {n, x} :
          /\ u[m].parent = IF m = inner THEN n ELSE t[m].parent
          /\ \A s \in Sides :
               u[m][s] = IF m = t[n].parent /\ t[m][s] = n THEN x ELSE t[m][s]
          /\ u[m].depth = t[m].depth /\ u[m].cnt = t[m].cnt

Turn(t, sub, n, up, down) ==
  LET x == t[n][up]
  IN [sub EXCEPT ![n] = {n} \cup Under(sub, t[x][down]) \cup Under(sub, t[n][down]),
                 ![x] = sub[n]]

\* A rotation keeps the order of the nodes.
LEMMA TurnedTree ==
  ASSUME NEW t, NEW u, NEW sc \in [Name -> Int], NEW T \in SUBSET Name, NEW r, NEW sub,
         SearchTree(t, sc, T, r, sub),
         NEW n \in T, NEW up, NEW down, Opposite(up, down), t[n][up] # NULL,
         Turned(t, u, n, up, down)
  PROVE  SearchTree(u, sc, T, IF n = r THEN t[n][up] ELSE r, Turn(t, sub, n, up, down))
<1> DEFINE x == t[n][up]
           inner == t[x][down]
           low == t[n][down]
           high == t[x][up]
           p == t[n].parent
           sub2 == Turn(t, sub, n, up, down)
           r2 == IF n = r THEN x ELSE r
<1>1. /\ sub \in [T -> SUBSET T] /\ Nodal(t, T, sub) /\ Familial(t, T, r, sub)
      /\ Nested(t, T, sub)
  BY TreeIsNodal, TreeIsFamilial, TreeIsNested DEF SearchTree
<1>2. up \in Sides /\ down \in Sides /\ up # down /\ \A s \in Sides : s = up \/ s = down
  BY DEF Opposite
<1>3. x \in T /\ x # n /\ t[x].parent = n /\ sub[x] = Under(sub, x) /\ x \in Name /\ n \in Name
      /\ x # NULL /\ n # NULL
  BY <1>1, <1>2 DEF Nodal
<1>4. /\ inner \in T \cup {NULL} /\ low \in T \cup {NULL} /\ high \in T \cup {NULL}
      /\ inner # x /\ low # n /\ high # x /\ inner # n /\ high # n
      /\ Under(sub, inner) \subseteq sub[x] /\ Under(sub, high) \subseteq sub[x]
      /\ Under(sub, low) \subseteq sub[n] /\ sub[x] \subseteq sub[n] /\ sub[n] \subseteq T
  <2>1. sub[x] = Under(sub, t[n][up])
    BY <1>3
  <2>2. n \notin sub[x]
    BY <1>1, <1>2, <2>1 DEF Nodal
  <2>3. n \notin Under(sub, inner) /\ n \notin Under(sub, high)
    BY <1>1, <1>2, <1>3, <2>2 DEF Nodal
  <2>4. inner # n /\ high # n
    BY <1>1, <1>2, <1>3, <2>3 DEF Nodal, Under
  <2> QED
    BY <1>1, <1>2, <1>3, <2>1, <2>4 DEF Nodal
<1>5. /\ sub[n] = {n} \cup sub[x] \cup Under(sub, low)
      /\ sub[x] = {x} \cup Under(sub, inner) \cup Under(sub, high)
  <2>1. \A m \in T : sub[m] = {m} \cup Under(sub, t[m][up]) \cup Under(sub, t[m][down])
    BY <1>2 DEF SearchTree, Opposite, Sides
  <2> QED
    BY <1>3, <2>1
<1>6. /\ u[n][up] = inner /\ u[n][down] = low /\ u[n].parent = x
      /\ u[x][up] = high /\ u[x][down] = n /\ u[x].parent = p
      /\ \A m \in Name \ {n, x} :
           /\ u[m].parent = IF m = inner THEN n ELSE t[m].parent
           /\ \A s \in Sides :
                u[m][s] = IF m = p /\ t[m][s] = n THEN x ELSE t[m][s]
  BY DEF Turned
<1>7. /\ sub2 \in [T -> SUBSET T]
      /\ sub2[n] = {n} \cup Under(sub, inner) \cup Under(sub, low)
      /\ sub2[x] = sub[n]
      /\ \A m \in T \ {n, x} : sub2[m] = sub[m]
  BY <1>1, <1>3, <1>4 DEF Turn
<1>8. Under(sub, x) = sub[x] /\ n \notin sub[x] /\ Under(sub, low) \cap sub[x] = {}
      /\ low # x /\ (low # inner \/ low = NULL) /\ (high # inner \/ high = NULL)
  <2>1. Under(sub, t[n]["left"]) \cap Under(sub, t[n]["right"]) = {}
        /\ Under(sub, t[x]["left"]) \cap Under(sub, t[x]["right"]) = {}
    BY <1>1, <1>3 DEF Nodal
  <2>2. Under(sub, t[n][up]) \cap Under(sub, low) = {} /\ Under(sub, inner) \cap Under(sub, high) = {}
    BY <1>2, <2>1 DEF Opposite, Sides
  <2>3. Under(sub, x) = sub[x] /\ n \notin sub[x]
    BY <1>1, <1>2, <1>3 DEF Nodal
  <2>4. x \in sub[x] /\ \A m \in T : Under(sub, m) = sub[m] /\ m \in sub[m]
    BY <1>1, <1>3 DEF Nodal, Under
  <2> QED
    BY <1>3, <1>4, <2>2, <2>3, <2>4
<1>9. \A m \in T, s \in Sides : \A k \in Under(sub, t[m][s]) : OnSide(sc, s, k, m)
  BY DEF SearchTree
<1>10. /\ inner # NULL => t[inner].parent = x
       /\ low # NULL => t[low].parent = n
       /\ high # NULL => t[high].parent = x
       /\ p = NULL <=> n = r
       /\ n # r => p \in T /\ p \notin sub[n] /\ p # n /\ n \in sub[p]
       /\ x # r
  BY <1>1, <1>2, <1>3, <1>4 DEF Familial, Nodal
<1>11. p # x
  BY <1>1, <1>3, <1>4, <1>10 DEF Nodal
<1>12. \A m \in T, s \in Sides :
         /\ t[m][s] # NULL => t[m][s] \in T /\ t[t[m][s]].parent = m
         /\ t[m][s] \in T \cup {NULL}
  BY <1>1 DEF Nodal
<1>13. \A m \in T \ {r} : t[m].parent \in T /\ \E s \in Sides : t[t[m].parent][s] = m
  BY <1>1 DEF Familial
<1>14. r \in T \cup {NULL} /\ Under(sub, r) = T /\ (r # NULL => t[r].parent = NULL)
       /\ T \subseteq Name /\ NULL \notin T
  BY <1>1 DEF SearchTree, Nodal
<1> HIDE DEF x, inner, low, high, p, sub2, r2
<1>15. \A m \in T \cup {NULL} : m \notin {n, x} => Under(sub2, m) = Under(sub, m)
  BY <1>7 DEF Under
<1>16. Under(sub2, x) = sub[n] /\ Under(sub2, n) = sub2[n] /\ Under(sub, n) = sub[n]
  BY <1>3, <1>7 DEF Under
<1>17. r2 \in T \cup {NULL} /\ Under(sub2, r2) = T /\ (r2 # NULL => u[r2].parent = NULL)
  <2>1. CASE n = r
    BY <1>3, <1>6, <1>10, <1>14, <1>16, <2>1 DEF r2
  <2>2. CASE n # r
    <3>1. r \in T
      BY <1>14 DEF Under
    <3>2. r # inner /\ r # x /\ r # n
      BY <1>3, <1>10, <1>14, <2>2, <3>1
    <3> QED
      BY <1>6, <1>14, <1>15, <2>2, <3>1, <3>2 DEF r2
  <2> QED
    BY <2>1, <2>2
<1>18. ASSUME NEW m \in T, m \notin {n, x}, NEW s \in Sides
       PROVE  /\ Under(sub2, u[m][s]) = Under(sub, t[m][s])
              /\ u[m][s] \in T \cup {NULL}
              /\ u[m][s] # NULL => u[u[m][s]].parent = m
  <2>1. u[m][s] = IF m = p /\ t[m][s] = n THEN x ELSE t[m][s]
    BY <1>6, <1>14, <1>18
  <2>2. CASE t[m][s] = n
    <3>1. m = p
      BY <1>12, <2>2, <1>3 DEF p
    <3> QED
      BY <1>3, <1>6, <1>16, <2>1, <2>2, <3>1
  <2>3. CASE t[m][s] # n
    <3>1. t[m][s] # x /\ (t[m][s] # NULL => t[m][s] # inner)
      BY <1>3, <1>10, <1>12, <1>18
    <3> QED
      BY <1>6, <1>12, <1>14, <1>15, <2>1, <2>3, <3>1
  <2> QED
    BY <2>2, <2>3
<1>19. \A m \in T : sub2[m] = {m} \cup Under(sub2, u[m][up]) \cup Under(sub2, u[m][down])
  <2>1. sub2[n] = {n} \cup Under(sub2, u[n][up]) \cup Under(sub2, u[n][down])
    BY <1>4, <1>6, <1>7, <1>8, <1>15
  <2>2. sub2[x] = {x} \cup Under(sub2, u[x][up]) \cup Under(sub2, u[x][down])
    BY <1>4, <1>5, <1>6, <1>7, <1>15, <1>16
  <2>3. ASSUME NEW m \in T, m \notin {n, x}
        PROVE  sub2[m] = {m} \cup Under(sub2, u[m][up]) \cup Under(sub2, u[m][down])
    <3>1. sub[m] = {m} \cup Under(sub, t[m]["left"]) \cup Under(sub, t[m]["right"])
      BY DEF SearchTree
    <3>2. sub[m] = {m} \cup Under(sub, t[m][up]) \cup Under(sub, t[m][down])
      BY <3>1 DEF Opposite, Sides
    <3> QED
      BY <1>2, <1>7, <1>18, <2>3, <3>2
  <2> QED
    BY <2>1, <2>2, <2>3
<1>20. \A m \in T :
         sub2[m] = {m} \cup Under(sub2, u[m]["left"]) \cup Under(sub2, u[m]["right"])
  BY <1>19 DEF Opposite, Sides
<1>21. \A m \in T, s \in Sides :
         u[m][s] \in T \cup {NULL} /\ (u[m][s] # NULL => u[u[m][s]].parent = m)
  <2>1. \A s \in Sides : u[n][s] \in T \cup {NULL} /\ (u[n][s] # NULL => u[u[n][s]].parent = n)
    BY <1>2, <1>3, <1>4, <1>6, <1>8, <1>10, <1>14
  <2>2. \A s \in Sides : u[x][s] \in T \cup {NULL} /\ (u[x][s] # NULL => u[u[x][s]].parent = x)
    BY <1>2, <1>3, <1>4, <1>6, <1>8, <1>10, <1>14
  <2> QED
    BY <1>18, <2>1, <2>2
<1>22. \A m \in T, s \in Sides : \A k \in Under(sub2, u[m][s]) : OnSide(sc, s, k, m)
  <2>1. ASSUME NEW m \in T, m \notin {n, x}, NEW s \in Sides, NEW k \in Under(sub2, u[m][s])
        PROVE  OnSide(sc, s, k, m)
    BY <1>9, <1>18, <2>1
  <2>2. \A k \in sub[x] : OnSide(sc, up, k, n) /\ k \in Name
    BY <1>2, <1>3, <1>4, <1>8, <1>9, <1>14 DEF x
  <2>3. \A k \in Under(sub, low) : OnSide(sc, down, k, n) /\ k \in Name
    BY <1>2, <1>4, <1>9, <1>14 DEF low
  <2>4. \A k \in Under(sub2, u[n][up]) : OnSide(sc, up, k, n)
    BY <1>4, <1>6, <1>8, <1>15, <2>2
  <2>5. \A k \in Under(sub2, u[n][down]) : OnSide(sc, down, k, n)
    BY <1>4, <1>6, <1>8, <1>15, <2>3
  <2>6. \A k \in Under(sub2, u[x][up]) : OnSide(sc, up, k, x)
    BY <1>2, <1>3, <1>4, <1>6, <1>9, <1>15 DEF high
  <2>7. \A k \in Under(sub, inner) : OnSide(sc, down, k, x)
    BY <1>2, <1>3, <1>9 DEF inner
  <2>8. OnSide(sc, down, n, x)
    <3>1. OnSide(sc, up, x, n)
      BY <1>5, <2>2
    <3> QED
      BY <1>2, <3>1 DEF OnSide, Opposite, Sides
  <2>9. \A k \in Under(sub, low) : OnSide(sc, down, k, x)
    BY <1>2, <1>3, <2>3, <2>8, LessOrder DEF OnSide
  <2>10. \A k \in Under(sub2, u[x][down]) : OnSide(sc, down, k, x)
    BY <1>6, <1>7, <1>16, <2>7, <2>8, <2>9
  <2> QED
    BY <1>2, <2>1, <2>4, <2>5, <2>6, <2>10
<1>23. ASSUME NEW m \in T \ {r2}
       PROVE  u[m].parent \in T /\ \E s \in Sides : u[u[m].parent][s] = m
  <2>1. CASE m = n
    BY <1>2, <1>3, <1>6, <2>1
  <2>2. CASE m = x
    <3>1. n # r
      BY <1>23, <2>2 DEF r2
    <3>2. PICK s \in Sides : t[p][s] = n
      BY <1>13, <3>1 DEF p
    <3>3. u[p][s] = x
      BY <1>6, <1>10, <1>11, <1>14, <3>1, <3>2
    <3> QED
      BY <1>6, <1>10, <2>2, <3>1, <3>3
  <2>3. CASE m \notin {n, x} /\ m = inner
    BY <1>2, <1>6, <1>14, <2>3
  <2>4. CASE m \notin {n, x} /\ m # inner
    <3>1. m # r
      BY <1>10, <1>23, <2>4, <1>3 DEF r2
    <3>2. PICK s \in Sides : t[t[m].parent][s] = m
      BY <1>13, <3>1
    <3> DEFINE q == t[m].parent
    <3>3. q \in T /\ t[q][s] = m /\ u[m].parent = q
      BY <1>6, <1>13, <1>14, <2>4, <3>1, <3>2
    <3> HIDE DEF q
    <3>4. CASE q = n
      BY <1>2, <1>6, <2>4, <3>3, <3>4 DEF x, low
    <3>5. CASE q = x
      BY <1>2, <1>6, <2>4, <3>3, <3>5 DEF inner, high
    <3>6. CASE q \notin {n, x}
      BY <1>6, <1>14, <2>4, <3>3, <3>6
    <3> QED
      BY <3>3, <3>4, <3>5, <3>6
  <2> QED
    BY <2>1, <2>2, <2>3, <2>4
<1> QED
  BY <1>7, <1>17, <1>20, <1>21, <1>22, <1>23 DEF SearchTree, sub2, r2, x

\* The facts about a search tree that most proofs need.
LEMMA TreeFacts ==
  ASSUME NEW t, NEW sc \in [Name -> Int], NEW T \in SUBSET Name, NEW r, NEW sub,
         SearchTree(t, sc, T, r, sub)
  PROVE  /\ sub \in [T -> SUBSET T] /\ NULL \notin T
         /\ Nodal(t, T, sub) /\ Nested(t, T, sub) /\ Familial(t, T, r, sub)
<1>1. Nodal(t, T, sub) /\ Nested(t, T, sub) /\ Familial(t, T, r, sub)
  BY TreeIsNodal, TreeIsNested, TreeIsFamilial
<1>2. sub \in [T -> SUBSET T]
  BY DEF SearchTree
<1> QED
  BY <1>1, <1>2, ZSetAssumption

Size(sub, n) == Cardinality(Under(sub, n))

\* A subtree has one node more than those under it.
LEMMA SubtreeSize ==
  ASSUME NEW t, NEW sc \in [Name -> Int], NEW T \in SUBSET Name, NEW r, NEW sub,
         SearchTree(t, sc, T, r, sub), NEW n \in T
  PROVE  /\ Size(sub, t[n].left) \in Nat /\ Size(sub, t[n].right) \in Nat
         /\ Cardinality(sub[n]) = 1 + Size(sub, t[n].left) + Size(sub, t[n].right)
<1> DEFINE L == Under(sub, t[n]["left"])
           R == Under(sub, t[n]["right"])
<1>1. sub[n] = {n} \cup L \cup R /\ n \notin L /\ n \notin R /\ L \cap R = {} /\ sub[n] \subseteq T
  <2>1. Nodal(t, T, sub)
    BY TreeIsNodal
  <2>2. sub[n] = {n} \cup L \cup R
    BY DEF SearchTree
  <2> QED
    BY <2>1, <2>2 DEF Nodal, Sides
<1> HIDE DEF L, R
<1>2. IsFiniteSet(T)
  BY ZSetAssumption, FS_Subset
<1>3. IsFiniteSet(L) /\ IsFiniteSet(R)
  BY <1>1, <1>2, FS_Subset
<1>4. Cardinality(L) \in Nat /\ Cardinality(R) \in Nat
  BY <1>3, FS_CardinalityType
<1>5. IsFiniteSet(L \cup R) /\ Cardinality(L \cup R) = Cardinality(L) + Cardinality(R)
  <2>1. IsFiniteSet(L \cup R) /\ Cardinality(L \cup R) = Cardinality(L) + Cardinality(R) - Cardinality(L \cap R)
    BY <1>3, FS_Union
  <2>2. Cardinality(L \cap R) = 0
    BY <1>1, FS_EmptySet
  <2> QED
    BY <1>4, <2>1, <2>2
<1>6. Cardinality((L \cup R) \cup {n}) = Cardinality(L) + Cardinality(R) + 1
  BY <1>1, <1>5, FS_AddElement
<1>7. sub[n] = (L \cup R) \cup {n}
  BY <1>1
<1> QED
  BY <1>4, <1>6, <1>7 DEF Size, L, R

\* No subtree has more nodes than there are.
LEMMA SubtreeBound ==
  ASSUME NEW T \in SUBSET Name, NEW sub \in [T -> SUBSET T], NEW n \in T
  PROVE  /\ IsFiniteSet(sub[n]) /\ Cardinality(sub[n]) \in Nat
         /\ Cardinality(sub[n]) <= Cardinality(Name)
  BY ZSetAssumption, FS_Subset, FS_CardinalityType
-----------------------------------------------------------------------------
(***************************************************************************)
(* An iteration of avl_fix.                                                *)
(***************************************************************************)
\* The depth and the count of n follow from its children's.
Settled(t, n) ==
  LET l == avl_depth(t, t[n].left)
      r == avl_depth(t, t[n].right)
  IN /\ t[n].depth = 1 + Larger(l, r) /\ Near(l, r)
     /\ t[n].cnt = 1 + avl_cnt(t, t[n].left) + avl_cnt(t, t[n].right)

\* In u, the nodes W around c have changed places below those above c, and
\* x is in the place of c.
Reshaped(t, u, T, sub, sub2, c, x, W) ==
  /\ W \subseteq sub[c] /\ c \in W /\ x \in W
  /\ \A m \in W \ {c} : t[m].parent \in W
  /\ sub2[x] = sub[c] /\ \A m \in T \ W : sub2[m] = sub[m]
  /\ u[x].parent = t[c].parent
  /\ \A m \in T \ W :
       /\ u[m].depth = t[m].depth /\ u[m].cnt = t[m].cnt
       /\ \A s \in Sides : u[m][s] = IF t[m][s] = c THEN x ELSE t[m][s]
  /\ \A m \in W : Settled(u, m)

\* The nodes that changed places are counted.
LEMMA ReshapedCounts ==
  ASSUME NEW t, NEW u \in Heap, NEW sc \in [Name -> Int], NEW T \in SUBSET Name,
         NEW r, NEW r2, NEW sub, NEW sub2,
         SearchTree(t, sc, T, r, sub), SearchTree(u, sc, T, r2, sub2),
         NEW c \in T, NEW x, NEW W, Reshaped(t, u, T, sub, sub2, c, x, W),
         NEW e, NEW d, BalancedBut(t, T, c), CountedBut(t, T, sub, c, d)
  PROVE  \A m \in W : /\ u[m].cnt = Cardinality(sub2[m])
                      /\ 1 <= u[m].depth /\ u[m].depth <= u[m].cnt
<1> DEFINE Good(m) == /\ u[m].cnt = Cardinality(sub2[m])
                      /\ 1 <= u[m].depth /\ u[m].depth <= u[m].cnt
           B == {m \in W : ~ Good(m)}
<1>1. /\ sub2 \in [T -> SUBSET T] /\ Nodal(u, T, sub2) /\ Nested(u, T, sub2)
      /\ sub \in [T -> SUBSET T] /\ Nodal(t, T, sub) /\ Familial(t, T, r, sub)
  BY TreeIsNodal, TreeIsNested, TreeIsFamilial DEF SearchTree
<1>2. W \subseteq T /\ x \in T /\ sub2[x] = sub[c] /\ c \in W /\ W \subseteq sub[c]
  BY <1>1 DEF Reshaped, Nodal
<1>3. ASSUME B # {} PROVE FALSE
  <2>1. B \in SUBSET T
    BY <1>2
  <2>2. PICK a \in B : \A b \in B : sub2[b] \subseteq sub2[a] => sub2[b] = sub2[a]
    <3> HIDE DEF B
    <3> QED
      <4>1. T \in SUBSET Name /\ sub2 \in [T -> SUBSET T]
        BY <1>1
      <4> QED
        BY ONLY <1>3, <2>1, <4>1, LeastSubtree
  <2>3. a \in W /\ a \in T /\ ~ Good(a) /\ sub2[a] \subseteq sub[c]
    BY <1>1, <1>2 DEF Nested
  <2>4. ASSUME NEW s \in Sides, u[a][s] # NULL
        PROVE  Good(u[a][s]) /\ u[a][s] \in Name
    <3> DEFINE b == u[a][s]
    <3>1. b \in T /\ sub2[b] \subseteq sub2[a] /\ a \in sub2[a] /\ a \notin sub2[b] /\ b \in sub2[b]
      BY <1>1, <2>3, <2>4 DEF Nodal
    <3> HIDE DEF b
    <3>2. CASE b \in W
      BY <2>2, <3>1, <3>2 DEF b
    <3>3. CASE b \notin W
      <4>1. b \in sub[c] /\ b # c
        BY <1>2, <2>3, <3>1, <3>3
      <4>2. c \notin sub[b]
        BY <1>1, <3>1, <4>1 DEF Familial
      <4>3. t[b].cnt = Cardinality(sub[b]) + 0
        BY <3>1, <4>1, <4>2 DEF CountedBut
      <4>4. 1 <= t[b].depth /\ t[b].depth <= t[b].cnt
        BY <3>1, <4>1 DEF BalancedBut
      <4>5. Cardinality(sub[b]) \in Nat
        BY <1>1, <3>1, SubtreeBound
      <4>6. u[b].depth = t[b].depth /\ u[b].cnt = t[b].cnt /\ sub2[b] = sub[b]
        BY <3>1, <3>3 DEF Reshaped
      <4> QED
        BY <3>1, <4>3, <4>4, <4>5, <4>6 DEF b
    <3> QED
      BY <3>2, <3>3
  <2> DEFINE l == u[a].left
             h == u[a].right
  <2>5. /\ l # NULL => Good(l) /\ l \in Name /\ Size(sub2, l) = Cardinality(sub2[l])
        /\ h # NULL => Good(h) /\ h \in Name /\ Size(sub2, h) = Cardinality(sub2[h])
        /\ l = NULL => Size(sub2, l) = 0
        /\ h = NULL => Size(sub2, h) = 0
    BY <2>4, FS_EmptySet DEF Sides, Size, Under
  <2>6. Settled(u, a)
    BY <2>3 DEF Reshaped
  <2>7. /\ Size(sub2, l) \in Nat /\ Size(sub2, h) \in Nat
        /\ Cardinality(sub2[a]) = 1 + Size(sub2, l) + Size(sub2, h)
    BY <2>3, SubtreeSize
  <2>8. \A m \in Name : u[m].depth \in Nat /\ u[m].cnt \in Nat
    BY DEF Heap
  <2>9. /\ avl_cnt(u, l) = Size(sub2, l) /\ avl_cnt(u, h) = Size(sub2, h)
        /\ avl_depth(u, l) <= Size(sub2, l) /\ avl_depth(u, h) <= Size(sub2, h)
        /\ avl_depth(u, l) \in Nat /\ avl_depth(u, h) \in Nat
    BY <2>5, <2>7, <2>8 DEF avl_cnt, avl_depth
  <2>10. u[a].cnt = 1 + avl_cnt(u, l) + avl_cnt(u, h)
         /\ u[a].depth = 1 + Larger(avl_depth(u, l), avl_depth(u, h))
    BY <2>6 DEF Settled
  <2> HIDE DEF l, h
  <2>11. Good(a)
    BY <2>7, <2>9, <2>10 DEF Larger
  <2> QED
    BY <2>3, <2>11
<1> QED
  BY <1>3

\* What is left to do is above c.
LEMMA ReshapedFixed ==
  ASSUME NEW t \in Heap, NEW u \in Heap, NEW sc \in [Name -> Int], NEW T \in SUBSET Name,
         NEW r, NEW r2, NEW sub, NEW sub2,
         SearchTree(t, sc, T, r, sub), SearchTree(u, sc, T, r2, sub2),
         NEW c \in T, NEW x, NEW W, Reshaped(t, u, T, sub, sub2, c, x, W),
         NEW e \in Nat, NEW d, BalancedBut(t, T, c), CountedBut(t, T, sub, c, d),
         \A n \in T \ {c} : Poised(t, c, e, n), Near(u[x].depth, e)
  PROVE  BalancedBut(u, T, t[c].parent) /\ CountedBut(u, T, sub2, t[c].parent, d)
<1> DEFINE p == t[c].parent
           e2 == IF p = NULL THEN 0 ELSE u[p].depth
<1>1. /\ sub2 \in [T -> SUBSET T] /\ Nodal(u, T, sub2) /\ Nested(u, T, sub2)
      /\ sub \in [T -> SUBSET T] /\ Nodal(t, T, sub) /\ Familial(t, T, r, sub)
  BY TreeIsNodal, TreeIsNested, TreeIsFamilial DEF SearchTree
<1>2. W \subseteq T /\ x \in T /\ sub2[x] = sub[c] /\ c \in W /\ W \subseteq sub[c] /\ x \in W
  BY <1>1 DEF Reshaped, Nodal
<1>3. \A m \in W : /\ u[m].cnt = Cardinality(sub2[m])
                   /\ 1 <= u[m].depth /\ u[m].depth <= u[m].cnt
  BY ReshapedCounts
<1>4. /\ p = NULL <=> c = r
      /\ p # NULL => p \in T /\ p \notin sub[c] /\ \E s \in Sides : t[p][s] = c
      /\ NULL \notin T /\ p \notin W
  <2>1. (p = NULL <=> c = r) /\ NULL \notin T
    BY <1>1 DEF Familial, Nodal
  <2>2. p # NULL => p \in T /\ p \notin sub[c] /\ \E s \in Sides : t[p][s] = c
    BY <1>1, <2>1 DEF Familial
  <2> QED
    BY <1>2, <2>1, <2>2
<1> HIDE DEF p
<1>5. \A m \in T \ W, s \in Sides :
        /\ t[m][s] # c => u[m][s] = t[m][s] /\ t[m][s] \notin W /\ t[m][s] \in T \cup {NULL}
        /\ t[m][s] = c => u[m][s] = x /\ m = p
  <2> SUFFICES ASSUME NEW m \in T \ W, NEW s \in Sides
               PROVE  /\ t[m][s] # c => u[m][s] = t[m][s] /\ t[m][s] \notin W /\ t[m][s] \in T \cup {NULL}
                      /\ t[m][s] = c => u[m][s] = x /\ m = p
    OBVIOUS
  <2>1. /\ t[m][s] \in T \cup {NULL} /\ (t[m][s] # NULL => t[t[m][s]].parent = m)
        /\ u[m][s] = IF t[m][s] = c THEN x ELSE t[m][s]
        /\ \A k \in W \ {c} : t[k].parent \in W
    BY <1>1 DEF Nodal, Reshaped
  <2> QED
    BY <1>2, <1>4, <2>1 DEF p
<1>6. \A m \in T \ W : u[m].depth = t[m].depth /\ u[m].cnt = t[m].cnt
  BY DEF Reshaped
<1>7. \A k : Depth(u, p, e2, k) = avl_depth(u, k)
  BY <1>4 DEF Depth, avl_depth
<1>8. \A k \in (T \ W) \cup {NULL} : Depth(t, c, e, k) = avl_depth(u, k)
  BY <1>2, <1>4, <1>6 DEF Depth, avl_depth
<1>9. \A m \in T \ {p} : 1 <= u[m].depth /\ u[m].depth <= u[m].cnt
  <2>1. \A m \in T \ {c} : 1 <= t[m].depth /\ t[m].depth <= t[m].cnt
    BY DEF BalancedBut
  <2> QED
    BY <1>2, <1>3, <1>6, <2>1
<1>10. \A m \in T \ {p} : Poised(u, p, e2, m)
  <2>1. ASSUME NEW m \in T \ {p}, m \in W PROVE Poised(u, p, e2, m)
    <3>1. Settled(u, m)
      BY <2>1 DEF Reshaped
    <3> HIDE DEF e2
    <3> QED
      BY <1>7, <3>1 DEF Poised, Settled
  <2>2. ASSUME NEW m \in T \ {p}, m \notin W PROVE Poised(u, p, e2, m)
    <3>1. m \in T \ {c} /\ Poised(t, c, e, m)
      BY <1>2, <2>2
    <3>2. \A s \in Sides : u[m][s] = t[m][s] /\ t[m][s] \in (T \ W) \cup {NULL}
      BY <1>5, <2>2
    <3>3. /\ Depth(t, c, e, t[m]["left"]) = avl_depth(u, u[m]["left"])
          /\ Depth(t, c, e, t[m]["right"]) = avl_depth(u, u[m]["right"])
          /\ t[m].depth = u[m].depth
      BY <1>6, <1>8, <2>2, <3>2 DEF Sides
    <3> HIDE DEF e2
    <3> QED
      BY <1>7, <3>1, <3>3 DEF Poised
  <2> QED
    BY <2>1, <2>2
<1>11. p # NULL => Stale(u, p)
  <2> SUFFICES ASSUME p # NULL PROVE Stale(u, p)
    OBVIOUS
  <2>1. p \in T \ W /\ p # c /\ Poised(t, c, e, p) /\ u[p].depth = t[p].depth
    BY <1>2, <1>4, <1>6
  <2>2. \A m \in Name : t[m].depth \in Nat /\ u[m].depth \in Nat
    BY DEF Heap
  <2>3. \A k \in T \cup {NULL} : Depth(t, c, e, k) \in Nat
    BY <2>2 DEF Depth, avl_depth
  <2>4. avl_depth(u, x) = u[x].depth /\ Depth(t, c, e, c) = e
    BY <1>2, <1>4 DEF avl_depth, Depth
  <2>5. /\ t[p].left \in T \cup {NULL} /\ t[p].right \in T \cup {NULL}
        /\ t[p].left = t[p].right => t[p].left = NULL
    <3>1. \A s \in Sides : t[p][s] \in T \cup {NULL}
      BY <1>1, <1>4 DEF Nodal
    <3>2. Under(sub, t[p]["left"]) \cap Under(sub, t[p]["right"]) = {}
      BY <1>1, <1>4 DEF Nodal
    <3>3. \A k \in T : k \in Under(sub, k)
      BY <1>1 DEF Nodal, Under
    <3> QED
      BY <3>1, <3>2, <3>3 DEF Sides
  <2> DEFINE l == Depth(t, c, e, t[p].left)
             h == Depth(t, c, e, t[p].right)
  <2>6. l \in Nat /\ h \in Nat /\ u[p].depth = 1 + Larger(l, h) /\ Near(l, h)
    BY <2>1, <2>3, <2>5 DEF Poised
  <2>7. PICK s \in Sides : t[p][s] = c
    BY <1>4
  <2>8. CASE t[p].left = c
    <3>1. u[p].left = x /\ t[p].right # c
      BY <1>2, <1>4, <1>5, <2>1, <2>5, <2>8 DEF Sides
    <3>2. u[p].right = t[p].right /\ h = avl_depth(u, u[p].right)
      BY <1>5, <1>8, <2>1, <3>1 DEF Sides
    <3>3. l = e /\ Near(avl_depth(u, u[p].left), l)
      BY <2>4, <2>8, <3>1
    <3> HIDE DEF l, h
    <3> QED
      BY <2>6, <3>2, <3>3 DEF Stale
  <2>9. CASE t[p].right = c
    <3>1. u[p].right = x /\ t[p].left # c
      BY <1>2, <1>4, <1>5, <2>1, <2>5, <2>9 DEF Sides
    <3>2. u[p].left = t[p].left /\ l = avl_depth(u, u[p].left)
      BY <1>5, <1>8, <2>1, <3>1 DEF Sides
    <3>3. h = e /\ Near(avl_depth(u, u[p].right), h)
      BY <2>4, <2>9, <3>1
    <3> HIDE DEF l, h
    <3> QED
      BY <2>6, <3>2, <3>3 DEF Stale
  <2> QED
    BY <2>7, <2>8, <2>9 DEF Sides
<1>12. e2 \in Nat /\ Fixable(u, p, e2)
  BY <1>4, <1>11 DEF Heap, Fixable
<1>13. ASSUME NEW m \in T \ {p}
       PROVE  u[m].cnt = Cardinality(sub2[m]) + (IF p \in sub2[m] THEN d ELSE 0)
  <2>1. CASE m \in W
    <3>1. p \notin sub2[m]
      <4>1. sub2[m] \subseteq sub[c] /\ NULL \notin sub[c]
        BY <1>1, <1>2, <2>1 DEF Nested, Nodal
      <4> QED
        BY <1>4, <4>1
    <3>2. Cardinality(sub2[m]) \in Nat
      BY <1>1, SubtreeBound
    <3> QED
      BY <1>3, <2>1, <3>1, <3>2
  <2>2. CASE m \notin W
    <3>1. t[m].cnt = Cardinality(sub[m]) + (IF c \in sub[m] THEN d ELSE 0) /\ m # c
      BY <1>2, <2>2 DEF CountedBut
    <3>2. sub2[m] = sub[m] /\ u[m].cnt = t[m].cnt
      BY <1>6, <2>2 DEF Reshaped
    <3>3. c \in sub[m] <=> c # r /\ p \in sub[m]
      BY <1>1, <3>1 DEF Familial, p
    <3>4. p \in sub[m] => p # NULL
      BY <1>1 DEF Nodal
    <3> QED
      BY <1>4, <3>1, <3>2, <3>3, <3>4
  <2> QED
    BY <2>1, <2>2
<1> HIDE DEF e2
<1>14. BalancedBut(u, T, p) /\ CountedBut(u, T, sub2, p, d)
  BY <1>9, <1>10, <1>12, <1>13 DEF BalancedBut, CountedBut
<1> QED
  BY <1>14 DEF p

\* The depth and the count of n have been updated.
Tallied(t, n) ==
  /\ t[n].depth = 1 + Larger(avl_depth(t, t[n].left), avl_depth(t, t[n].right))
  /\ t[n].cnt = 1 + avl_cnt(t, t[n].left) + avl_cnt(t, t[n].right)

\* The links of m are the same in t and u.
Alike(t, u, m) ==
  u[m].left = t[m].left /\ u[m].right = t[m].right /\ u[m].parent = t[m].parent

\* avl_update changes the depth and count of one node, and no link.
LEMMA Updated ==
  ASSUME NEW t \in Heap, NEW n \in Name, t[n].left # n, t[n].right # n
  PROVE  /\ avl_update(t, n) \in Heap
         /\ \A m \in Name : Alike(t, avl_update(t, n), m)
         /\ \A m \in Name \ {n} : avl_update(t, n)[m] = t[m]
         /\ Tallied(avl_update(t, n), n)
<1> DEFINE u == avl_update(t, n)
           D == 1 + Larger(avl_depth(t, t[n].left), avl_depth(t, t[n].right))
           C == 1 + avl_cnt(t, t[n].left) + avl_cnt(t, t[n].right)
<1>1. \A m \in Name : t[m].left \in Node /\ t[m].right \in Node /\ t[m].parent \in Node
                      /\ t[m].depth \in Nat /\ t[m].cnt \in Nat
  BY DEF Heap
<1>2. \A m \in Node : avl_depth(t, m) \in Nat /\ avl_cnt(t, m) \in Nat
  BY <1>1 DEF avl_depth, avl_cnt, Node
<1>3. D \in Nat /\ C \in Nat
  <2>1. \A a, b \in Nat : 1 + Larger(a, b) \in Nat /\ 1 + a + b \in Nat
    BY DEF Larger
  <2> QED
    BY <1>1, <1>2, <2>1
<1>4. u = [t EXCEPT ![n].depth = D, ![n].cnt = C]
  BY DEF avl_update
<1> HIDE DEF D, C, u
<1>5. /\ u \in Heap /\ u[n].depth = D /\ u[n].cnt = C
      /\ \A m \in Name : u[m].left = t[m].left /\ u[m].right = t[m].right /\ u[m].parent = t[m].parent
      /\ \A m \in Name \ {n} : u[m] = t[m]
  BY <1>3, <1>4 DEF Heap
<1>6. \A m \in Node \ {n} : avl_depth(u, m) = avl_depth(t, m) /\ avl_cnt(u, m) = avl_cnt(t, m)
  BY <1>5 DEF avl_depth, avl_cnt, Node
<1>7. Tallied(u, n)
  BY <1>1, <1>5, <1>6 DEF Tallied, D, C
<1> QED
  BY <1>5, <1>7 DEF Alike, u

\* What Rotate does to the fields: what pointed to n still does.
Rotated(t, u, n, up, down) ==
  LET x     == t[n][up]
      inner == t[x][down]
  IN /\ u[n][up] = inner /\ u[n][down] = t[n][down] /\ u[n].parent = x
     /\ u[x][up] = t[x][up] /\ u[x][down] = n /\ u[x].parent = t[n].parent
     /\ \A m \in Name \ {n, x} :
          /\ u[m].parent = IF m = inner THEN n ELSE t[m].parent
          /\ u[m].left = t[m].left /\ u[m].right = t[m].right
          /\ u[m].depth = t[m].depth /\ u[m].cnt = t[m].cnt
     /\ Tallied(u, n) /\ Tallied(u, x)

\* rot_left and rot_right, field by field.
LEMMA RotateFields ==
  ASSUME NEW t \in Heap, NEW n \in Name, NEW up, NEW down, Opposite(up, down),
         t[n][up] \in Name \ {n}, t[n][down] \notin {n, t[n][up]},
         t[t[n][up]][up] \notin {n, t[n][up]}, t[t[n][up]][down] \notin {n, t[n][up]}
  PROVE  Rotate(t, n, up, down) \in Heap /\ Rotated(t, Rotate(t, n, up, down), n, up, down)
<1> DEFINE x == t[n][up]
           inner == t[x][down]
           t1 == Adopt(t, inner, n)
           t2 == [t1 EXCEPT ![n][up] = inner, ![x][down] = n,
                            ![x].parent = t[n].parent, ![n].parent = x]
           t3 == avl_update(t2, n)
           t4 == avl_update(t3, x)
<1>1. Rotate(t, n, up, down) = t4
  BY DEF Rotate
<1>2. x \in Name /\ x # n /\ inner \in Node /\ inner # n /\ inner # x /\ t[n].parent \in Node
      /\ n \in Node /\ x \in Node /\ (inner # NULL => inner \in Name)
      /\ t[n][down] \notin {n, x} /\ t[x][up] \notin {n, x}
  BY DEF Heap, Node, Opposite, Sides
<1>3. /\ t1 \in Heap
      /\ \A m \in Name :
           /\ t1[m].left = t[m].left /\ t1[m].right = t[m].right
           /\ t1[m].depth = t[m].depth /\ t1[m].cnt = t[m].cnt
           /\ t1[m].parent = IF m = inner THEN n ELSE t[m].parent
  <2> HIDE DEF x, inner
  <2>1. CASE inner = NULL
    BY <1>2, <2>1, ZSetAssumption DEF Adopt
  <2>2. CASE inner # NULL
    <3>1. t1 = [t EXCEPT ![inner].parent = n]
      BY <2>2 DEF Adopt
    <3> HIDE DEF t1
    <3> QED
      BY <1>2, <2>2, <3>1 DEF Heap
  <2> QED
    BY <2>1, <2>2
<1> DEFINE Linked2(u) ==
      /\ u[n][up] = inner /\ u[n][down] = t[n][down] /\ u[n].parent = x
      /\ u[x][up] = t[x][up] /\ u[x][down] = n /\ u[x].parent = t[n].parent
      /\ \A m \in Name \ {n, x} :
           /\ u[m].left = t[m].left /\ u[m].right = t[m].right
           /\ u[m].parent = IF m = inner THEN n ELSE t[m].parent
<1>4. t2 \in Heap /\ Linked2(t2)
      /\ \A m \in Name : t2[m].depth = t[m].depth /\ t2[m].cnt = t[m].cnt
  <2>1. CASE up = "left" /\ down = "right"
    <3> HIDE DEF t1, x, inner
    <3>1. t1[x].right = inner /\ t1[x].left = t[x].left /\ t1[n].right = t[n].right
      BY <1>2, <1>3, <2>1 DEF inner
    <3>2. t2 = [t1 EXCEPT ![n].left = inner, ![x].right = n,
                          ![x].parent = t[n].parent, ![n].parent = x]
      BY <2>1
    <3> HIDE DEF t2
    <3>3. t2 \in Heap
      <4> DEFINE a == [t1 EXCEPT ![n].left = inner]
                 b == [a EXCEPT ![x].right = n]
                 c == [b EXCEPT ![x].parent = t[n].parent]
                 d == [c EXCEPT ![n].parent = x]
      <4>1. a \in Heap
        BY <1>2, <1>3 DEF Heap
      <4> HIDE DEF a
      <4>2. b \in Heap
        BY <1>2, <4>1 DEF Heap
      <4> HIDE DEF b
      <4>3. c \in Heap
        BY <1>2, <4>2 DEF Heap
      <4> HIDE DEF c
      <4>4. d \in Heap
        BY <1>2, <4>3 DEF Heap
      <4>5. t2 = d
        BY <1>2, <1>3, <3>2 DEF a, b, c, Heap
      <4> QED
        BY <4>4, <4>5
    <3>4. Linked2(t2)
      BY <1>2, <1>3, <2>1, <3>1, <3>2 DEF Heap
    <3>5. \A m \in Name : t2[m].depth = t[m].depth /\ t2[m].cnt = t[m].cnt
      BY <1>2, <1>3, <3>2 DEF Heap
    <3> QED
      BY <3>3, <3>4, <3>5
  <2>2. CASE up = "right" /\ down = "left"
    <3> HIDE DEF t1, x, inner
    <3>1. t1[x].left = inner /\ t1[x].right = t[x].right /\ t1[n].left = t[n].left
      BY <1>2, <1>3, <2>2 DEF inner
    <3>2. t2 = [t1 EXCEPT ![n].right = inner, ![x].left = n,
                          ![x].parent = t[n].parent, ![n].parent = x]
      BY <2>2
    <3> HIDE DEF t2
    <3>3. t2 \in Heap
      <4> DEFINE a == [t1 EXCEPT ![n].right = inner]
                 b == [a EXCEPT ![x].left = n]
                 c == [b EXCEPT ![x].parent = t[n].parent]
                 d == [c EXCEPT ![n].parent = x]
      <4>1. a \in Heap
        BY <1>2, <1>3 DEF Heap
      <4> HIDE DEF a
      <4>2. b \in Heap
        BY <1>2, <4>1 DEF Heap
      <4> HIDE DEF b
      <4>3. c \in Heap
        BY <1>2, <4>2 DEF Heap
      <4> HIDE DEF c
      <4>4. d \in Heap
        BY <1>2, <4>3 DEF Heap
      <4>5. t2 = d
        BY <1>2, <1>3, <3>2 DEF a, b, c, Heap
      <4> QED
        BY <4>4, <4>5
    <3>4. Linked2(t2)
      BY <1>2, <1>3, <2>2, <3>1, <3>2 DEF Heap
    <3>5. \A m \in Name : t2[m].depth = t[m].depth /\ t2[m].cnt = t[m].cnt
      BY <1>2, <1>3, <3>2 DEF Heap
    <3> QED
      BY <3>3, <3>4, <3>5
  <2> QED
    BY <2>1, <2>2 DEF Opposite, Sides
<1>5. /\ t2[n].left # n /\ t2[n].right # n /\ t2[x].left # x /\ t2[x].right # x
      /\ t2[n].left # x /\ t2[n].right # x
  <2> HIDE DEF x, inner, t2
  <2>1. \A s \in Sides : t2[n][s] \notin {n, x} /\ t2[x][s] # x
    BY <1>2, <1>4 DEF Opposite
  <2> QED
    BY <2>1 DEF Sides
<1> HIDE DEF t1, t2
<1>6. /\ t3 \in Heap /\ Tallied(t3, n)
      /\ \A m \in Name : Alike(t2, t3, m)
      /\ \A m \in Name \ {n} : t3[m] = t2[m]
  BY <1>4, <1>5, Updated
<1> HIDE DEF t3
<1>7. t3[x].left # x /\ t3[x].right # x
  BY <1>2, <1>5, <1>6 DEF Alike
<1>8. /\ t4 \in Heap /\ Tallied(t4, x)
      /\ \A m \in Name : Alike(t3, t4, m)
      /\ \A m \in Name \ {x} : t4[m] = t3[m]
  BY <1>2, <1>6, <1>7, Updated
<1> HIDE DEF t4
<1>9. Tallied(t4, n)
  <2>1. t4[n] = t3[n] /\ t3[n].left # x /\ t3[n].right # x
        /\ t3[n].left \in Node /\ t3[n].right \in Node
    BY <1>2, <1>5, <1>6, <1>8 DEF Alike, Heap
  <2>2. \A m \in Node \ {x} : avl_depth(t4, m) = avl_depth(t3, m) /\ avl_cnt(t4, m) = avl_cnt(t3, m)
    BY <1>8 DEF avl_depth, avl_cnt, Node
  <2> QED
    BY <1>6, <2>1, <2>2 DEF Tallied
<1>10. Linked2(t4)
  <2>1. \A m \in Name : Alike(t2, t4, m)
    BY <1>6, <1>8 DEF Alike
  <2> HIDE DEF x, inner
  <2>2. t4[n][up] = t2[n][up] /\ t4[n][down] = t2[n][down]
        /\ t4[x][up] = t2[x][up] /\ t4[x][down] = t2[x][down]
    BY <1>2, <2>1 DEF Alike, Opposite, Sides
  <2> QED
    BY <1>2, <1>4, <2>1, <2>2 DEF Alike
<1>11. \A m \in Name \ {n, x} : t4[m].depth = t[m].depth /\ t4[m].cnt = t[m].cnt
  BY <1>4, <1>6, <1>8
<1> QED
  BY <1>1, <1>8, <1>9, <1>10, <1>11 DEF Rotated

\* Rotate, and what pointed to n points to the child that took its place.
Replaced(t, u, n, x) ==
  LET p == t[n].parent
  IN IF p = NULL THEN u ELSE [u EXCEPT ![p][SideOf(t, p, n)] = x]

\* The child that a node is, on which side.
LEMMA OneSide ==
  ASSUME NEW t, NEW T, NEW sub, Nodal(t, T, sub), NEW p \in T, NEW s \in Sides, t[p][s] \in T
  PROVE  SideOf(t, p, t[p][s]) = s /\ \A s2 \in Sides : t[p][s2] = t[p][s] => s2 = s
<1>1. Under(sub, t[p]["left"]) \cap Under(sub, t[p]["right"]) = {}
  BY DEF Nodal
<1>2. t[p][s] \in Under(sub, t[p][s])
  BY DEF Nodal, Under
<1> QED
  BY <1>1, <1>2 DEF SideOf, Sides

\* A rotation, with the link from above, makes a search tree again.
LEMMA RotatedTree ==
  ASSUME NEW t \in Heap, NEW sc \in [Name -> Int], NEW T \in SUBSET Name, NEW r, NEW sub,
         SearchTree(t, sc, T, r, sub),
         NEW n \in T, NEW up, NEW down, Opposite(up, down), t[n][up] # NULL,
         NEW u, u = Replaced(t, Rotate(t, n, up, down), n, t[n][up])
  PROVE  /\ u \in Heap /\ Turned(t, u, n, up, down)
         /\ SearchTree(u, sc, T, IF n = r THEN t[n][up] ELSE r, Turn(t, sub, n, up, down))
         /\ Tallied(u, n) /\ Tallied(u, t[n][up])
<1> DEFINE x == t[n][up]
           inner == t[x][down]
           p == t[n].parent
           v == Rotate(t, n, up, down)
<1>1. Nodal(t, T, sub) /\ Familial(t, T, r, sub) /\ sub \in [T -> SUBSET T]
  BY TreeIsNodal, TreeIsFamilial DEF SearchTree
<1>2. up \in Sides /\ down \in Sides /\ up # down /\ \A s \in Sides : s = up \/ s = down
  BY DEF Opposite
<1>3. x \in T /\ x # n /\ t[x].parent = n /\ x \in Name /\ n \in Name /\ n # NULL /\ x # NULL
      /\ n \notin sub[x] /\ x \in sub[x]
  BY <1>1, <1>2 DEF Nodal, Under
<1>4. t[n][down] \notin {n, x}
  <2>1. Under(sub, t[n]["left"]) \cap Under(sub, t[n]["right"]) = {}
    BY <1>1 DEF Nodal
  <2>2. Under(sub, x) \cap Under(sub, t[n][down]) = {} /\ x \in Under(sub, x)
    BY <1>1, <1>2, <1>3, <2>1 DEF Opposite, Sides, Nodal, Under
  <2> QED
    BY <1>1, <1>2, <2>2 DEF Nodal
<1>5. \A s \in Sides : t[x][s] \notin {n, x}
  <2> SUFFICES ASSUME NEW s \in Sides PROVE t[x][s] \notin {n, x}
    OBVIOUS
  <2>1. t[x][s] # x /\ Under(sub, t[x][s]) \subseteq sub[x]
    BY <1>1, <1>3 DEF Nodal
  <2>2. n \in Under(sub, n)
    BY <1>1, <1>3 DEF Nodal, Under
  <2> QED
    BY <1>3, <2>1, <2>2
<1>6. v \in Heap /\ Rotated(t, v, n, up, down)
  BY <1>2, <1>3, <1>4, <1>5, RotateFields
<1>7. /\ v[n][up] = inner /\ v[n][down] = t[n][down] /\ v[n].parent = x
      /\ v[x][up] = t[x][up] /\ v[x][down] = n /\ v[x].parent = t[n].parent
      /\ \A m \in Name \ {n, x} :
          /\ v[m].parent = IF m = inner THEN n ELSE t[m].parent
          /\ v[m].left = t[m].left /\ v[m].right = t[m].right
          /\ v[m].depth = t[m].depth /\ v[m].cnt = t[m].cnt
      /\ Tallied(v, n) /\ Tallied(v, x)
  BY <1>6 DEF Rotated
<1>8. \A m \in Name \ {n, x}, s \in Sides : v[m][s] = t[m][s]
  BY <1>7 DEF Sides
<1>9. p = NULL <=> n = r
  BY <1>1 DEF Familial
<1>10. /\ u \in Heap
       /\ \A m \in Name : u[m].depth = v[m].depth /\ u[m].cnt = v[m].cnt /\ u[m].parent = v[m].parent
       /\ \A m \in {n, x} : u[m] = v[m]
       /\ \A m \in Name \ {n, x}, s \in Sides :
            u[m][s] = IF m = p /\ t[m][s] = n THEN x ELSE t[m][s]
  <2>1. CASE p = NULL
    <3>1. u = v
      BY <2>1 DEF Replaced
    <3>2. \A m \in Name : m # p
      BY <2>1, ZSetAssumption
    <3> QED
      BY <1>6, <1>8, <3>1, <3>2
  <2>2. CASE p # NULL
    <3>1. p \in T /\ p # n /\ p \notin sub[n] /\ p \in Name
      BY <1>1, <1>9, <2>2 DEF Familial
    <3>2. p # x
      <4>1. x \in sub[n]
        BY <1>1, <1>2, <1>3 DEF Nodal
      <4> QED
        BY <3>1, <4>1
    <3>3. PICK s \in Sides : t[p][s] = n
      BY <1>1, <1>9, <2>2 DEF Familial
    <3>4. SideOf(t, p, n) = s /\ \A s2 \in Sides : t[p][s2] = n => s2 = s
      BY <1>1, <3>1, <3>3, OneSide
    <3>5. u = [v EXCEPT ![p][s] = x]
      BY <2>2, <3>4 DEF Replaced
    <3> HIDE DEF p, x, v
    <3>6. CASE s = "left"
      <4>1. u = [v EXCEPT ![p].left = x]
        BY <3>5, <3>6
      <4>2. /\ u \in Heap
            /\ \A m \in Name : u[m].depth = v[m].depth /\ u[m].cnt = v[m].cnt /\ u[m].parent = v[m].parent
            /\ \A m \in Name \ {p} : u[m] = v[m]
            /\ u[p].left = x /\ u[p].right = v[p].right
        BY <1>3, <1>6, <3>1, <4>1 DEF Heap, Node
      <4> QED
        BY <1>3, <1>8, <3>1, <3>2, <3>3, <3>4, <3>6, <4>2 DEF Sides
    <3>7. CASE s = "right"
      <4>1. u = [v EXCEPT ![p].right = x]
        BY <3>5, <3>7
      <4>2. /\ u \in Heap
            /\ \A m \in Name : u[m].depth = v[m].depth /\ u[m].cnt = v[m].cnt /\ u[m].parent = v[m].parent
            /\ \A m \in Name \ {p} : u[m] = v[m]
            /\ u[p].right = x /\ u[p].left = v[p].left
        BY <1>3, <1>6, <3>1, <4>1 DEF Heap, Node
      <4> QED
        BY <1>3, <1>8, <3>1, <3>2, <3>3, <3>4, <3>7, <4>2 DEF Sides
    <3> QED
      BY <3>6, <3>7 DEF Sides
  <2> QED
    BY <2>1, <2>2
<1> HIDE DEF v
<1>11. Turned(t, u, n, up, down)
  <2>1. u[n] = v[n] /\ u[x] = v[x]
    BY <1>10
  <2>2. /\ u[n][up] = inner /\ u[n][down] = t[n][down] /\ u[n].parent = x
        /\ u[x][up] = t[x][up] /\ u[x][down] = n /\ u[x].parent = t[n].parent
    BY ONLY <1>7, <2>1
  <2>3. \A m \in Name \ {n, x} :
           /\ u[m].parent = IF m = inner THEN n ELSE t[m].parent
           /\ u[m].depth = t[m].depth /\ u[m].cnt = t[m].cnt
    BY ONLY <1>7, <1>10
  <2>4. \A m \in Name \ {n, x}, s \in Sides :
           u[m][s] = IF m = t[n].parent /\ t[m][s] = n THEN x ELSE t[m][s]
    BY ONLY <1>10 DEF p
  <2> QED
    BY ONLY <2>2, <2>3, <2>4 DEF Turned, x, inner
<1>12. Tallied(u, n) /\ Tallied(u, x)
  <2>1. \A m : m \in Node => avl_depth(u, m) = avl_depth(v, m) /\ avl_cnt(u, m) = avl_cnt(v, m)
    BY <1>10 DEF avl_depth, avl_cnt, Node
  <2>2. \A m \in {n, x} : v[m].left \in Node /\ v[m].right \in Node /\ u[m] = v[m]
    BY <1>3, <1>6, <1>10 DEF Heap
  <2> QED
    BY <1>7, <2>1, <2>2 DEF Tallied
<1> QED
  BY <1>10, <1>11, <1>12, TurnedTree

\* What stood at depth e, over children that were near each other, now has
\* children of depths l and r: at most one of them changed, by one.
Drifted(e, l, r) ==
  \/ e = 0 /\ l = 0 /\ r = 0
  \/ \E i, j \in Nat :
       /\ e = 1 + Larger(i, j) /\ Near(i, j)
       /\ (i = l /\ Near(r, j)) \/ (j = r /\ Near(l, i))

\* How far a node can be out of balance when one child changed by one.
LEMMA Drift ==
  ASSUME NEW e \in Nat, NEW l \in Nat, NEW r \in Nat, Drifted(e, l, r)
  PROVE  /\ Drifted(e, r, l)
         /\ Near(1 + Larger(l, r), e)
         /\ l > r + 1 => l = r + 2 /\ e \in {l, l + 1}
<1>1. CASE e = 0 /\ l = 0 /\ r = 0
  BY <1>1 DEF Drifted, Near, Larger
<1>2. ASSUME NEW i \in Nat, NEW j \in Nat, e = 1 + Larger(i, j), Near(i, j),
             (i = l /\ Near(r, j)) \/ (j = r /\ Near(l, i))
      PROVE  /\ Drifted(e, r, l)
             /\ Near(1 + Larger(l, r), e)
             /\ l > r + 1 => l = r + 2 /\ e \in {l, l + 1}
  <2>1. e = 1 + Larger(j, i) /\ Near(j, i)
    BY <1>2 DEF Near, Larger
  <2>2. Drifted(e, r, l)
    <3>1. (j = r /\ Near(l, i)) \/ (i = l /\ Near(r, j))
      BY <1>2
    <3> QED
      BY <2>1, <3>1, Zenon DEF Drifted
  <2>3. Near(1 + Larger(l, r), e) /\ (l > r + 1 => l = r + 2 /\ e \in {l, l + 1})
    BY <1>2 DEF Near, Larger
  <2> QED
    BY <2>2, <2>3
<1> QED
  BY <1>1, <1>2 DEF Drifted

\* The depths that a rotation leaves: of n, of a child x of depth l and of
\* its inner child y, when the other child of n has depth r.
LEMMA SingleDepths ==
  ASSUME NEW l \in Nat, NEW r \in Nat, NEW outer \in Nat, NEW inner \in Nat, NEW e \in Nat,
         l = r + 2, e \in {l, l + 1}, l = 1 + Larger(outer, inner), Near(outer, inner),
         ~ (outer < inner)
  PROVE  /\ Near(inner, r) /\ Near(r, inner)
         /\ Near(outer, 1 + Larger(inner, r)) /\ Near(1 + Larger(inner, r), outer)
         /\ Near(1 + Larger(outer, 1 + Larger(inner, r)), e)
  BY DEF Near, Larger

\* The larger depth and the difference do not depend on the side.
LEMMA LargerIsSymmetric ==
  \A a, b \in Int : Larger(a, b) = Larger(b, a) /\ (Near(a, b) <=> Near(b, a))
  BY DEF Larger, Near

\* The tree depends on the links only.
LEMMA AlikeTree ==
  ASSUME NEW t, NEW v, NEW sc, NEW T, NEW r, NEW sub,
         SearchTree(t, sc, T, r, sub), NULL \notin T, \A m \in T : Alike(t, v, m)
  PROVE  SearchTree(v, sc, T, r, sub)
<1>1. \A m \in T, s \in Sides : v[m][s] = t[m][s]
  BY DEF Alike, Sides
<1>2. \A m \in T : v[m].parent = t[m].parent
  BY DEF Alike
<1>3. /\ sub \in [T -> SUBSET T]
      /\ r \in T \cup {NULL} /\ Under(sub, r) = T
      /\ r # NULL => v[r].parent = NULL
  BY <1>2 DEF SearchTree
<1>4. \A n \in T :
        sub[n] = {n} \cup Under(sub, v[n]["left"]) \cup Under(sub, v[n]["right"])
  BY <1>1 DEF SearchTree, Sides
<1>5. \A n \in T, s \in Sides :
       /\ v[n][s] \in T \cup {NULL}
       /\ v[n][s] # NULL => v[v[n][s]].parent = n
       /\ \A m \in Under(sub, v[n][s]) : OnSide(sc, s, m, n)
  <2> SUFFICES ASSUME NEW n \in T, NEW s \in Sides
               PROVE  /\ t[n][s] \in T \cup {NULL}
                      /\ t[n][s] # NULL => v[t[n][s]].parent = n
                      /\ \A m \in Under(sub, t[n][s]) : OnSide(sc, s, m, n)
    BY <1>1
  <2>1. /\ t[n][s] \in T \cup {NULL}
        /\ t[n][s] # NULL => t[t[n][s]].parent = n
        /\ \A m \in Under(sub, t[n][s]) : OnSide(sc, s, m, n)
    BY DEF SearchTree
  <2> QED
    BY <1>2, <2>1
<1>6. \A n \in T \ {r} : v[n].parent \in T /\ \E s \in Sides : v[v[n].parent][s] = n
  <2> SUFFICES ASSUME NEW n \in T \ {r}
               PROVE  v[n].parent \in T /\ \E s \in Sides : v[v[n].parent][s] = n
    OBVIOUS
  <2>1. t[n].parent \in T /\ \E s \in Sides : t[t[n].parent][s] = n
    BY DEF SearchTree
  <2> QED
    BY <1>1, <1>2, <2>1
<1> QED
  BY <1>3, <1>4, <1>5, <1>6 DEF SearchTree

\* In w, made of t, x is in the place of c, and is as deep as its children
\* say: what is left to fix is above it.
FixedAs(t, w, sc, T, r, c, x, d) ==
  LET p == t[c].parent
  IN /\ w \in Heap /\ x \in T /\ w[x].parent = p
     /\ \A m \in (Name \ T) \cup ({p} \ {NULL}) : w[m].depth = t[m].depth /\ w[m].cnt = t[m].cnt
     /\ BalancedBut(w, T, p)
     /\ \E sub2 : /\ SearchTree(w, sc, T, IF c = r THEN x ELSE r, sub2)
                  /\ CountedBut(w, T, sub2, p, d)

\* How the height of c, once e, came to be wrong.
Drifting(t, T, c, e) ==
  /\ e \in Nat /\ \A n \in T \ {c} : Poised(t, c, e, n)
  /\ \A s, s2 \in Sides :
       s # s2 => Drifted(e, avl_depth(t, t[c][s]), avl_depth(t, t[c][s2]))

\* Where avl_fix may go on, the depth is as Drifting says.
LEMMA FixableDrifts ==
  ASSUME NEW t \in Heap, NEW sc \in [Name -> Int], NEW T \in SUBSET Name, NEW r, NEW sub,
         SearchTree(t, sc, T, r, sub), NEW c \in T, BalancedBut(t, T, c)
  PROVE  \E e : Drifting(t, T, c, e)
<1>1. PICK e \in Nat : Fixable(t, c, e) /\ \A n \in T \ {c} : Poised(t, c, e, n)
  BY DEF BalancedBut
<1>2. c # NULL /\ c \in Name
  BY ZSetAssumption
<1> DEFINE l == avl_depth(t, t[c].left)
           h == avl_depth(t, t[c].right)
<1>3. l \in Nat /\ h \in Nat
  BY <1>2 DEF Heap, Node, avl_depth
<1>4. Drifted(e, l, h)
  <2>1. CASE e = 0 /\ t[c].left = NULL /\ t[c].right = NULL
    BY <2>1 DEF Drifted, avl_depth
  <2>2. CASE e = t[c].depth /\ Stale(t, c)
    <3>1. PICK i, j \in Nat :
            /\ t[c].depth = 1 + Larger(i, j) /\ Near(i, j)
            /\ \/ i = l /\ Near(h, j)
               \/ j = h /\ Near(l, i)
      BY <2>2 DEF Stale
    <3> HIDE DEF l, h
    <3> QED
      BY <2>2, <3>1 DEF Drifted
  <2> QED
    BY <1>1, <1>2, <2>1, <2>2 DEF Fixable
<1>5. Drifted(e, h, l)
  BY <1>3, <1>4, Drift
<1>6. \A s, s2 \in Sides :
        s # s2 => Drifted(e, avl_depth(t, t[c][s]), avl_depth(t, t[c][s2]))
  BY <1>4, <1>5 DEF Sides
<1> QED
  BY <1>1, <1>6 DEF Drifting

\* The depths under a poised node, seen from either side.
LEMMA PoisedBothWays ==
  ASSUME NEW t \in Heap, NEW T \in SUBSET Name, NEW c, NEW e, NEW n \in Name,
         Poised(t, c, e, n), NEW s \in Sides, NEW s2 \in Sides, s # s2,
         t[n][s] # c, t[n][s2] # c
  PROVE  /\ t[n].depth = 1 + Larger(avl_depth(t, t[n][s]), avl_depth(t, t[n][s2]))
         /\ Near(avl_depth(t, t[n][s]), avl_depth(t, t[n][s2]))
         /\ avl_depth(t, t[n][s]) \in Nat /\ avl_depth(t, t[n][s2]) \in Nat
<1>1. t[n].left # c /\ t[n].right # c
  BY DEF Sides
<1>2. \A m \in Node : avl_depth(t, m) \in Nat
  BY DEF Heap, Node, avl_depth
<1>3. avl_depth(t, t[n].left) \in Nat /\ avl_depth(t, t[n].right) \in Nat
  BY <1>2 DEF Heap
<1>4. /\ t[n].depth = 1 + Larger(avl_depth(t, t[n].left), avl_depth(t, t[n].right))
      /\ Near(avl_depth(t, t[n].left), avl_depth(t, t[n].right))
  BY <1>1 DEF Poised, Depth
<1> QED
  BY <1>3, <1>4, LargerIsSymmetric DEF Sides

\* A node whose depth and count are up to date, seen from either side.
LEMMA TalliedBothWays ==
  ASSUME NEW t \in Heap, NEW n \in Name, Tallied(t, n),
         NEW s \in Sides, NEW s2 \in Sides, s # s2
  PROVE  /\ t[n].depth = 1 + Larger(avl_depth(t, t[n][s]), avl_depth(t, t[n][s2]))
         /\ Near(avl_depth(t, t[n][s]), avl_depth(t, t[n][s2])) => Settled(t, n)
<1>2. \A m \in Node : avl_depth(t, m) \in Nat
  BY DEF Heap, Node, avl_depth
<1>3. avl_depth(t, t[n].left) \in Nat /\ avl_depth(t, t[n].right) \in Nat
  BY <1>2 DEF Heap
<1> QED
  BY <1>3, LargerIsSymmetric DEF Sides, Tallied, Settled

\* Nodes that changed places as Reshaped says are fixed.
LEMMA ReshapedFixedAs ==
  ASSUME NEW t \in Heap, NEW u \in Heap, NEW sc \in [Name -> Int], NEW T \in SUBSET Name,
         NEW r, NEW sub, NEW sub2, NEW c \in T, NEW x, NEW W, NEW e, NEW d,
         SearchTree(t, sc, T, r, sub), SearchTree(u, sc, T, IF c = r THEN x ELSE r, sub2),
         Reshaped(t, u, T, sub, sub2, c, x, W),
         BalancedBut(t, T, c), CountedBut(t, T, sub, c, d),
         Drifting(t, T, c, e), Near(u[x].depth, e),
         \A m \in Name \ T : u[m].depth = t[m].depth /\ u[m].cnt = t[m].cnt
  PROVE  FixedAs(t, u, sc, T, r, c, x, d)
<1> DEFINE p == t[c].parent
<1>1. BalancedBut(u, T, p) /\ CountedBut(u, T, sub2, p, d)
  <2>1. e \in Nat /\ \A n \in T \ {c} : Poised(t, c, e, n)
    BY DEF Drifting
  <2> QED
    BY <2>1, ReshapedFixed
<1>2. x \in T /\ u[x].parent = p
  <2>1. Nodal(t, T, sub)
    BY TreeFacts
  <2> QED
    BY <2>1 DEF Reshaped, Nodal
<1>3. \A m \in {p} \ {NULL} : u[m].depth = t[m].depth /\ u[m].cnt = t[m].cnt
  <2>1. p # NULL => p \in T /\ p \notin sub[c]
    <3>1. Familial(t, T, r, sub)
      BY TreeFacts
    <3> QED
      BY <3>1 DEF Familial
  <2>2. W \subseteq sub[c] /\ \A m \in T \ W : u[m].depth = t[m].depth /\ u[m].cnt = t[m].cnt
    BY DEF Reshaped
  <2> QED
    BY <2>1, <2>2
<1> QED
  BY <1>1, <1>2, <1>3 DEF FixedAs

\* A node that needs no rotation.
LEMMA FixedInPlace ==
  ASSUME NEW t \in Heap, NEW v \in Heap, NEW sc \in [Name -> Int], NEW T \in SUBSET Name,
         NEW r, NEW sub, NEW c \in T, NEW e, NEW d,
         SearchTree(t, sc, T, r, sub),
         BalancedBut(t, T, c), CountedBut(t, T, sub, c, d), Drifting(t, T, c, e),
         \A m \in Name : Alike(t, v, m), \A m \in Name \ {c} : v[m] = t[m], Tallied(v, c),
         Near(avl_depth(t, t[c].left), avl_depth(t, t[c].right))
  PROVE  FixedAs(t, v, sc, T, r, c, c, d)
<1>1. Nodal(t, T, sub) /\ Familial(t, T, r, sub) /\ NULL \notin T
  BY TreeFacts
<1>2. SearchTree(v, sc, T, r, sub)
  BY <1>1, AlikeTree
<1> DEFINE l == t[c].left
           h == t[c].right
<1>3. l # c /\ h # c /\ l \in Node /\ h \in Node /\ v[c].left = l /\ v[c].right = h
  BY <1>1 DEF Nodal, Sides, Heap, Alike
<1>4. \A m \in Node \ {c} : avl_depth(v, m) = avl_depth(t, m) /\ avl_depth(t, m) \in Nat
  BY DEF avl_depth, Node, Heap
<1>5. Settled(v, c)
  BY <1>3, <1>4 DEF Settled, Tallied
<1>6. Near(v[c].depth, e)
  <2>1. Drifted(e, avl_depth(t, l), avl_depth(t, h)) /\ e \in Nat
    BY DEF Drifting, Sides
  <2>2. v[c].depth = 1 + Larger(avl_depth(t, l), avl_depth(t, h))
    BY <1>3, <1>4 DEF Tallied
  <2> QED
    BY <1>3, <1>4, <2>1, <2>2, Drift
<1>7. Reshaped(t, v, T, sub, sub, c, c, {c})
  <2>1. \A m \in T \ {c}, s \in Sides : v[m][s] = IF t[m][s] = c THEN c ELSE t[m][s]
    BY DEF Alike, Sides
  <2>2. c \in sub[c] /\ v[c].parent = t[c].parent
    BY <1>1 DEF Nodal, Alike
  <2> QED
    BY <1>5, <2>1, <2>2 DEF Reshaped
<1> QED
  BY <1>2, <1>6, <1>7, ReshapedFixedAs

\* A node that one rotation balances.
LEMMA FixedBySingle ==
  ASSUME NEW t \in Heap, NEW v \in Heap, NEW sc \in [Name -> Int], NEW T \in SUBSET Name,
         NEW r, NEW sub, NEW c \in T, NEW e, NEW d, NEW up, NEW down, Opposite(up, down),
         SearchTree(t, sc, T, r, sub),
         BalancedBut(t, T, c), CountedBut(t, T, sub, c, d), Drifting(t, T, c, e),
         \A m \in Name : Alike(t, v, m), \A m \in Name \ {c} : v[m] = t[m],
         avl_depth(t, t[c][up]) > avl_depth(t, t[c][down]) + 1,
         ~ (avl_depth(t, t[t[c][up]][up]) < avl_depth(t, t[t[c][up]][down])),
         NEW w, w = Replaced(v, Rotate(v, c, up, down), c, t[c][up])
  PROVE  FixedAs(t, w, sc, T, r, c, t[c][up], d)
<1> DEFINE x == t[c][up]
           W == {c, x}
           sub2 == Turn(v, sub, c, up, down)
<1>1. Nodal(t, T, sub) /\ Familial(t, T, r, sub) /\ NULL \notin T /\ sub \in [T -> SUBSET T]
  BY TreeFacts
<1>2. SearchTree(v, sc, T, r, sub)
  BY <1>1, AlikeTree
<1>3. up \in Sides /\ down \in Sides /\ up # down /\ \A s \in Sides : s = up \/ s = down
  BY DEF Opposite
<1>4. \A m \in Name, s \in Sides : v[m][s] = t[m][s]
  BY DEF Alike, Sides
<1>5. \A m \in Node : avl_depth(t, m) \in Nat
  BY DEF avl_depth, Node, Heap
<1>6. \A m \in Name, s \in Sides : t[m][s] \in Node
  BY DEF Heap, Sides
<1>7. x # NULL
  BY <1>3, <1>5, <1>6 DEF avl_depth
<1>8. x \in T /\ x # c /\ t[x].parent = c /\ x \in sub[c] /\ c \in sub[c]
      /\ x \in Name /\ c \in Name
  BY <1>1, <1>3, <1>7 DEF Nodal, Under
<1>9. v[c][up] = x /\ v[x][up] = t[x][up] /\ v[x][down] = t[x][down]
      /\ v[c][down] = t[c][down] /\ v[c].parent = t[c].parent
  BY <1>3, <1>4, <1>8 DEF Alike
<1>10. /\ w \in Heap /\ Turned(v, w, c, up, down)
       /\ SearchTree(w, sc, T, IF c = r THEN x ELSE r, sub2)
       /\ Tallied(w, c) /\ Tallied(w, x)
  <2>1. v[c][up] = x /\ v[c][up] # NULL /\ w = Replaced(v, Rotate(v, c, up, down), c, v[c][up])
    BY <1>7, <1>9
  <2> HIDE DEF x
  <2>2. /\ w \in Heap /\ Turned(v, w, c, up, down)
        /\ SearchTree(w, sc, T, IF c = r THEN v[c][up] ELSE r, sub2)
        /\ Tallied(w, c) /\ Tallied(w, v[c][up])
    BY <1>2, <2>1, RotatedTree
  <2> QED
    BY <2>1, <2>2
<1>11. /\ w[c][up] = t[x][down] /\ w[c][down] = t[c][down]
       /\ w[x][up] = t[x][up] /\ w[x][down] = c /\ w[x].parent = t[c].parent
       /\ \A m \in Name \ W :
           /\ w[m].depth = t[m].depth /\ w[m].cnt = t[m].cnt
           /\ \A s \in Sides : w[m][s] = IF m = t[c].parent /\ t[m][s] = c THEN x ELSE t[m][s]
  <2> HIDE DEF x
  <2>1. Turned(v, w, c, up, down) /\ v[c][up] = x
    BY <1>9, <1>10
  <2>2. /\ w[c][up] = v[x][down] /\ w[c][down] = v[c][down]
        /\ w[x][up] = v[x][up] /\ w[x][down] = c /\ w[x].parent = v[c].parent
    BY ONLY <2>1 DEF Turned
  <2>3. \A m \in Name \ W :
           /\ w[m].depth = v[m].depth /\ w[m].cnt = v[m].cnt
           /\ \A s \in Sides : w[m][s] = IF m = v[c].parent /\ v[m][s] = c THEN x ELSE v[m][s]
    BY ONLY <2>1 DEF Turned, W
  <2>4. \A m \in Name \ W : v[m] = t[m]
    OBVIOUS
  <2>5. v[c].parent = t[c].parent
    BY <1>9
  <2> QED
    BY ONLY <1>9, <2>2, <2>3, <2>4, <2>5
<1> HIDE DEF x, sub2
<1>12. /\ t[x][down] \notin W /\ t[c][down] \notin W /\ t[x][up] \notin W
       /\ t[x][down] \in Node /\ t[c][down] \in Node /\ t[x][up] \in Node
  <2>1. Under(sub, t[c]["left"]) \cap Under(sub, t[c]["right"]) = {}
    BY <1>1 DEF Nodal
  <2>2. Under(sub, x) \cap Under(sub, t[c][down]) = {} /\ x \in Under(sub, x)
        /\ c \in Under(sub, c) /\ Under(sub, x) = sub[x] /\ c \notin sub[x]
    BY <1>1, <1>3, <1>7, <1>8, <2>1 DEF Opposite, Sides, Nodal, Under, x
  <2>3. \A s \in Sides : t[x][s] # x /\ Under(sub, t[x][s]) \subseteq sub[x] /\ t[c][s] # c
    BY <1>1, <1>8 DEF Nodal
  <2> QED
    BY <1>3, <1>6, <1>8, <2>2, <2>3
<1> DEFINE l == avl_depth(t, x)
           h == avl_depth(t, t[c][down])
           outer == avl_depth(t, t[x][up])
           inner == avl_depth(t, t[x][down])
<1>13. /\ l = 1 + Larger(outer, inner) /\ Near(outer, inner)
       /\ outer \in Nat /\ inner \in Nat /\ h \in Nat /\ l \in Nat /\ e \in Nat
  <2>1. Poised(t, c, e, x) /\ e \in Nat
    BY <1>8 DEF Drifting
  <2>2. l = t[x].depth
    BY <1>7 DEF avl_depth
  <2>3. /\ up \in Sides /\ down \in Sides /\ up # down
        /\ t[x][up] # c /\ t[x][down] # c /\ t[c][down] \in Node
        /\ t \in Heap /\ x \in Name
    BY <1>3, <1>8, <1>12
  <2>4. t[x].depth = 1 + Larger(outer, inner) /\ Near(outer, inner) /\ outer \in Nat /\ inner \in Nat
    BY ONLY <2>1, <2>3, PoisedBothWays
  <2>5. h \in Nat /\ l \in Nat
    BY <1>5, <1>8, <2>3 DEF Node
  <2> QED
    BY ONLY <2>1, <2>2, <2>4, <2>5
<1>14. l = h + 2 /\ e \in {l, l + 1} /\ ~ (outer < inner)
  <2>1. Drifted(e, l, h)
    BY <1>3 DEF Drifting, x
  <2>2. l > h + 1 /\ ~ (outer < inner)
    BY DEF x
  <2> HIDE DEF l, h, outer, inner
  <2> QED
    BY <1>13, <2>1, <2>2, Drift
<1>15. /\ avl_depth(w, w[c][up]) = inner /\ avl_depth(w, w[c][down]) = h
       /\ avl_depth(w, w[x][up]) = outer
       /\ avl_depth(w, w[x][down]) = w[c].depth
  <2>1. \A m \in Node \ W : avl_depth(w, m) = avl_depth(t, m)
    BY <1>11 DEF avl_depth, Node
  <2>2. avl_depth(w, c) = w[c].depth
    BY <1>8, ZSetAssumption DEF avl_depth
  <2> QED
    BY ONLY <1>11, <1>12, <2>1, <2>2
<1> HIDE DEF l, h, outer, inner
<1>16. /\ Near(inner, h) /\ Near(outer, 1 + Larger(inner, h))
       /\ Near(1 + Larger(outer, 1 + Larger(inner, h)), e)
  BY <1>13, <1>14, SingleDepths
<1>17. w[c].depth = 1 + Larger(inner, h) /\ Settled(w, c)
  BY <1>3, <1>8, <1>10, <1>15, <1>16, TalliedBothWays
<1>18. w[x].depth = 1 + Larger(outer, 1 + Larger(inner, h)) /\ Settled(w, x)
  BY <1>3, <1>8, <1>10, <1>15, <1>16, <1>17, TalliedBothWays
<1>19. Reshaped(t, w, T, sub, sub2, c, x, W)
  <2>1. sub2[x] = sub[c] /\ \A m \in T \ W : sub2[m] = sub[m]
    BY <1>1, <1>8, <1>9 DEF sub2, Turn
  <2>2. \A m \in T \ W, s \in Sides : w[m][s] = IF t[m][s] = c THEN x ELSE t[m][s]
    BY <1>1, <1>8, <1>11 DEF Familial
  <2>3. \A m \in T \ W : w[m].depth = t[m].depth /\ w[m].cnt = t[m].cnt
    BY <1>11
  <2>4. /\ W \subseteq sub[c] /\ c \in W /\ x \in W
        /\ \A m \in W \ {c} : t[m].parent \in W
    BY <1>8
  <2>5. w[x].parent = t[c].parent /\ \A m \in W : Settled(w, m)
    BY <1>11, <1>17, <1>18
  <2> HIDE DEF W
  <2> QED
    BY ONLY <2>1, <2>2, <2>3, <2>4, <2>5 DEF Reshaped
<1>20. \A m \in Name \ T : w[m].depth = t[m].depth /\ w[m].cnt = t[m].cnt
  BY <1>8, <1>11
<1>21. FixedAs(t, w, sc, T, r, c, x, d)
  BY <1>10, <1>16, <1>18, <1>19, <1>20, ReshapedFixedAs
<1> QED
  BY <1>21 DEF x

\* Where a double rotation takes place: x is a child of c, and y its child on
\* the other side.
Elbow(t, T, sub, c, x, y, up, down) ==
  /\ c \in Name /\ x \in Name /\ y \in Name /\ c # x /\ c # y /\ x # y
  /\ t[c][up] = x /\ t[x][down] = y /\ t[x].parent = c /\ t[y].parent = x
  /\ c \in sub[c] /\ x \in sub[c] /\ y \in sub[c] /\ t[c].parent \notin {c, x, y}
  /\ \A k \in {t[c][down], t[x][up], t[y][up], t[y][down]} : k \notin {c, x, y} /\ k \in Node

\* The node, its child and the inner grandchild of a double rotation.
LEMMA ElbowIsThere ==
  ASSUME NEW t, NEW sc \in [Name -> Int], NEW T \in SUBSET Name, NEW r, NEW sub,
         SearchTree(t, sc, T, r, sub), NEW up, NEW down, Opposite(up, down),
         NEW c \in T, NEW x \in T, NEW y \in T, t[c][up] = x, t[x][down] = y
  PROVE  Elbow(t, T, sub, c, x, y, up, down)
<1>1. Nodal(t, T, sub) /\ Familial(t, T, r, sub) /\ Nested(t, T, sub)
      /\ NULL \notin T /\ sub \in [T -> SUBSET T]
  BY TreeFacts
<1>2. up \in Sides /\ down \in Sides
  BY DEF Opposite
<1>3. \A n \in T : Under(sub, t[n][up]) \cap Under(sub, t[n][down]) = {}
  <2> SUFFICES ASSUME NEW n \in T PROVE Under(sub, t[n][up]) \cap Under(sub, t[n][down]) = {}
    OBVIOUS
  <2>1. Under(sub, t[n]["left"]) \cap Under(sub, t[n]["right"]) = {}
    BY <1>1 DEF Nodal
  <2>2. (up = "left" /\ down = "right") \/ (up = "right" /\ down = "left")
    BY DEF Opposite, Sides
  <2> QED
    BY <2>1, <2>2
<1>4. \A n \in T : Under(sub, n) = sub[n] /\ n \in sub[n]
  BY <1>1 DEF Nodal, Under
<1>5. \A n \in T, s \in Sides : t[n][s] # n /\ n \notin Under(sub, t[n][s])
                               /\ Under(sub, t[n][s]) \subseteq sub[n] /\ t[n][s] \in Node
                               /\ (t[n][s] # NULL => t[t[n][s]].parent = n)
  BY <1>1 DEF Nodal, Node
<1>6. /\ x # c /\ sub[x] \subseteq sub[c] /\ c \notin sub[x] /\ t[x].parent = c
      /\ sub[x] \cap Under(sub, t[c][down]) = {} /\ c \notin Under(sub, t[c][down])
  <2>1. Under(sub, t[c][up]) = sub[x] /\ t[c][up] # NULL
    BY <1>1, <1>4
  <2>2. Under(sub, t[c][up]) \cap Under(sub, t[c][down]) = {}
    BY <1>3
  <2> QED
    BY <1>2, <1>5, <2>1, <2>2
<1>7. /\ y # x /\ sub[y] \subseteq sub[x] /\ x \notin sub[y] /\ t[y].parent = x
      /\ sub[y] \cap Under(sub, t[x][up]) = {} /\ x \notin Under(sub, t[x][up])
      /\ Under(sub, t[x][up]) \subseteq sub[x]
  <2>1. Under(sub, t[x][down]) = sub[y] /\ t[x][down] # NULL
    BY <1>1, <1>4
  <2>2. Under(sub, t[x][up]) \cap Under(sub, t[x][down]) = {}
    BY <1>3
  <2>3. y # x /\ sub[y] \subseteq sub[x] /\ x \notin sub[y] /\ t[y].parent = x
    BY <1>2, <1>5, <2>1
  <2>4. x \notin Under(sub, t[x][up]) /\ Under(sub, t[x][up]) \subseteq sub[x]
    BY <1>2, <1>5
  <2> QED
    BY <2>1, <2>2, <2>3, <2>4
<1>8. y # c /\ x \in sub[c] /\ y \in sub[c] /\ y \in sub[x]
  BY <1>4, <1>6, <1>7
<1>9. \A m \in {c, x, y} : m \in Under(sub, m)
  BY <1>4
<1>10. t[c][down] \notin {c, x, y}
  <2> DEFINE k == t[c][down]
  <2>1. c \notin Under(sub, k) /\ x \notin Under(sub, k) /\ y \notin Under(sub, k)
    BY <1>4, <1>6, <1>8
  <2> HIDE DEF k
  <2>2. k \notin {c, x, y}
    BY <1>9, <2>1
  <2> QED
    BY <2>2 DEF k
<1>11. t[x][up] \notin {c, x, y}
  BY <1>4, <1>6, <1>7, <1>9
<1>12. \A s \in Sides : t[y][s] \notin {c, x, y}
  <2> SUFFICES ASSUME NEW s \in Sides PROVE t[y][s] \notin {c, x, y}
    OBVIOUS
  <2>1. t[y][s] # y /\ Under(sub, t[y][s]) \subseteq sub[y]
    BY <1>5
  <2> QED
    BY <1>6, <1>7, <1>9, <2>1
<1>13. t[c].parent \notin {c, x, y}
  <2>1. c = r => t[c].parent = NULL
    BY <1>1 DEF Familial
  <2>2. c # r => t[c].parent # c /\ t[c].parent \notin sub[c]
    BY <1>1 DEF Familial
  <2> QED
    BY <1>1, <1>8, <2>1, <2>2
<1> QED
  BY <1>2, <1>4, <1>5, <1>6, <1>7, <1>8, <1>10, <1>11, <1>12, <1>13 DEF Elbow

\* What the two rotations make of it.
Straightened(t, w, c, x, y, up, down) ==
  /\ w[c][up] = t[y][down] /\ w[c][down] = t[c][down]
  /\ w[x][down] = t[y][up] /\ w[x][up] = t[x][up]
  /\ w[y][up] = x /\ w[y][down] = c /\ w[y].parent = t[c].parent
  /\ \A m \in Name \ {c, x, y} :
       /\ w[m].depth = t[m].depth /\ w[m].cnt = t[m].cnt
       /\ \A s \in Sides :
            w[m][s] = IF m = t[c].parent /\ t[m][s] = c THEN y ELSE t[m][s]

\* A double rotation, field by field.
LEMMA TwoTurns ==
  ASSUME NEW t, NEW u, NEW w, NEW T, NEW sub, NEW c, NEW x, NEW y, NEW up, NEW down,
         Opposite(up, down), Elbow(t, T, sub, c, x, y, up, down),
         Turned(t, u, x, down, up)
  PROVE  /\ u[c][up] = y /\ u[c].parent = t[c].parent
         /\ \A m \in Name \ {c, x, y} : u[m].left = t[m].left
         /\ Turned(u, w, c, up, down) =>
              /\ Straightened(t, w, c, x, y, up, down)
              /\ Tallied(u, x) => Tallied(w, x)
<1>1. up \in Sides /\ down \in Sides /\ up # down /\ \A s \in Sides : s = up \/ s = down
  BY DEF Opposite
<1>2. /\ c \in Name /\ x \in Name /\ y \in Name /\ c # x /\ c # y /\ x # y
      /\ t[c][up] = x /\ t[x][down] = y /\ t[x].parent = c /\ t[y].parent = x
      /\ t[c].parent \notin {c, x, y}
      /\ \A k \in {t[c][down], t[x][up], t[y][up], t[y][down]} : k \notin {c, x, y} /\ k \in Node
  BY DEF Elbow
<1>3. /\ u[x][down] = t[y][up] /\ u[x][up] = t[x][up] /\ u[x].parent = y
      /\ u[y][down] = t[y][down] /\ u[y][up] = x /\ u[y].parent = c
      /\ \A m \in Name \ {x, y} :
          /\ u[m].parent = IF m = t[y][up] THEN x ELSE t[m].parent
          /\ \A s \in Sides :
               u[m][s] = IF m = c /\ t[m][s] = x THEN y ELSE t[m][s]
          /\ u[m].depth = t[m].depth /\ u[m].cnt = t[m].cnt
  BY <1>2 DEF Turned
<1>4. u[c][up] = y /\ u[c][down] = t[c][down] /\ u[c].parent = t[c].parent
  BY <1>1, <1>2, <1>3
<1>5. \A m \in Name \ {c, x, y}, s \in Sides : u[m][s] = t[m][s]
  BY <1>3
<1>6. \A m \in Name \ {c, x, y} : u[m].left = t[m].left
  BY <1>5 DEF Sides
<1>7. ASSUME Turned(u, w, c, up, down)
      PROVE  Straightened(t, w, c, x, y, up, down) /\ (Tallied(u, x) => Tallied(w, x))
  <2>1. /\ w[c][up] = u[y][down] /\ w[c][down] = u[c][down] /\ w[c].parent = y
        /\ w[y][up] = u[y][up] /\ w[y][down] = c /\ w[y].parent = u[c].parent
        /\ \A m \in Name \ {c, y} :
            /\ w[m].parent = IF m = u[y][down] THEN c ELSE u[m].parent
            /\ \A s \in Sides :
                 w[m][s] = IF m = u[c].parent /\ u[m][s] = c THEN y ELSE u[m][s]
            /\ w[m].depth = u[m].depth /\ w[m].cnt = u[m].cnt
    BY <1>4, <1>7 DEF Turned
  <2>2. \A s \in Sides : w[x][s] = u[x][s]
    BY <1>2, <1>4, <2>1
  <2>3. \A m \in Name \ {c, x, y} :
          /\ w[m].depth = t[m].depth /\ w[m].cnt = t[m].cnt
          /\ \A s \in Sides :
               w[m][s] = IF m = t[c].parent /\ t[m][s] = c THEN y ELSE t[m][s]
    BY <1>3, <1>4, <1>5, <2>1
  <2>4. Straightened(t, w, c, x, y, up, down)
    BY <1>1, <1>3, <1>4, <2>1, <2>2, <2>3 DEF Straightened
  <2>5. ASSUME Tallied(u, x) PROVE Tallied(w, x)
    <3>1. \A s \in Sides : u[x][s] \in Node \ {c, y}
      BY <1>1, <1>2, <1>3
    <3>2. \A k \in Node \ {c, y} : avl_depth(w, k) = avl_depth(u, k) /\ avl_cnt(w, k) = avl_cnt(u, k)
      BY <2>1 DEF avl_depth, avl_cnt, Node
    <3>3. w[x].depth = u[x].depth /\ w[x].cnt = u[x].cnt
      BY <1>2, <2>1
    <3>4. /\ w[x].left = u[x].left /\ w[x].right = u[x].right
          /\ avl_depth(w, w[x].left) = avl_depth(u, u[x].left)
          /\ avl_depth(w, w[x].right) = avl_depth(u, u[x].right)
          /\ avl_cnt(w, w[x].left) = avl_cnt(u, u[x].left)
          /\ avl_cnt(w, w[x].right) = avl_cnt(u, u[x].right)
      BY <2>2, <3>1, <3>2 DEF Sides
    <3> QED
      BY <2>5, <3>3, <3>4 DEF Tallied
  <2> QED
    BY <2>4, <2>5
<1> QED
  BY <1>4, <1>6, <1>7

\* The depths after a double rotation.
LEMMA StraightenedSettles ==
  ASSUME NEW t \in Heap, NEW w \in Heap, NEW T \in SUBSET Name, NEW sub,
         NEW c \in T, NEW x \in T, NEW y \in T, NEW up, NEW down, Opposite(up, down),
         Elbow(t, T, sub, c, x, y, up, down), Straightened(t, w, c, x, y, up, down),
         Tallied(w, c), Tallied(w, x), Tallied(w, y),
         NEW e, Drifting(t, T, c, e),
         avl_depth(t, x) > avl_depth(t, t[c][down]) + 1,
         avl_depth(t, t[x][up]) < avl_depth(t, y)
  PROVE  /\ Near(w[y].depth, e)
         /\ Settled(w, c) /\ Settled(w, x) /\ Settled(w, y)
<1> DEFINE l == avl_depth(t, x)
           h == avl_depth(t, t[c][down])
           outer == avl_depth(t, t[x][up])
           mid == avl_depth(t, y)
           i == avl_depth(t, t[y][up])
           j == avl_depth(t, t[y][down])
           W == {c, x, y}
<1>1. up \in Sides /\ down \in Sides /\ up # down
  BY DEF Opposite
<1>2. /\ c # x /\ c # y /\ x # y /\ c \in Name /\ x \in Name /\ y \in Name
      /\ t[c][up] = x /\ t[x][down] = y
      /\ \A k \in {t[c][down], t[x][up], t[y][up], t[y][down]} : k \notin W /\ k \in Node
      /\ c # NULL /\ x # NULL /\ y # NULL
  BY ZSetAssumption DEF Elbow
<1>3. \A m \in Node : avl_depth(t, m) \in Nat
  BY DEF avl_depth, Node, Heap
<1>4. e \in Nat /\ Poised(t, c, e, x) /\ Poised(t, c, e, y) /\ Drifted(e, l, h)
  BY <1>1, <1>2 DEF Drifting
<1>5. l = t[x].depth /\ mid = t[y].depth
  BY <1>2 DEF avl_depth
<1>6. l = 1 + Larger(outer, mid) /\ Near(outer, mid)
  <2>1. t[x][up] # c /\ t[x][down] # c
    BY <1>2
  <2>2. /\ t[x].depth = 1 + Larger(avl_depth(t, t[x][up]), avl_depth(t, t[x][down]))
        /\ Near(avl_depth(t, t[x][up]), avl_depth(t, t[x][down]))
    BY <1>1, <1>2, <1>4, <2>1, PoisedBothWays
  <2> QED
    BY <1>2, <1>5, <2>2
<1>7. mid = 1 + Larger(i, j) /\ Near(i, j)
  <2>1. t[y][up] # c /\ t[y][down] # c
    BY <1>2
  <2>2. /\ t[y].depth = 1 + Larger(avl_depth(t, t[y][up]), avl_depth(t, t[y][down]))
        /\ Near(avl_depth(t, t[y][up]), avl_depth(t, t[y][down]))
    BY <1>1, <1>2, <1>4, <2>1, PoisedBothWays
  <2> QED
    BY <1>5, <2>2
<1>8. l \in Nat /\ h \in Nat /\ outer \in Nat /\ mid \in Nat /\ i \in Nat /\ j \in Nat
  BY <1>2, <1>3 DEF Node
<1>9. /\ w[c][up] = t[y][down] /\ w[c][down] = t[c][down]
      /\ w[x][down] = t[y][up] /\ w[x][up] = t[x][up]
      /\ w[y][up] = x /\ w[y][down] = c
      /\ \A m \in Name \ W : w[m].depth = t[m].depth
  BY DEF Straightened
<1>10. \A k \in Node \ W : avl_depth(w, k) = avl_depth(t, k)
  BY <1>9 DEF avl_depth, Node
<1>11. /\ avl_depth(w, w[c][up]) = j /\ avl_depth(w, w[c][down]) = h
       /\ avl_depth(w, w[x][up]) = outer /\ avl_depth(w, w[x][down]) = i
       /\ avl_depth(w, w[y][up]) = w[x].depth /\ avl_depth(w, w[y][down]) = w[c].depth
  <2>1. avl_depth(w, x) = w[x].depth /\ avl_depth(w, c) = w[c].depth
    BY <1>2 DEF avl_depth
  <2> QED
    BY <1>2, <1>9, <1>10, <2>1
<1>12. l > h + 1 /\ outer < mid
  OBVIOUS
<1> HIDE DEF l, h, outer, mid, i, j
<1>13. l = h + 2 /\ e \in {l, l + 1}
  BY <1>4, <1>8, <1>12, Drift
<1>14. /\ Near(outer, i) /\ Near(j, h)
       /\ Near(1 + Larger(outer, i), 1 + Larger(j, h))
       /\ Near(1 + Larger(1 + Larger(outer, i), 1 + Larger(j, h)), e)
  <2>1. outer = h /\ mid = h + 1 /\ (i = h \/ i = h - 1) /\ (j = h \/ j = h - 1)
    BY <1>6, <1>7, <1>8, <1>12, <1>13 DEF Near, Larger
  <2>2. Larger(outer, i) = h /\ Larger(j, h) = h /\ Larger(1 + h, 1 + h) = 1 + h
    BY <1>8, <2>1 DEF Larger
  <2> QED
    BY <1>4, <1>8, <1>13, <2>1, <2>2 DEF Near
<1>15. w[x].depth = 1 + Larger(outer, i) /\ Settled(w, x)
  <2>1. /\ w[x].depth = 1 + Larger(avl_depth(w, w[x][up]), avl_depth(w, w[x][down]))
        /\ Near(avl_depth(w, w[x][up]), avl_depth(w, w[x][down])) => Settled(w, x)
    BY <1>1, <1>2, TalliedBothWays
  <2> QED
    BY <1>11, <1>14, <2>1
<1>16. w[c].depth = 1 + Larger(j, h) /\ Settled(w, c)
  <2>1. /\ w[c].depth = 1 + Larger(avl_depth(w, w[c][up]), avl_depth(w, w[c][down]))
        /\ Near(avl_depth(w, w[c][up]), avl_depth(w, w[c][down])) => Settled(w, c)
    BY <1>1, <1>2, TalliedBothWays
  <2> QED
    BY <1>11, <1>14, <2>1
<1>17. Near(w[y].depth, e) /\ Settled(w, y)
  <2>1. /\ w[y].depth = 1 + Larger(avl_depth(w, w[y][up]), avl_depth(w, w[y][down]))
        /\ Near(avl_depth(w, w[y][up]), avl_depth(w, w[y][down])) => Settled(w, y)
    BY <1>1, <1>2, TalliedBothWays
  <2> QED
    BY <1>11, <1>14, <1>15, <1>16, <2>1
<1> QED
  BY <1>15, <1>16, <1>17

\* A node that two rotations balance, the first one around its child.
LEMMA FixedByDouble ==
  ASSUME NEW t \in Heap, NEW v \in Heap, NEW sc \in [Name -> Int], NEW T \in SUBSET Name,
         NEW r, NEW sub, NEW c \in T, NEW e, NEW d, NEW up, NEW down, Opposite(up, down),
         SearchTree(t, sc, T, r, sub),
         BalancedBut(t, T, c), CountedBut(t, T, sub, c, d), Drifting(t, T, c, e),
         \A m \in Name : Alike(t, v, m), \A m \in Name \ {c} : v[m] = t[m],
         NEW x \in T, t[c][up] = x, NEW y \in T, t[x][down] = y,
         avl_depth(t, x) > avl_depth(t, t[c][down]) + 1,
         avl_depth(t, t[x][up]) < avl_depth(t, y),
         NEW u, u = Replaced(v, Rotate(v, x, down, up), x, y),
         NEW w, w = Replaced(v, Rotate(u, c, up, down), c, y)
  PROVE  FixedAs(t, w, sc, T, r, c, y, d)
<1> DEFINE W == {c, x, y}
           sub1 == Turn(v, sub, x, down, up)
           sub2 == Turn(u, sub1, c, up, down)
           p == t[c].parent
<1>1. Elbow(t, T, sub, c, x, y, up, down) /\ NULL \notin T /\ sub \in [T -> SUBSET T]
      /\ Familial(t, T, r, sub)
  BY ElbowIsThere, TreeFacts
<1>2. up \in Sides /\ down \in Sides /\ Opposite(down, up)
  BY DEF Opposite
<1>3. SearchTree(v, sc, T, r, sub)
  BY <1>1, AlikeTree
<1>4. \A m \in Name : v[m].parent = t[m].parent /\ \A s \in Sides : v[m][s] = t[m][s]
  BY DEF Alike, Sides
<1>5. v[c][up] = x /\ v[x][down] = y /\ v[c].parent = p
  BY <1>2, <1>4
<1>6. Elbow(v, T, sub, c, x, y, up, down)
  BY <1>3, <1>5, ElbowIsThere
<1>7. /\ u \in Heap /\ Turned(v, u, x, down, up) /\ SearchTree(u, sc, T, r, sub1)
       /\ Tallied(u, x) /\ Tallied(u, y)
  <2>1. u = Replaced(v, Rotate(v, x, down, up), x, v[x][down]) /\ v[x][down] # NULL
    BY <1>1, <1>5
  <2>2. x # r
    BY <1>1, <1>2 DEF Familial
  <2> HIDE DEF sub1
  <2>3. /\ u \in Heap /\ Turned(v, u, x, down, up)
        /\ SearchTree(u, sc, T, IF x = r THEN v[x][down] ELSE r, Turn(v, sub, x, down, up))
        /\ Tallied(u, x) /\ Tallied(u, v[x][down])
    <3>1. /\ v \in Heap /\ sc \in [Name -> Int] /\ T \in SUBSET Name /\ x \in T
          /\ SearchTree(v, sc, T, r, sub) /\ Opposite(down, up)
      BY <1>2, <1>3
    <3> QED
      BY ONLY <2>1, <3>1, RotatedTree
  <2> QED
    BY <1>5, <2>2, <2>3 DEF sub1
<1>8. /\ u[c][up] = y /\ u[c].parent = p
      /\ \A m \in Name \ W : u[m].left = v[m].left
      /\ Turned(u, w, c, up, down) =>
           /\ Straightened(v, w, c, x, y, up, down)
           /\ Tallied(u, x) => Tallied(w, x)
  <2>1. /\ u[c][up] = y /\ u[c].parent = v[c].parent
        /\ \A m \in Name \ W : u[m].left = v[m].left
        /\ Turned(u, w, c, up, down) =>
             /\ Straightened(v, w, c, x, y, up, down)
             /\ Tallied(u, x) => Tallied(w, x)
    <3>1. Opposite(up, down) /\ Elbow(v, T, sub, c, x, y, up, down) /\ Turned(v, u, x, down, up)
      BY <1>6, <1>7
    <3> QED
      BY ONLY <3>1, TwoTurns
  <2> QED
    BY <1>5, <2>1
<1>9. w = Replaced(u, Rotate(u, c, up, down), c, u[c][up])
  <2>1. p # NULL => p \in Name \ W
    <3>1. p \notin W
      BY <1>1 DEF Elbow
    <3>2. p # NULL => p \in T
      BY <1>1 DEF Familial
    <3> QED
      BY <3>1, <3>2
  <2>2. p # NULL => SideOf(v, p, c) = SideOf(u, p, c)
    BY <1>8, <2>1 DEF SideOf
  <2> HIDE DEF p
  <2> QED
    BY <1>5, <1>8, <2>2 DEF Replaced
<1>10. /\ w \in Heap /\ Turned(u, w, c, up, down)
       /\ SearchTree(w, sc, T, IF c = r THEN y ELSE r, sub2)
       /\ Tallied(w, c) /\ Tallied(w, y)
  <2>1. u[c][up] # NULL
    BY <1>1, <1>8
  <2>2. /\ w \in Heap /\ Turned(u, w, c, up, down)
        /\ SearchTree(w, sc, T, IF c = r THEN u[c][up] ELSE r, Turn(u, sub1, c, up, down))
        /\ Tallied(w, c) /\ Tallied(w, u[c][up])
    <3> HIDE DEF sub1, sub2, p, W
    <3>1. /\ u \in Heap /\ SearchTree(u, sc, T, r, sub1)
          /\ sc \in [Name -> Int] /\ T \in SUBSET Name /\ c \in T /\ Opposite(up, down)
      BY <1>7
    <3> QED
      BY ONLY <1>9, <2>1, <3>1, RotatedTree
  <2> QED
    <3> HIDE DEF sub1
    <3> QED
      BY <1>8, <2>2 DEF sub2
<1>11. Straightened(v, w, c, x, y, up, down) /\ Tallied(w, x)
  BY <1>7, <1>8, <1>10
<1>12. Straightened(t, w, c, x, y, up, down)
  BY <1>2, <1>4, <1>11 DEF Straightened
<1>13. Near(w[y].depth, e) /\ Settled(w, c) /\ Settled(w, x) /\ Settled(w, y)
  BY <1>1, <1>10, <1>11, <1>12, StraightenedSettles
<1>14. sub2[y] = sub[c] /\ \A m \in T \ W : sub2[m] = sub[m]
  <2>1. c # x /\ c # y /\ x # y
    BY <1>1 DEF Elbow
  <2>2. sub1 \in [T -> SUBSET T]
    BY <1>7 DEF SearchTree
  <2>3. sub1[c] = sub[c] /\ \A m \in T \ W : sub1[m] = sub[m]
    BY <1>1, <1>5, <2>1 DEF Turn
  <2> HIDE DEF sub1
  <2> QED
    BY <1>8, <2>1, <2>2, <2>3 DEF Turn
<1> HIDE DEF sub2, sub1, p
<1>15. Reshaped(t, w, T, sub, sub2, c, y, W)
  <2>1. /\ w[y].parent = t[c].parent
        /\ \A m \in Name \ W :
             /\ w[m].depth = t[m].depth /\ w[m].cnt = t[m].cnt
             /\ \A s \in Sides : w[m][s] = IF m = t[c].parent /\ t[m][s] = c THEN y ELSE t[m][s]
    BY <1>12 DEF Straightened
  <2>2. \A m \in T \ W, s \in Sides : w[m][s] = IF t[m][s] = c THEN y ELSE t[m][s]
    BY <1>1, <2>1 DEF Familial
  <2>3. W \subseteq sub[c] /\ \A m \in W \ {c} : t[m].parent \in W
    BY <1>1 DEF Elbow
  <2> QED
    BY <1>13, <1>14, <2>1, <2>2, <2>3 DEF Reshaped
<1>16. \A m \in Name \ T : w[m].depth = t[m].depth /\ w[m].cnt = t[m].cnt
  BY <1>12 DEF Straightened
<1> QED
  BY <1>10, <1>13, <1>15, <1>16, ReshapedFixedAs

\* avl_fix_left and avl_fix_right, by the side that is too deep.
FixSide(t, n, up, down) ==
  LET x == t[n][up]
      u == IF avl_depth(t, t[x][up]) < avl_depth(t, t[x][down])
             THEN [Rotate(t, x, down, up) EXCEPT ![n][up] = t[x][down]]
             ELSE t
  IN [heap |-> Rotate(u, n, up, down), root |-> u[n][up]]

\* avl_fix_left and avl_fix_right are mirror images.
LEMMA FixSides ==
  ASSUME NEW t, NEW n
  PROVE  /\ avl_fix_left(t, n) = FixSide(t, n, "left", "right")
         /\ avl_fix_right(t, n) = FixSide(t, n, "right", "left")
  BY DEF avl_fix_left, avl_fix_right, FixSide, rot_left, rot_right

\* avl_fix_left and avl_fix_right balance the subtree.
LEMMA FixedBySide ==
  ASSUME NEW t \in Heap, NEW v \in Heap, NEW sc \in [Name -> Int], NEW T \in SUBSET Name,
         NEW r, NEW sub, NEW c \in T, NEW e, NEW d, NEW up, NEW down, Opposite(up, down),
         SearchTree(t, sc, T, r, sub),
         BalancedBut(t, T, c), CountedBut(t, T, sub, c, d), Drifting(t, T, c, e),
         \A m \in Name : Alike(t, v, m), \A m \in Name \ {c} : v[m] = t[m],
         avl_depth(t, t[c][up]) > avl_depth(t, t[c][down]) + 1,
         NEW f, f = FixSide(v, c, up, down)
  PROVE  FixedAs(t, Replaced(v, f.heap, c, f.root), sc, T, r, c, f.root, d)
<1> DEFINE x == t[c][up]
           y == t[x][down]
<1>1. Nodal(t, T, sub) /\ Familial(t, T, r, sub) /\ NULL \notin T /\ sub \in [T -> SUBSET T]
  BY TreeFacts
<1>2. up \in Sides /\ down \in Sides
  BY DEF Opposite
<1>3. \A m \in Name : v[m].parent = t[m].parent /\ \A s \in Sides : v[m][s] = t[m][s]
  BY DEF Alike, Sides
<1>4. \A m \in Node : avl_depth(t, m) \in Nat
  BY DEF avl_depth, Node, Heap
<1>5. \A m \in Name, s \in Sides : t[m][s] \in Node
  BY DEF Heap, Sides
<1>6. x # NULL
  BY <1>2, <1>4, <1>5 DEF avl_depth
<1>7. x \in T /\ t[x].parent = c /\ c \in Name /\ x \in Name /\ c \notin sub[x]
  BY <1>1, <1>2, <1>6 DEF Nodal, Under
<1>8. \A s \in Sides : v[x][s] = t[x][s] /\ v[c][s] = t[c][s]
                       /\ avl_depth(v, t[x][s]) = avl_depth(t, t[x][s])
  <2> SUFFICES ASSUME NEW s \in Sides PROVE avl_depth(v, t[x][s]) = avl_depth(t, t[x][s])
    BY <1>3, <1>7
  <2>1. t[x][s] \in T \cup {NULL} /\ t[x][s] # c
    <3>1. t[x][s] \in T \cup {NULL} /\ Under(sub, t[x][s]) \subseteq sub[x]
      BY <1>1, <1>7 DEF Nodal
    <3>2. c \in Under(sub, c)
      BY <1>1 DEF Nodal, Under
    <3> QED
      BY <1>7, <3>1, <3>2
  <2> QED
    BY <1>1, <2>1 DEF avl_depth
<1> HIDE DEF x, y
<1>9. CASE ~ (avl_depth(t, t[x][up]) < avl_depth(t, t[x][down]))
  <2>1. v[c][up] = x /\ ~ (avl_depth(v, v[x][up]) < avl_depth(v, v[x][down]))
    BY <1>2, <1>8, <1>9 DEF x
  <2>2. f.heap = Rotate(v, c, up, down) /\ f.root = x
    BY <2>1 DEF FixSide
  <2>3. FixedAs(t, Replaced(v, Rotate(v, c, up, down), c, t[c][up]), sc, T, r, c, t[c][up], d)
    BY <1>9, FixedBySingle DEF x
  <2> QED
    BY <2>2, <2>3 DEF x
<1>10. CASE avl_depth(t, t[x][up]) < avl_depth(t, t[x][down])
  <2> DEFINE u == Replaced(v, Rotate(v, x, down, up), x, y)
  <2>1. v[c][up] = x /\ v[x][down] = y /\ avl_depth(v, v[x][up]) < avl_depth(v, v[x][down])
        /\ v[x].parent = c
    BY <1>2, <1>3, <1>7, <1>8, <1>10 DEF x, y
  <2>2. y \in T /\ y # NULL
    <3>1. y # NULL
      BY <1>2, <1>4, <1>5, <1>7, <1>10 DEF avl_depth, y
    <3> QED
      BY <1>1, <1>2, <1>7, <3>1 DEF Nodal, y
  <2>3. SearchTree(v, sc, T, r, sub)
    BY <1>1, AlikeTree
  <2>4. u = [Rotate(v, x, down, up) EXCEPT ![c][up] = y]
    <3>1. Nodal(v, T, sub)
      BY <2>3, TreeFacts
    <3>2. SideOf(v, c, v[c][up]) = up
      BY <1>2, <1>7, <2>1, <3>1, OneSide
    <3> QED
      BY <1>1, <2>1, <3>2 DEF Replaced
  <2> HIDE DEF u
  <2>5. u[c][up] = y
    <3>1. Turned(v, u, x, down, up)
      <4>1. Opposite(down, up) /\ v[x][down] # NULL
            /\ u = Replaced(v, Rotate(v, x, down, up), x, v[x][down])
        BY <2>1, <2>2 DEF u, Opposite
      <4> QED
        BY <1>7, <2>3, <4>1, RotatedTree
    <3>2. Elbow(v, T, sub, c, x, y, up, down)
      BY <1>7, <2>1, <2>2, <2>3, ElbowIsThere
    <3>3. c # x /\ c # y
      BY <3>2 DEF Elbow
    <3> QED
      BY <1>2, <1>7, <2>1, <3>1, <3>3 DEF Turned
  <2>6. f.heap = Rotate(u, c, up, down) /\ f.root = y
    <3>1. f = [heap |-> Rotate(u, c, up, down), root |-> u[c][up]]
      BY <2>1, <2>4 DEF FixSide
    <3> QED
      BY <2>5, <3>1
  <2> DEFINE w == Replaced(v, Rotate(u, c, up, down), c, y)
  <2>7. FixedAs(t, w, sc, T, r, c, y, d)
    <3>1. /\ t[c][up] = x /\ t[x][down] = y /\ u = Replaced(v, Rotate(v, x, down, up), x, y)
          /\ avl_depth(t, x) > avl_depth(t, t[c][down]) + 1
          /\ avl_depth(t, t[x][up]) < avl_depth(t, y)
      BY <1>10 DEF x, y, u
    <3>2. w = Replaced(v, Rotate(u, c, up, down), c, y)
      OBVIOUS
    <3> HIDE DEF w
    <3> QED
      BY <1>7, <2>2, <3>1, <3>2, FixedByDouble
  <2> QED
    BY <2>6, <2>7
<1> QED
  BY <1>9, <1>10

\* An iteration of avl_fix.
LEMMA FixStep ==
  ASSUME NEW t \in Heap, NEW sc \in [Name -> Int], NEW T \in SUBSET Name,
         NEW r, NEW sub, NEW c \in T, NEW d, SearchTree(t, sc, T, r, sub),
         BalancedBut(t, T, c), CountedBut(t, T, sub, c, d)
  PROVE  FixedAs(t, avl_fix(t, c).heap, sc, T, r, c, avl_fix(t, c).root, d)
<1> DEFINE v == avl_update(t, c)
           f == FixNode(v, c)
           l == avl_depth(t, t[c].left)
           h == avl_depth(t, t[c].right)
<1>1. Nodal(t, T, sub) /\ Familial(t, T, r, sub) /\ NULL \notin T /\ sub \in [T -> SUBSET T]
  BY TreeFacts
<1>2. c \in Name /\ t[c].left # c /\ t[c].right # c
      /\ t[c].left \in T \cup {NULL} /\ t[c].right \in T \cup {NULL}
  BY <1>1 DEF Nodal, Sides
<1>3. /\ v \in Heap /\ \A m \in Name : Alike(t, v, m)
      /\ \A m \in Name \ {c} : v[m] = t[m]
      /\ Tallied(v, c)
  BY <1>2, Updated
<1>4. avl_fix(t, c).heap = Replaced(v, f.heap, c, f.root) /\ avl_fix(t, c).root = f.root
  BY DEF avl_fix, Replaced
<1> HIDE DEF v
<1>5. v[c].left = t[c].left /\ v[c].right = t[c].right
  BY <1>2, <1>3 DEF Alike
<1>6. avl_depth(v, v[c].left) = l /\ avl_depth(v, v[c].right) = h
  BY <1>1, <1>2, <1>3, <1>5 DEF avl_depth
<1>7. l \in Nat /\ h \in Nat
  BY <1>2 DEF avl_depth, Heap
<1>8. PICK e : Drifting(t, T, c, e)
  BY FixableDrifts
<1>9. Opposite("left", "right") /\ Opposite("right", "left")
  BY DEF Opposite, Sides
<1>10. CASE l > h + 1
  <2>1. f = FixSide(v, c, "left", "right")
    BY <1>6, <1>10, FixSides DEF FixNode
  <2> HIDE DEF f
  <2>2. avl_depth(t, t[c]["left"]) > avl_depth(t, t[c]["right"]) + 1
    BY <1>10
  <2>3. FixedAs(t, Replaced(v, f.heap, c, f.root), sc, T, r, c, f.root, d)
    BY <1>3, <1>8, <1>9, <2>1, <2>2, FixedBySide
  <2> QED
    BY <1>4, <2>3
<1>11. CASE h > l + 1
  <2>1. f = FixSide(v, c, "right", "left")
    BY <1>6, <1>7, <1>11, FixSides DEF FixNode
  <2> HIDE DEF f
  <2>2. avl_depth(t, t[c]["right"]) > avl_depth(t, t[c]["left"]) + 1
    BY <1>11
  <2>3. FixedAs(t, Replaced(v, f.heap, c, f.root), sc, T, r, c, f.root, d)
    BY <1>3, <1>8, <1>9, <2>1, <2>2, FixedBySide
  <2> QED
    BY <1>4, <2>3
<1>12. CASE ~ (l > h + 1) /\ ~ (h > l + 1)
  <2>1. f.heap = v /\ f.root = c
    BY <1>6, <1>12 DEF FixNode
  <2>2. Near(l, h)
    BY <1>7, <1>12 DEF Near
  <2>3. FixedAs(t, v, sc, T, r, c, c, d)
    BY <1>3, <1>8, <2>2, FixedInPlace
  <2>4. Replaced(v, v, c, c) = v
    <3> DEFINE p == v[c].parent
    <3>1. CASE p = NULL
      BY <3>1 DEF Replaced
    <3>2. CASE p # NULL
      <4>1. SearchTree(v, sc, T, r, sub)
        BY <1>1, <1>3, AlikeTree
      <4>2. Nodal(v, T, sub) /\ Familial(v, T, r, sub)
        BY <4>1, TreeFacts
      <4>3. p \in T /\ \E s \in Sides : v[p][s] = c
        BY <3>2, <4>2 DEF Familial
      <4> HIDE DEF p
      <4>4. PICK s \in Sides : v[p][s] = c
        BY <4>3
      <4>5. SideOf(v, p, c) = s
        BY <4>2, <4>3, <4>4, OneSide
      <4>6. [v EXCEPT ![p][s] = c] = v
        <5>1. CASE s = "left"
          BY <1>3, <4>3, <4>4, <5>1 DEF Heap
        <5>2. CASE s = "right"
          BY <1>3, <4>3, <4>4, <5>2 DEF Heap
        <5> QED
          BY <5>1, <5>2 DEF Sides
      <4> QED
        BY <3>2, <4>5, <4>6 DEF Replaced, p
    <3> QED
      BY <3>1, <3>2
  <2> QED
    BY <1>4, <2>1, <2>3, <2>4
<1> QED
  BY <1>7, <1>10, <1>11, <1>12
-----------------------------------------------------------------------------
(***************************************************************************)
(* A new leaf.                                                             *)
(***************************************************************************)
\* A tree at rest.
LEMMA AtRestTree ==
  ASSUME NEW t, NEW T \in SUBSET Name, NEW sub \in [T -> SUBSET T], NEW d
  PROVE  /\ BalancedBut(t, T, NULL) <=>
              \A n \in T : 1 <= t[n].depth /\ t[n].depth <= t[n].cnt /\ Poised(t, NULL, 0, n)
         /\ CountedBut(t, T, sub, NULL, d) <=> \A n \in T : t[n].cnt = Cardinality(sub[n])
         /\ \A m : Depth(t, NULL, 0, m) = avl_depth(t, m)
<1>1. NULL \notin T /\ \A n \in T : NULL \notin sub[n]
  BY ZSetAssumption
<1>2. \A n \in T : Cardinality(sub[n]) \in Nat
  BY SubtreeBound
<1>3. \A e : Fixable(t, NULL, e) <=> e = 0
  BY DEF Fixable
<1>4. BalancedBut(t, T, NULL) <=>
              \A n \in T : 1 <= t[n].depth /\ t[n].depth <= t[n].cnt /\ Poised(t, NULL, 0, n)
  BY <1>1, <1>3 DEF BalancedBut
<1>5. CountedBut(t, T, sub, NULL, d) <=> \A n \in T : t[n].cnt = Cardinality(sub[n])
  BY <1>1, <1>2 DEF CountedBut
<1> QED
  BY <1>4, <1>5 DEF Depth, avl_depth

\* Node k has become the child of c on side s.
Leafed(t, u, k, c, s) ==
  \A m \in Name :
    /\ u[m].depth = t[m].depth /\ u[m].cnt = t[m].cnt
    /\ u[m].parent = IF m = k THEN c ELSE t[m].parent
    /\ \A q \in Sides : u[m][q] = IF m = c /\ q = s THEN k ELSE t[m][q]

\* The links that tree_add writes, field by field.
LEMMA LeafFields ==
  ASSUME NEW t \in Heap, NEW k \in Name, NEW c \in Name, NEW s \in Sides
  PROVE  LET u == [t EXCEPT ![k].parent = c, ![c][s] = k]
         IN u \in Heap /\ Leafed(t, u, k, c, s)
<1>1. k \in Node /\ c \in Node
  BY DEF Node
<1>2. CASE s = "left"
  BY <1>1, <1>2 DEF Heap, Sides, Leafed
<1>3. CASE s = "right"
  BY <1>1, <1>3 DEF Heap, Sides, Leafed
<1> QED
  BY <1>2, <1>3 DEF Sides

\* Node k is put under c, on its empty side s, in a place that suits it.
LEMMA LeafTree ==
  ASSUME NEW t \in Heap, NEW sc \in [Name -> Int], NEW T \in SUBSET Name, NEW r, NEW sub,
         SearchTree(t, sc, T, r, sub),
         BalancedBut(t, T, NULL), NEW d, CountedBut(t, T, sub, NULL, d),
         NEW k \in Name \ T, t[k] = avl_init,
         NEW c \in T, NEW s \in Sides, t[c][s] = NULL, OnSide(sc, s, k, c),
         \A n \in T, q \in Sides : c \in Under(sub, t[n][q]) => OnSide(sc, q, k, n),
         NEW u \in Heap, Leafed(t, u, k, c, s)
  PROVE  /\ BalancedBut(u, T \cup {k}, k)
         /\ \E sub2 : /\ SearchTree(u, sc, T \cup {k}, r, sub2)
                      /\ CountedBut(u, T \cup {k}, sub2, k, -1)
<1> DEFINE T2 == T \cup {k}
           sub2 == [a \in T2 |-> IF a = k THEN {k}
                                 ELSE IF c \in sub[a] THEN sub[a] \cup {k} ELSE sub[a]]
<1>1. Nodal(t, T, sub) /\ Familial(t, T, r, sub) /\ NULL \notin T /\ sub \in [T -> SUBSET T]
  BY TreeFacts
<1>2. k # NULL /\ k \in Name /\ k \notin T /\ c \in Name /\ c # k /\ k \in Node /\ c \in Node
  BY ZSetAssumption DEF Node
<1>3. /\ \A m \in Name : /\ u[m].depth = t[m].depth /\ u[m].cnt = t[m].cnt
                         /\ u[m].parent = IF m = k THEN c ELSE t[m].parent
      /\ \A m \in Name, q \in Sides : u[m][q] = IF m = c /\ q = s THEN k ELSE t[m][q]
  BY DEF Leafed
<1>4. \A q \in Sides : u[k][q] = NULL
  <2>1. t[k].left = NULL /\ t[k].right = NULL
    BY DEF avl_init
  <2> QED
    BY <1>2, <1>3, <2>1 DEF Sides
<1>5. sub2 \in [T2 -> SUBSET T2]
  BY <1>1
<1>6. /\ Under(sub2, k) = {k} /\ Under(sub2, NULL) = {}
      /\ \A m \in T \cup {NULL} :
           Under(sub2, m) = IF c \in Under(sub, m) THEN Under(sub, m) \cup {k} ELSE Under(sub, m)
  BY <1>1, <1>2 DEF Under
<1>7. /\ sub2[k] = {k} /\ \A m \in T : sub2[m] = Under(sub2, m) /\ sub[m] = Under(sub, m)
  BY <1>1, <1>6 DEF Under
<1> HIDE DEF sub2
<1>8. \A m \in T, q \in Sides : t[m][q] \in T \cup {NULL} /\ c \notin Under(sub, t[c][q])
  BY <1>1 DEF Nodal
<1>9. r \in T /\ u[r].parent = NULL /\ Under(sub2, r) = T2
  <2>1. r \in T \cup {NULL} /\ Under(sub, r) = T /\ (r # NULL => t[r].parent = NULL)
    BY DEF SearchTree
  <2>2. r \in T
    BY <2>1 DEF Under
  <2> QED
    BY <1>1, <1>2, <1>3, <1>6, <2>1, <2>2
<1>10. ASSUME NEW a \in T2
       PROVE  sub2[a] = {a} \cup Under(sub2, u[a]["left"]) \cup Under(sub2, u[a]["right"])
  <2>1. CASE a = k
    BY <1>4, <1>6, <1>7, <2>1 DEF Sides
  <2>2. CASE a = c
    <3>1. sub[c] = {c} \cup Under(sub, t[c]["left"]) \cup Under(sub, t[c]["right"])
      BY DEF SearchTree
    <3>2. c \in sub[c]
      BY <1>1 DEF Nodal
    <3>3. Under(sub2, t[c]["left"]) = Under(sub, t[c]["left"])
          /\ Under(sub2, t[c]["right"]) = Under(sub, t[c]["right"])
      BY <1>6, <1>8 DEF Sides
    <3>4. CASE s = "left"
      <4>1. u[c]["left"] = k /\ u[c]["right"] = t[c]["right"] /\ Under(sub, t[c]["left"]) = {}
        BY <1>2, <1>3, <3>4 DEF Sides, Under
      <4> QED
        BY <1>6, <1>7, <2>2, <3>1, <3>2, <3>3, <4>1
    <3>5. CASE s = "right"
      <4>1. u[c]["right"] = k /\ u[c]["left"] = t[c]["left"] /\ Under(sub, t[c]["right"]) = {}
        BY <1>2, <1>3, <3>5 DEF Sides, Under
      <4> QED
        BY <1>6, <1>7, <2>2, <3>1, <3>2, <3>3, <4>1
    <3> QED
      BY <3>4, <3>5 DEF Sides
  <2>3. CASE a # k /\ a # c
    <3>1. sub[a] = {a} \cup Under(sub, t[a]["left"]) \cup Under(sub, t[a]["right"])
      BY <2>3 DEF SearchTree
    <3>2. u[a]["left"] = t[a]["left"] /\ u[a]["right"] = t[a]["right"]
      BY <1>3, <2>3 DEF Sides
    <3> QED
      BY <1>6, <1>7, <1>8, <2>3, <3>1, <3>2 DEF Sides
  <2> QED
    BY <2>1, <2>2, <2>3
<1>11. ASSUME NEW n \in T2, NEW q \in Sides
       PROVE  /\ u[n][q] \in T2 \cup {NULL}
              /\ u[n][q] # NULL => u[u[n][q]].parent = n
              /\ \A m \in Under(sub2, u[n][q]) : OnSide(sc, q, m, n)
  <2>1. CASE n = k
    BY <1>4, <1>6, <2>1
  <2>2. CASE n = c /\ q = s
    BY <1>2, <1>3, <1>6, <2>2
  <2>3. CASE n # k /\ ~ (n = c /\ q = s)
    <3>1. n \in T /\ u[n][q] = t[n][q]
      BY <1>3, <2>3
    <3>2. /\ t[n][q] \in T \cup {NULL} /\ (t[n][q] # NULL => t[t[n][q]].parent = n)
          /\ \A m \in Under(sub, t[n][q]) : OnSide(sc, q, m, n)
      BY <3>1 DEF SearchTree
    <3>3. \A m \in Under(sub2, t[n][q]) : m \in Under(sub, t[n][q]) \/ (m = k /\ c \in Under(sub, t[n][q]))
      BY <1>6, <3>2
    <3> QED
      BY <1>2, <1>3, <3>1, <3>2, <3>3
  <2> QED
    BY <2>1, <2>2, <2>3
<1>12. \A n \in T2 \ {r} : u[n].parent \in T2 /\ \E q \in Sides : u[u[n].parent][q] = n
  <2> SUFFICES ASSUME NEW n \in T2 \ {r}
               PROVE  u[n].parent \in T2 /\ \E q \in Sides : u[u[n].parent][q] = n
    OBVIOUS
  <2>1. CASE n = k
    BY <1>2, <1>3, <2>1
  <2>2. CASE n # k
    <3>1. t[n].parent \in T /\ n \in T
      BY <1>1, <2>2 DEF Familial
    <3>2. PICK q \in Sides : t[t[n].parent][q] = n
      BY <1>1, <2>2 DEF Familial
    <3> QED
      BY <1>1, <1>2, <1>3, <2>2, <3>1, <3>2
  <2> QED
    BY <2>1, <2>2
<1>13. SearchTree(u, sc, T2, r, sub2)
  BY <1>5, <1>9, <1>10, <1>11, <1>12 DEF SearchTree
<1>14. \A n \in T : /\ 1 <= t[n].depth /\ t[n].depth <= t[n].cnt /\ Poised(t, NULL, 0, n)
                    /\ t[n].cnt = Cardinality(sub[n])
  BY <1>1, AtRestTree
<1>15. CountedBut(u, T2, sub2, k, -1)
  <2> SUFFICES ASSUME NEW n \in T
               PROVE  u[n].cnt = Cardinality(sub2[n]) + (IF k \in sub2[n] THEN -1 ELSE 0)
    BY DEF CountedBut
  <2>1. k \notin sub[n] /\ IsFiniteSet(sub[n]) /\ Cardinality(sub[n]) \in Nat /\ n # k
    BY <1>1, <1>2, SubtreeBound
  <2>2. Cardinality(sub[n] \cup {k}) = Cardinality(sub[n]) + 1
    BY <2>1, FS_AddElement
  <2>3. sub2[n] = IF c \in sub[n] THEN sub[n] \cup {k} ELSE sub[n]
    BY <2>1 DEF sub2
  <2>4. u[n].cnt = Cardinality(sub[n])
    BY <1>3, <1>14
  <2> QED
    BY <2>1, <2>2, <2>3, <2>4
<1>16. BalancedBut(u, T2, k)
  <2>1. Fixable(u, k, 0)
    BY <1>2, <1>4 DEF Fixable, Sides
  <2>2. ASSUME NEW n \in T PROVE Poised(u, k, 0, n)
    <3>1. \A q \in Sides : Depth(u, k, 0, u[n][q]) = Depth(t, NULL, 0, t[n][q])
      <4> SUFFICES ASSUME NEW q \in Sides
                   PROVE Depth(u, k, 0, u[n][q]) = Depth(t, NULL, 0, t[n][q])
        OBVIOUS
      <4>1. CASE n = c /\ q = s
        BY <1>3, <4>1 DEF Depth
      <4>2. CASE ~ (n = c /\ q = s)
        <5>1. u[n][q] = t[n][q] /\ t[n][q] \in T \cup {NULL}
          BY <1>3, <1>8, <4>2
        <5> QED
          BY <1>2, <1>3, <5>1 DEF Depth, avl_depth
      <4> QED
        BY <4>1, <4>2
    <3>2. Depth(u, k, 0, u[n].left) = Depth(t, NULL, 0, t[n].left)
          /\ Depth(u, k, 0, u[n].right) = Depth(t, NULL, 0, t[n].right)
      BY <3>1 DEF Sides
    <3> QED
      BY <1>3, <1>14, <3>2 DEF Poised
  <2> QED
    BY <1>2, <1>3, <1>14, <2>1, <2>2 DEF BalancedBut
<1> QED
  BY <1>3, <1>13, <1>15, <1>16
-----------------------------------------------------------------------------
(***************************************************************************)
(* A node without a right child is unlinked.                               *)
(***************************************************************************)
\* The left child of n has n's place.
Unlinked(t, u, n) ==
  \A m \in Name :
    /\ u[m].depth = t[m].depth /\ u[m].cnt = t[m].cnt
    /\ u[m].parent = IF m = t[n].left THEN t[n].parent ELSE t[m].parent
    /\ \A q \in Sides :
         u[m][q] = IF m = t[n].parent /\ t[m][q] = n THEN t[n].left ELSE t[m][q]

\* The end of avl_del without a right child, field by field.
LEMMA UnlinkFields ==
  ASSUME NEW t \in Heap, NEW sc \in [Name -> Int], NEW T \in SUBSET Name, NEW r, NEW sub,
         SearchTree(t, sc, T, r, sub), NEW n \in T
  PROVE  Unlink(t, n) \in Heap /\ Unlinked(t, Unlink(t, n), n)
<1> DEFINE p == t[n].parent
           k == t[n].left
           v == Adopt(t, k, p)
           u == Unlink(t, n)
<1>1. Nodal(t, T, sub) /\ Familial(t, T, r, sub) /\ NULL \notin T
  BY TreeFacts
<1>2. n \in Name /\ n # NULL /\ p \in Node /\ k \in Node /\ k # n
      /\ (p # NULL => p \in T) /\ NULL \notin Name
  BY <1>1, ZSetAssumption DEF Heap, Familial, Nodal, Sides
<1>3. u = IF p = NULL THEN v ELSE [v EXCEPT ![p][SideOf(t, p, n)] = k]
  BY DEF Unlink
<1> HIDE DEF u
<1>4. /\ v \in Heap
      /\ \A m \in Name : /\ v[m].depth = t[m].depth /\ v[m].cnt = t[m].cnt
                         /\ v[m].parent = IF m = k THEN p ELSE t[m].parent
                         /\ v[m].left = t[m].left /\ v[m].right = t[m].right
  <2> HIDE DEF k, p
  <2>1. CASE k = NULL
    BY <1>2, <2>1 DEF Adopt
  <2>2. CASE k # NULL
    <3>1. v = [t EXCEPT ![k].parent = p] /\ k \in Name
      BY <1>2, <2>2 DEF Adopt, Node
    <3> HIDE DEF v
    <3> QED
      BY <1>2, <3>1 DEF Heap
  <2> QED
    BY <2>1, <2>2
<1>5. \A m \in Name, q \in Sides : v[m][q] = t[m][q]
  BY <1>4 DEF Sides
<1>6. CASE p = NULL
  <2>1. u = v /\ \A m \in Name : m # p
    BY <1>2, <1>3, <1>6
  <2> HIDE DEF v, p
  <2> QED
    BY <1>4, <1>5, <2>1 DEF Unlinked, u, p
<1>7. CASE p # NULL
  <2>1. PICK s \in Sides : t[p][s] = n
    BY <1>1, <1>2, <1>7 DEF Familial
  <2>2. SideOf(t, p, n) = s /\ \A s2 \in Sides : t[p][s2] = n => s2 = s
    BY <1>1, <1>2, <1>7, <2>1, OneSide
  <2>3. u = [v EXCEPT ![p][s] = k]
    BY <1>3, <1>7, <2>2
  <2> HIDE DEF v, p, k
  <2>4. p \in Name
    BY <1>2, <1>7
  <2>5. /\ u \in Heap
        /\ \A m \in Name : u[m].depth = v[m].depth /\ u[m].cnt = v[m].cnt /\ u[m].parent = v[m].parent
        /\ \A m \in Name, q \in Sides : u[m][q] = IF m = p /\ q = s THEN k ELSE v[m][q]
    <3>1. CASE s = "left"
      BY <1>2, <1>4, <2>3, <2>4, <3>1 DEF Heap, Sides
    <3>2. CASE s = "right"
      BY <1>2, <1>4, <2>3, <2>4, <3>2 DEF Heap, Sides
    <3> QED
      BY <3>1, <3>2 DEF Sides
  <2>6. \A m \in Name, q \in Sides : u[m][q] = IF m = p /\ t[m][q] = n THEN k ELSE t[m][q]
    BY <1>5, <2>1, <2>2, <2>5
  <2>7. \A m \in Name : /\ u[m].depth = t[m].depth /\ u[m].cnt = t[m].cnt
                        /\ u[m].parent = IF m = k THEN p ELSE t[m].parent
    BY <1>4, <2>5
  <2>8. Unlinked(t, u, n)
    BY <2>6, <2>7 DEF Unlinked, p, k
  <2> QED
    BY <2>5, <2>8 DEF u
<1> QED
  BY <1>6, <1>7

\* The tree without n: c, where avl_fix goes on, was its parent.
Without(u, sc, T, r, n, k, c) ==
  /\ c \in (T \ {n}) \cup {NULL} /\ (c = NULL <=> n = r)
  /\ BalancedBut(u, T \ {n}, c)
  /\ \E sub2 : /\ SearchTree(u, sc, T \ {n}, IF n = r THEN k ELSE r, sub2)
               /\ CountedBut(u, T \ {n}, sub2, c, 1)

\* Unlinking a node leaves a search tree for avl_fix to mend.
LEMMA UnlinkTree ==
  ASSUME NEW t \in Heap, NEW sc \in [Name -> Int], NEW T \in SUBSET Name, NEW r, NEW sub,
         SearchTree(t, sc, T, r, sub),
         BalancedBut(t, T, NULL), NEW d, CountedBut(t, T, sub, NULL, d),
         NEW n \in T, t[n].right = NULL,
         NEW u \in Heap, Unlinked(t, u, n)
  PROVE  Without(u, sc, T, r, n, t[n].left, t[n].parent)
<1> DEFINE p == t[n].parent
           k == t[n].left
           T2 == T \ {n}
           sub2 == [a \in T2 |-> sub[a] \ {n}]
           r2 == IF n = r THEN k ELSE r
<1>1. Nodal(t, T, sub) /\ Familial(t, T, r, sub) /\ NULL \notin T /\ sub \in [T -> SUBSET T]
  BY TreeFacts
<1>2. /\ \A m \in Name :
           /\ u[m].depth = t[m].depth /\ u[m].cnt = t[m].cnt
           /\ u[m].parent = IF m = k THEN p ELSE t[m].parent
      /\ \A m \in Name, q \in Sides : u[m][q] = IF m = p /\ t[m][q] = n THEN k ELSE t[m][q]
  BY DEF Unlinked
<1>3. /\ k \in T2 \cup {NULL} /\ (k # NULL => t[k].parent = n)
      /\ t[n]["left"] = k /\ t[n]["right"] = NULL
  BY <1>1 DEF Nodal, Sides
<1>4. /\ p = NULL <=> n = r
      /\ p # NULL => p \in T2 /\ p \notin sub[n] /\ n \in sub[p] /\ \E s \in Sides : t[p][s] = n
      /\ p # k \/ p = NULL
  <2>1. p = NULL <=> n = r
    BY <1>1 DEF Familial
  <2>2. p # NULL => p \in T2 /\ p \notin sub[n] /\ n \in sub[p] /\ \E s \in Sides : t[p][s] = n
    BY <1>1, <2>1 DEF Familial
  <2>3. k # NULL => k \in sub[n]
    BY <1>1, <1>3 DEF Nodal, Sides, Under
  <2> QED
    BY <2>1, <2>2, <2>3
<1>5. sub[n] = {n} \cup Under(sub, k) /\ n \notin Under(sub, k)
  <2>1. sub[n] = {n} \cup Under(sub, t[n]["left"]) \cup Under(sub, t[n]["right"])
    BY DEF SearchTree
  <2>2. Under(sub, NULL) = {}
    BY DEF Under
  <2> QED
    BY <1>1, <1>3, <2>1, <2>2 DEF Nodal, Sides
<1>6. sub2 \in [T2 -> SUBSET T2] /\ \A a \in T2 : sub2[a] = sub[a] \ {n}
  BY <1>1
<1>7. \A a \in T2 \cup {NULL} : Under(sub2, a) = Under(sub, a) \ {n}
  BY <1>1, <1>6 DEF Under
<1>8. \A a \in T, q \in Sides :
        /\ t[a][q] \in T \cup {NULL} /\ (t[a][q] # NULL => t[t[a][q]].parent = a)
        /\ (t[a][q] = n => a = p)
        /\ \A m \in Under(sub, t[a][q]) : OnSide(sc, q, m, a)
  BY <1>1 DEF SearchTree
<1>9. T \subseteq Name /\ NULL \notin T
  BY <1>1
<1>10. Under(sub, r) = T /\ r \in T \cup {NULL} /\ (r # NULL => t[r].parent = NULL)
  BY DEF SearchTree
<1> HIDE DEF p, k, sub2
<1>11. \A a \in T2, q \in Sides : Under(sub2, u[a][q]) = Under(sub, t[a][q]) \ {n}
                                 /\ u[a][q] \in T2 \cup {NULL}
  <2> SUFFICES ASSUME NEW a \in T2, NEW q \in Sides
               PROVE  Under(sub2, u[a][q]) = Under(sub, t[a][q]) \ {n}
                      /\ u[a][q] \in T2 \cup {NULL}
    OBVIOUS
  <2>1. CASE t[a][q] = n
    <3>1. u[a][q] = k
      BY <1>2, <1>8, <1>9, <2>1
    <3>2. Under(sub, t[a][q]) \ {n} = Under(sub, k) \ {n}
      BY <1>5, <1>9, <2>1 DEF Under
    <3> QED
      BY <1>3, <1>7, <3>1, <3>2
  <2>2. CASE t[a][q] # n
    BY <1>2, <1>7, <1>8, <1>9, <2>2
  <2> QED
    BY <2>1, <2>2
<1>12. r2 \in T2 \cup {NULL} /\ Under(sub2, r2) = T2 /\ (r2 # NULL => u[r2].parent = NULL)
  <2>1. CASE n = r
    <3>1. r2 = k /\ p = NULL
      BY <1>4, <2>1
    <3>2. Under(sub2, k) = T2
      <4>1. Under(sub, k) = T \ {n}
        BY <1>5, <1>9, <1>10, <2>1 DEF Under
      <4> QED
        BY <1>3, <1>7, <4>1
    <3> QED
      BY <1>2, <1>3, <1>9, <3>1, <3>2
  <2>2. CASE n # r
    <3>1. r \in T2 /\ r2 = r /\ r # k
      <4>1. r \in T
        BY <1>10 DEF Under
      <4>2. r # k
        BY <1>3, <1>9, <1>10, <4>1
      <4> QED
        BY <2>2, <4>1, <4>2
    <3> QED
      BY <1>2, <1>7, <1>9, <1>10, <3>1
  <2> QED
    BY <2>1, <2>2
<1>13. \A a \in T2 :
         sub2[a] = {a} \cup Under(sub2, u[a]["left"]) \cup Under(sub2, u[a]["right"])
  <2> SUFFICES ASSUME NEW a \in T2
               PROVE  sub2[a] = {a} \cup Under(sub2, u[a]["left"]) \cup Under(sub2, u[a]["right"])
    OBVIOUS
  <2>1. sub[a] = {a} \cup Under(sub, t[a]["left"]) \cup Under(sub, t[a]["right"])
    BY DEF SearchTree
  <2> QED
    BY <1>6, <1>11, <2>1 DEF Sides
<1>14. \A a \in T2, q \in Sides :
         /\ u[a][q] \in T2 \cup {NULL}
         /\ u[a][q] # NULL => u[u[a][q]].parent = a
         /\ \A m \in Under(sub2, u[a][q]) : OnSide(sc, q, m, a)
  <2> SUFFICES ASSUME NEW a \in T2, NEW q \in Sides
               PROVE  /\ u[a][q] # NULL => u[u[a][q]].parent = a
                      /\ \A m \in Under(sub2, u[a][q]) : OnSide(sc, q, m, a)
    BY <1>11
  <2>1. \A m \in Under(sub2, u[a][q]) : OnSide(sc, q, m, a)
    <3>1. Under(sub2, u[a][q]) = Under(sub, t[a][q]) \ {n}
      BY <1>11
    <3>2. \A m \in Under(sub, t[a][q]) : OnSide(sc, q, m, a)
      BY <1>8
    <3> QED
      BY <3>1, <3>2
  <2>2. u[a][q] # NULL => u[u[a][q]].parent = a
    <3>1. CASE t[a][q] = n
      BY <1>2, <1>3, <1>8, <1>9, <3>1
    <3>2. CASE t[a][q] # n
      <4>1. u[a][q] = t[a][q]
        BY <1>2, <1>9, <3>2
      <4>2. t[a][q] = k => k = NULL
        BY <1>3, <1>8
      <4> QED
        BY <1>2, <1>8, <1>9, <4>1, <4>2
    <3> QED
      BY <3>1, <3>2
  <2> QED
    BY <2>1, <2>2
<1>15. \A a \in T2 \ {r2} : u[a].parent \in T2 /\ \E q \in Sides : u[u[a].parent][q] = a
  <2> SUFFICES ASSUME NEW a \in T2 \ {r2}
               PROVE  u[a].parent \in T2 /\ \E q \in Sides : u[u[a].parent][q] = a
    OBVIOUS
  <2>1. CASE a = k
    <3>1. n # r /\ p # NULL
      BY <1>4, <2>1
    <3>2. PICK q \in Sides : t[p][q] = n
      BY <1>4, <3>1
    <3>3. u[p][q] = k /\ p \in T2 /\ u[k].parent = p
      BY <1>2, <1>4, <1>9, <2>1, <3>1, <3>2
    <3> QED
      BY <2>1, <3>3
  <2>2. CASE a # k
    <3>1. a # r
      BY <1>2, <1>4, <1>9, <2>2, <1>10, <1>3
    <3> DEFINE b == t[a].parent
    <3>2. b \in T /\ \E q \in Sides : t[b][q] = a
      BY <1>1, <3>1 DEF Familial
    <3>3. u[a].parent = b
      BY <1>2, <1>9, <2>2
    <3> HIDE DEF b
    <3>4. PICK q \in Sides : t[b][q] = a
      BY <3>2
    <3>5. b # n
      BY <1>3, <1>9, <2>2, <3>4 DEF Sides
    <3>6. u[b][q] = a
      BY <1>2, <1>9, <3>2, <3>4
    <3> QED
      BY <3>2, <3>3, <3>5, <3>6
  <2> QED
    BY <2>1, <2>2
<1>16. SearchTree(u, sc, T2, r2, sub2)
  BY <1>6, <1>12, <1>13, <1>14, <1>15 DEF SearchTree
<1>17. \A a \in T : /\ 1 <= t[a].depth /\ t[a].depth <= t[a].cnt /\ Poised(t, NULL, 0, a)
                    /\ t[a].cnt = Cardinality(sub[a])
  BY <1>1, AtRestTree
<1>18. CountedBut(u, T2, sub2, p, 1)
  <2> SUFFICES ASSUME NEW a \in T2 \ {p}
               PROVE  u[a].cnt = Cardinality(sub2[a]) + (IF p \in sub2[a] THEN 1 ELSE 0)
    BY DEF CountedBut
  <2>1. IsFiniteSet(sub[a]) /\ Cardinality(sub[a]) \in Nat
    BY <1>1, SubtreeBound
  <2>2. Cardinality(sub[a] \ {n}) = IF n \in sub[a] THEN Cardinality(sub[a]) - 1 ELSE Cardinality(sub[a])
    BY <2>1, FS_RemoveElement
  <2>3. n \in sub[a] <=> p \in sub2[a]
    <3>1. n \in sub[a] <=> n # r /\ p \in sub[a]
      BY <1>1 DEF Familial, p
    <3>2. sub[a] \subseteq T
      BY <1>1
    <3> QED
      BY <1>4, <1>6, <1>9, <3>1, <3>2
  <2>4. u[a].cnt = Cardinality(sub[a]) /\ sub2[a] = sub[a] \ {n}
    BY <1>2, <1>6, <1>9, <1>17
  <2> QED
    BY <2>1, <2>2, <2>3, <2>4
<1> DEFINE e2 == IF p = NULL THEN 0 ELSE u[p].depth
<1>19. \A m : Depth(u, p, e2, m) = avl_depth(u, m)
  BY <1>4 DEF Depth, avl_depth
<1>20. \A m \in T \cup {NULL} : avl_depth(u, m) = avl_depth(t, m) /\ Depth(t, NULL, 0, m) = avl_depth(t, m)
                              /\ avl_depth(t, m) \in Nat
  BY <1>2, <1>9 DEF avl_depth, Depth, Heap
<1>21. \A a \in T2 \ {p} : Poised(u, p, e2, a)
  <2> SUFFICES ASSUME NEW a \in T2 \ {p} PROVE Poised(u, p, e2, a)
    OBVIOUS
  <2>1. \A q \in Sides : u[a][q] = t[a][q] /\ t[a][q] \in T \cup {NULL}
    BY <1>2, <1>8, <1>9
  <2>2. u[a].left = t[a].left /\ u[a].right = t[a].right
        /\ t[a].left \in T \cup {NULL} /\ t[a].right \in T \cup {NULL}
    BY <2>1 DEF Sides
  <2>3. Poised(t, NULL, 0, a) /\ u[a].depth = t[a].depth
    BY <1>2, <1>9, <1>17
  <2> HIDE DEF e2
  <2> QED
    BY <1>19, <1>20, <2>2, <2>3 DEF Poised
<1>22. p # NULL => Stale(u, p)
  <2> SUFFICES ASSUME p # NULL PROVE Stale(u, p)
    OBVIOUS
  <2>1. p \in T2 /\ p \in Name /\ n \in Name
    BY <1>4, <1>9
  <2>2. Near(avl_depth(t, k), t[n].depth)
    <3>1. /\ t[n].depth = 1 + Larger(avl_depth(t, k), avl_depth(t, NULL))
          /\ avl_depth(t, k) \in Nat /\ avl_depth(t, NULL) = 0
      BY <1>3, <1>17, <1>20 DEF Poised, k, avl_depth
    <3> QED
      BY <3>1 DEF Near, Larger
  <2> DEFINE l == avl_depth(t, t[p].left)
             h == avl_depth(t, t[p].right)
  <2>3. t[p].left \in T \cup {NULL} /\ t[p].right \in T \cup {NULL}
    BY <1>8, <2>1 DEF Sides
  <2>4. l \in Nat /\ h \in Nat /\ t[p].depth = 1 + Larger(l, h) /\ Near(l, h)
    BY <1>17, <1>20, <2>1, <2>3 DEF Poised
  <2>5. PICK s \in Sides : t[p][s] = n
    BY <1>4
  <2>6. \A s2 \in Sides : t[p][s2] = n => s2 = s
    BY <1>1, <2>1, <2>5, OneSide
  <2>7. \A q \in Sides : u[p][q] = IF q = s THEN k ELSE t[p][q]
    BY <1>2, <2>1, <2>5, <2>6
  <2>8. avl_depth(t, n) = t[n].depth /\ u[p].depth = t[p].depth
    BY <1>2, <1>9, <2>1 DEF avl_depth
  <2>9. CASE s = "left"
    <3>1. u[p].left = k /\ u[p].right = t[p].right /\ t[p].left = n
      BY <2>5, <2>7, <2>9 DEF Sides
    <3>2. h = avl_depth(u, u[p].right) /\ Near(avl_depth(u, u[p].left), l)
      BY <1>3, <1>20, <2>2, <2>3, <2>8, <3>1
    <3> HIDE DEF l, h
    <3> QED
      BY <2>4, <2>8, <3>2 DEF Stale
  <2>10. CASE s = "right"
    <3>1. u[p].right = k /\ u[p].left = t[p].left /\ t[p].right = n
      BY <2>5, <2>7, <2>10 DEF Sides
    <3>2. l = avl_depth(u, u[p].left) /\ Near(avl_depth(u, u[p].right), h)
      BY <1>3, <1>20, <2>2, <2>3, <2>8, <3>1
    <3> HIDE DEF l, h
    <3> QED
      BY <2>4, <2>8, <3>2 DEF Stale
  <2> QED
    BY <2>9, <2>10 DEF Sides
<1>23. e2 \in Nat /\ Fixable(u, p, e2)
  BY <1>4, <1>9, <1>22 DEF Heap, Fixable
<1> HIDE DEF e2
<1>24. BalancedBut(u, T2, p)
  BY <1>2, <1>9, <1>17, <1>21, <1>23 DEF BalancedBut
<1>25. p \in T2 \cup {NULL}
  BY <1>4
<1> QED
  BY <1>4, <1>16, <1>18, <1>24, <1>25 DEF p, k, Without
-----------------------------------------------------------------------------
(***************************************************************************)
(* A node outside the tree takes the place of one in it.                   *)
(***************************************************************************)
\* The node m, when v has taken the place of n.
As(n, v, m) == IF m = n THEN v ELSE m

\* The tree T of t is in u, with v for n.
Renamed(t, u, T, n, v) ==
  \A m \in T :
    LET k == As(n, v, m)
    IN /\ u[k].depth = t[m].depth /\ u[k].cnt = t[m].cnt
       /\ u[k].parent = As(n, v, t[m].parent)
       /\ \A q \in Sides : u[k][q] = As(n, v, t[m][q])

\* The end of avl_del with a victim, field by field.
LEMMA TakePlaceFields ==
  ASSUME NEW t \in Heap, NEW sc \in [Name -> Int], NEW T \in SUBSET Name, NEW r, NEW sub,
         SearchTree(t, sc, T, r, sub), NEW n \in T, NEW v \in Name \ T
  PROVE  /\ TakePlace(t, n, v) \in Heap /\ Renamed(t, TakePlace(t, n, v), T, n, v)
         /\ \A m \in Name \ (T \cup {v}) : /\ TakePlace(t, n, v)[m].depth = t[m].depth
                                          /\ TakePlace(t, n, v)[m].cnt = t[m].cnt
         /\ TakePlace(t, n, v)[n].depth = t[n].depth /\ TakePlace(t, n, v)[n].cnt = t[n].cnt
<1> DEFINE p == t[n].parent
           l == t[n].left
           h == t[n].right
           a == [t EXCEPT ![v] = t[n]]
           b == Adopt(a, l, v)
           c == Adopt(b, h, v)
           u == TakePlace(t, n, v)
<1>1. Nodal(t, T, sub) /\ Familial(t, T, r, sub) /\ NULL \notin T /\ NULL \notin Name
  BY TreeFacts, ZSetAssumption
<1>2. /\ n \in Name /\ n # NULL /\ v # NULL /\ v \in Node /\ v # n /\ v \in Name
      /\ l \in T \cup {NULL} /\ h \in T \cup {NULL} /\ l # n /\ h # n /\ l # v /\ h # v
      /\ p \in T \cup {NULL} /\ p # n /\ p # v /\ t[n]["left"] = l /\ t[n]["right"] = h
  BY <1>1 DEF Familial, Nodal, Sides, Node
<1>3. u = IF p = NULL THEN c ELSE [c EXCEPT ![p][SideOf(c, p, n)] = v]
  BY DEF TakePlace
<1>4. \A m \in T : (t[m].parent = n <=> m \in {l, h}) /\ (p # NULL => p # l /\ p # h)
  <2>1. \A m \in T : m \in {l, h} => t[m].parent = n
    BY <1>1, <1>2 DEF Nodal, Sides
  <2>2. \A m \in T : t[m].parent = n => m \in {l, h}
    <3> SUFFICES ASSUME NEW m \in T, t[m].parent = n PROVE m \in {l, h}
      OBVIOUS
    <3>1. m # r
      BY <1>1, <1>2 DEF Familial
    <3> QED
      BY <1>1, <1>2, <3>1 DEF Familial, Sides
  <2>3. p # NULL => p # l /\ p # h
    <3>1. p # NULL => p \in T /\ p \notin sub[n]
      BY <1>1 DEF Familial
    <3>2. \A m \in {l, h} : m # NULL => m \in sub[n]
      BY <1>1, <1>2 DEF Nodal, Sides, Under
    <3> QED
      BY <3>1, <3>2
  <2> QED
    BY <2>1, <2>2, <2>3
<1>5. a \in Heap /\ a[v] = t[n] /\ \A m \in Name \ {v} : a[m] = t[m]
  BY <1>2 DEF Heap
<1> HIDE DEF a, u
<1>6. /\ b \in Heap
      /\ \A m \in Name : /\ b[m].depth = a[m].depth /\ b[m].cnt = a[m].cnt
                         /\ b[m].left = a[m].left /\ b[m].right = a[m].right
                         /\ b[m].parent = IF m = l THEN v ELSE a[m].parent
  <2> HIDE DEF l
  <2>1. CASE l = NULL
    BY <1>1, <1>5, <2>1 DEF Adopt
  <2>2. CASE l # NULL
    <3>1. b = [a EXCEPT ![l].parent = v] /\ l \in Name
      BY <1>2, <2>2 DEF Adopt
    <3> HIDE DEF b
    <3> QED
      BY <1>2, <1>5, <3>1 DEF Heap
  <2> QED
    BY <2>1, <2>2
<1> HIDE DEF b
<1>7. /\ c \in Heap
      /\ \A m \in Name : /\ c[m].depth = b[m].depth /\ c[m].cnt = b[m].cnt
                         /\ c[m].left = b[m].left /\ c[m].right = b[m].right
                         /\ c[m].parent = IF m = h THEN v ELSE b[m].parent
  <2> HIDE DEF h
  <2>1. CASE h = NULL
    BY <1>1, <1>6, <2>1 DEF Adopt
  <2>2. CASE h # NULL
    <3>1. c = [b EXCEPT ![h].parent = v] /\ h \in Name
      BY <1>2, <2>2 DEF Adopt
    <3> HIDE DEF c
    <3> QED
      BY <1>2, <1>6, <3>1 DEF Heap
  <2> QED
    BY <2>1, <2>2
<1> HIDE DEF c
<1>8. \A m \in Name : /\ c[m].depth = a[m].depth /\ c[m].cnt = a[m].cnt
                      /\ c[m].parent = IF m \in {l, h} THEN v ELSE a[m].parent
                      /\ \A q \in Sides : c[m][q] = a[m][q]
  BY <1>6, <1>7 DEF Sides
<1>9. /\ u \in Heap
      /\ \A m \in Name : u[m].depth = c[m].depth /\ u[m].cnt = c[m].cnt /\ u[m].parent = c[m].parent
      /\ \A m \in Name, q \in Sides : u[m][q] = IF m = p /\ c[m][q] = n THEN v ELSE c[m][q]
  <2>1. CASE p = NULL
    <3>1. \A m \in Name : m # p
      BY <1>1, <2>1
    <3> QED
      BY <1>3, <1>7, <2>1, <3>1
  <2>2. CASE p # NULL
    <3>1. p \in Name /\ p \in T
      BY <1>2, <2>2
    <3>2. PICK s \in Sides : t[p][s] = n
      BY <1>1, <2>2 DEF Familial
    <3>3. \A q \in Sides : c[p][q] = t[p][q]
      BY <1>2, <1>5, <1>8, <3>1
    <3>4. SideOf(t, p, n) = s /\ \A q \in Sides : t[p][q] = n => q = s
      BY <1>1, <3>1, <3>2, OneSide
    <3>5. SideOf(c, p, n) = s
      <4>1. c[p]["left"] = t[p]["left"]
        BY <3>3 DEF Sides
      <4> QED
        BY <3>4, <4>1 DEF SideOf
    <3>6. u = [c EXCEPT ![p][s] = v]
      BY <1>3, <2>2, <3>5
    <3> HIDE DEF p
    <3>7. /\ u \in Heap
          /\ \A m \in Name : u[m].depth = c[m].depth /\ u[m].cnt = c[m].cnt /\ u[m].parent = c[m].parent
          /\ \A m \in Name, q \in Sides : u[m][q] = IF m = p /\ q = s THEN v ELSE c[m][q]
      <4>1. CASE s = "left"
        BY <1>2, <1>7, <3>1, <3>6, <4>1 DEF Heap, Sides
      <4>2. CASE s = "right"
        BY <1>2, <1>7, <3>1, <3>6, <4>2 DEF Heap, Sides
      <4> QED
        BY <4>1, <4>2 DEF Sides
    <3> QED
      BY <3>2, <3>3, <3>4, <3>7
  <2> QED
    BY <2>1, <2>2
<1>10. Renamed(t, u, T, n, v)
  <2>1. ASSUME NEW m \in T, m # n
        PROVE  /\ u[m].depth = t[m].depth /\ u[m].cnt = t[m].cnt
               /\ u[m].parent = As(n, v, t[m].parent)
               /\ \A q \in Sides : u[m][q] = As(n, v, t[m][q])
    <3>1. m \in Name \ {v} /\ a[m] = t[m]
      BY <1>5
    <3>2. u[m].parent = As(n, v, t[m].parent)
      BY <1>4, <1>8, <1>9, <3>1 DEF As
    <3>3. \A q \in Sides : t[m][q] = n => m = p
      BY <1>1 DEF Familial
    <3>4. \A q \in Sides : u[m][q] = As(n, v, t[m][q])
      BY <1>8, <1>9, <3>1, <3>3 DEF As
    <3> QED
      BY <1>8, <1>9, <3>1, <3>2, <3>4
  <2>2. /\ u[v].depth = t[n].depth /\ u[v].cnt = t[n].cnt
        /\ u[v].parent = As(n, v, t[n].parent)
        /\ \A q \in Sides : u[v][q] = As(n, v, t[n][q])
    <3>1. \A q \in Sides : t[n][q] # n
      BY <1>2 DEF Sides
    <3>2. u[v].parent = p
      BY <1>2, <1>5, <1>8, <1>9
    <3>3. \A q \in Sides : u[v][q] = t[n][q]
      BY <1>2, <1>5, <1>8, <1>9
    <3> QED
      BY <1>2, <1>5, <1>8, <1>9, <3>1, <3>2, <3>3 DEF As
  <2> QED
    BY <2>1, <2>2 DEF Renamed, As
<1>11. \A m \in Name \ {v} : u[m].depth = t[m].depth /\ u[m].cnt = t[m].cnt
  BY <1>5, <1>8, <1>9
<1> QED
  BY <1>2, <1>9, <1>10, <1>11 DEF u

\* The names of S, with v for n.
Swap(n, v, S) == {As(n, v, m) : m \in S}

\* A set has as many nodes after one has taken the place of another.
LEMMA SwapSize ==
  ASSUME NEW T \in SUBSET Name, NEW S \in SUBSET T, NEW n \in T, NEW v \in Name \ T
  PROVE  IsFiniteSet(Swap(n, v, S)) /\ Cardinality(Swap(n, v, S)) = Cardinality(S)
<1>1. IsFiniteSet(S) /\ Cardinality(S) \in Nat
  BY ZSetAssumption, FS_Subset, FS_CardinalityType
<1>2. CASE n \notin S
  <2>1. Swap(n, v, S) = S
    BY <1>2 DEF Swap, As
  <2> QED
    BY <1>1, <2>1
<1>3. CASE n \in S
  <2>1. Swap(n, v, S) = (S \ {n}) \cup {v}
    BY <1>3 DEF Swap, As
  <2>2. IsFiniteSet(S \ {n}) /\ Cardinality(S \ {n}) = Cardinality(S) - 1
    BY <1>1, <1>3, FS_RemoveElement
  <2>3. IsFiniteSet((S \ {n}) \cup {v}) /\ Cardinality((S \ {n}) \cup {v}) = Cardinality(S \ {n}) + 1
    BY <2>2, FS_AddElement
  <2> QED
    BY <1>1, <2>1, <2>2, <2>3
<1> QED
  BY <1>2, <1>3

\* The victim in the place of the node it comes next after.
LEMMA RenamedTree ==
  ASSUME NEW t \in Heap, NEW sc \in [Name -> Int], NEW T \in SUBSET Name, NEW r, NEW sub,
         SearchTree(t, sc, T, r, sub),
         BalancedBut(t, T, NULL), NEW d, CountedBut(t, T, sub, NULL, d),
         NEW n \in T, NEW v \in Name \ T,
         \A k \in T \ {n} : /\ Less(sc, k, n) => Less(sc, k, v)
                            /\ Less(sc, n, k) => Less(sc, v, k),
         NEW u \in Heap, Renamed(t, u, T, n, v)
  PROVE  /\ BalancedBut(u, (T \ {n}) \cup {v}, NULL)
         /\ \E sub2 : /\ SearchTree(u, sc, (T \ {n}) \cup {v}, As(n, v, r), sub2)
                      /\ CountedBut(u, (T \ {n}) \cup {v}, sub2, NULL, d)
<1> DEFINE T2 == (T \ {n}) \cup {v}
           back(k) == IF k = v THEN n ELSE k
           sub2 == [k \in T2 |-> Swap(n, v, sub[back(k)])]
           f(m) == As(n, v, m)
<1>1. Nodal(t, T, sub) /\ Familial(t, T, r, sub) /\ NULL \notin T /\ sub \in [T -> SUBSET T]
      /\ NULL \notin Name
  BY TreeFacts, ZSetAssumption
<1>2. v # n /\ v \notin T /\ v # NULL /\ n # NULL /\ n \in Name /\ v \in Name /\ f(NULL) = NULL
  BY <1>1 DEF As
<1>3. /\ \A m \in T : f(m) \in T2 /\ back(f(m)) = m
      /\ \A k \in T2 : back(k) \in T /\ f(back(k)) = k
  BY <1>2 DEF As
<1>4. \A S \in SUBSET T : Swap(n, v, S) \in SUBSET T2
  BY <1>3 DEF Swap
<1>5. sub2 \in [T2 -> SUBSET T2]
  BY <1>1, <1>3, <1>4
<1>6. \A m \in T : sub2[f(m)] = Swap(n, v, sub[m])
  BY <1>3
<1>7. \A m \in T \cup {NULL} : Under(sub2, f(m)) = Swap(n, v, Under(sub, m))
                             /\ (m # NULL <=> f(m) # NULL)
  <2>1. Swap(n, v, {}) = {}
    BY DEF Swap
  <2>2. \A m \in T : f(m) # NULL /\ m # NULL
    BY <1>1, <1>2 DEF As
  <2> HIDE DEF sub2
  <2> QED
    BY <1>2, <1>6, <2>1, <2>2 DEF Under
<1> HIDE DEF sub2
<1>8. \A m \in T : /\ u[f(m)].depth = t[m].depth /\ u[f(m)].cnt = t[m].cnt
                   /\ u[f(m)].parent = f(t[m].parent)
                   /\ \A q \in Sides : u[f(m)][q] = f(t[m][q])
  BY DEF Renamed
<1>9. \A k \in T2 : \E m \in T : k = f(m)
  BY <1>3
<1>10. \A m \in T, q \in Sides : /\ t[m][q] \in T \cup {NULL} /\ t[m][q] # m
                                 /\ t[m][q] # NULL => t[t[m][q]].parent = m
                                 /\ m \notin Under(sub, t[m][q])
                                 /\ \A k \in Under(sub, t[m][q]) : k \in T /\ OnSide(sc, q, k, m)
  BY <1>1 DEF SearchTree, Nodal
<1>11. \A m, k \in T, q \in Sides : m # k /\ OnSide(sc, q, k, m) => OnSide(sc, q, f(k), f(m))
  BY <1>2 DEF OnSide, As
<1> HIDE DEF f, T2, back
<1>12. f(r) \in T2 \cup {NULL} /\ Under(sub2, f(r)) = T2 /\ (f(r) # NULL => u[f(r)].parent = NULL)
  <2>1. r \in T \cup {NULL} /\ Under(sub, r) = T /\ (r # NULL => t[r].parent = NULL)
    BY DEF SearchTree
  <2>2. Under(sub2, f(r)) = T2
    <3>1. Under(sub2, f(r)) = {f(m) : m \in T}
      BY <1>7, <2>1 DEF Swap, f
    <3> QED
      BY <1>3, <1>9, <3>1
  <2> QED
    BY <1>2, <1>3, <1>7, <1>8, <2>1, <2>2
<1>13. \A k \in T2 : sub2[k] = {k} \cup Under(sub2, u[k]["left"]) \cup Under(sub2, u[k]["right"])
  <2> SUFFICES ASSUME NEW m \in T
               PROVE  sub2[f(m)] = {f(m)} \cup Under(sub2, u[f(m)]["left"])
                                          \cup Under(sub2, u[f(m)]["right"])
    BY <1>9
  <2>1. sub[m] = {m} \cup Under(sub, t[m]["left"]) \cup Under(sub, t[m]["right"])
    BY DEF SearchTree
  <2>2. \A q \in Sides : Under(sub2, u[f(m)][q]) = Swap(n, v, Under(sub, t[m][q]))
    BY <1>7, <1>8, <1>10
  <2>3. \A A, B : Swap(n, v, {m} \cup A \cup B) = {f(m)} \cup Swap(n, v, A) \cup Swap(n, v, B)
    BY DEF Swap, f
  <2> QED
    BY <1>6, <2>1, <2>2, <2>3 DEF Sides
<1>14. \A k \in T2, q \in Sides :
         /\ u[k][q] \in T2 \cup {NULL}
         /\ u[k][q] # NULL => u[u[k][q]].parent = k
         /\ \A j \in Under(sub2, u[k][q]) : OnSide(sc, q, j, k)
  <2> SUFFICES ASSUME NEW m \in T, NEW q \in Sides
               PROVE  /\ u[f(m)][q] \in T2 \cup {NULL}
                      /\ u[f(m)][q] # NULL => u[u[f(m)][q]].parent = f(m)
                      /\ \A j \in Under(sub2, u[f(m)][q]) : OnSide(sc, q, j, f(m))
    BY <1>9
  <2>1. u[f(m)][q] = f(t[m][q]) /\ t[m][q] \in T \cup {NULL}
        /\ (t[m][q] # NULL => t[t[m][q]].parent = m)
    BY <1>8, <1>10
  <2>2. u[f(m)][q] \in T2 \cup {NULL}
    BY <1>2, <1>3, <2>1
  <2>3. u[f(m)][q] # NULL => u[u[f(m)][q]].parent = f(m)
    BY <1>7, <1>8, <2>1
  <2>4. ASSUME NEW j \in Under(sub2, u[f(m)][q]) PROVE OnSide(sc, q, j, f(m))
    <3>1. PICK k \in Under(sub, t[m][q]) : j = f(k)
      BY <1>7, <2>1, <2>4 DEF Swap, f
    <3>2. k \in T /\ OnSide(sc, q, k, m) /\ m # k
      BY <1>10
    <3> QED
      BY <1>11, <3>1, <3>2
  <2> QED
    BY <2>2, <2>3, <2>4
<1>15. \A k \in T2 \ {f(r)} : u[k].parent \in T2 /\ \E q \in Sides : u[u[k].parent][q] = k
  <2> SUFFICES ASSUME NEW m \in T, f(m) # f(r)
               PROVE  u[f(m)].parent \in T2 /\ \E q \in Sides : u[u[f(m)].parent][q] = f(m)
    BY <1>9
  <2>1. m # r
    OBVIOUS
  <2> DEFINE p == t[m].parent
  <2>2. p \in T /\ \E q \in Sides : t[p][q] = m
    BY <1>1, <2>1 DEF Familial
  <2>3. u[f(m)].parent = f(p)
    BY <1>8
  <2> HIDE DEF p
  <2> QED
    BY <1>3, <1>8, <2>2, <2>3
<1>16. SearchTree(u, sc, T2, f(r), sub2)
  BY <1>5, <1>12, <1>13, <1>14, <1>15 DEF SearchTree
<1>17. \A m \in T : /\ 1 <= t[m].depth /\ t[m].depth <= t[m].cnt /\ Poised(t, NULL, 0, m)
                    /\ t[m].cnt = Cardinality(sub[m])
  BY <1>1, AtRestTree
<1>18. T2 \in SUBSET Name
  BY <1>2 DEF T2
<1>19. \A k \in T2 : 1 <= u[k].depth /\ u[k].depth <= u[k].cnt
  BY <1>8, <1>9, <1>17
<1>20. \A k \in T2 : u[k].cnt = Cardinality(sub2[k])
  <2> SUFFICES ASSUME NEW m \in T PROVE u[f(m)].cnt = Cardinality(sub2[f(m)])
    BY <1>9
  <2>1. Cardinality(Swap(n, v, sub[m])) = Cardinality(sub[m])
    BY <1>1, SwapSize
  <2> QED
    BY <1>6, <1>8, <1>17, <2>1
<1>21. \A k \in T2 : Poised(u, NULL, 0, k)
  <2> SUFFICES ASSUME NEW m \in T PROVE Poised(u, NULL, 0, f(m))
    BY <1>9
  <2>1. \A k \in T \cup {NULL} : Depth(u, NULL, 0, f(k)) = Depth(t, NULL, 0, k)
    BY <1>2, <1>7, <1>8 DEF Depth, avl_depth
  <2>2. \A q \in Sides : Depth(u, NULL, 0, u[f(m)][q]) = Depth(t, NULL, 0, t[m][q])
    BY <1>8, <1>10, <2>1
  <2>3. /\ Depth(u, NULL, 0, u[f(m)].left) = Depth(t, NULL, 0, t[m].left)
        /\ Depth(u, NULL, 0, u[f(m)].right) = Depth(t, NULL, 0, t[m].right)
        /\ u[f(m)].depth = t[m].depth
    BY <1>8, <2>2 DEF Sides
  <2> QED
    BY <1>17, <2>3 DEF Poised
<1>22. BalancedBut(u, T2, NULL) /\ CountedBut(u, T2, sub2, NULL, d)
  BY <1>5, <1>18, <1>19, <1>20, <1>21, AtRestTree
<1> QED
  BY <1>16, <1>22 DEF f, T2
-----------------------------------------------------------------------------
\* The nodes of T and their scores are the same.
Unmoved(t, u, sc, sc2, T) == \A m \in T : u[m] = t[m] /\ sc2[m] = sc[m]

\* What changes outside the tree does not change the tree.
LEMMA SameTree ==
  ASSUME NEW t, NEW u, NEW sc, NEW sc2, NEW T \in SUBSET Name, NEW r, NEW sub,
         NEW d, NEW d2,
         SearchTree(t, sc, T, r, sub),
         BalancedBut(t, T, NULL), CountedBut(t, T, sub, NULL, d),
         Unmoved(t, u, sc, sc2, T)
  PROVE  /\ SearchTree(u, sc2, T, r, sub)
         /\ BalancedBut(u, T, NULL) /\ CountedBut(u, T, sub, NULL, d2)
<1> USE DEF Unmoved
<1>1. sub \in [T -> SUBSET T] /\ NULL \notin T /\ T \in SUBSET Name
  BY ZSetAssumption DEF SearchTree
<1>2. \A n \in T : t[n].left \in T \cup {NULL} /\ t[n].right \in T \cup {NULL}
  <2>1. \A n \in T, s \in Sides : t[n][s] \in T \cup {NULL}
    BY DEF SearchTree
  <2> QED
    BY <2>1 DEF Sides
<1>3. \A n \in T : avl_depth(u, n) = avl_depth(t, n)
  BY DEF avl_depth
<1>4. SearchTree(u, sc2, T, r, sub)
  <2>1. \A n \in T, s \in Sides : \A m \in Under(sub, t[n][s]) :
          OnSide(sc, s, m, n) <=> OnSide(sc2, s, m, n)
    <3> SUFFICES ASSUME NEW n \in T, NEW s \in Sides, NEW m \in Under(sub, t[n][s])
                 PROVE  OnSide(sc, s, m, n) <=> OnSide(sc2, s, m, n)
      OBVIOUS
    <3>1. m \in T
      BY <1>1, <1>2 DEF SearchTree, Under, Sides
    <3> QED
      BY <3>1 DEF OnSide, Less
  <2>2. r # NULL => u[r].parent = NULL
    BY <1>1 DEF SearchTree
  <2>3. \A n \in T :
          sub[n] = {n} \cup Under(sub, u[n]["left"]) \cup Under(sub, u[n]["right"])
    BY DEF SearchTree
  <2>4. ASSUME NEW n \in T, NEW s \in Sides
        PROVE  /\ u[n][s] \in T \cup {NULL}
               /\ u[n][s] # NULL => u[u[n][s]].parent = n
               /\ \A m \in Under(sub, u[n][s]) : OnSide(sc2, s, m, n)
    <3>1. /\ t[n][s] \in T \cup {NULL}
          /\ t[n][s] # NULL => t[t[n][s]].parent = n
          /\ \A m \in Under(sub, t[n][s]) : OnSide(sc, s, m, n)
      BY DEF SearchTree
    <3>2. u[n] = t[n] /\ (t[n][s] # NULL => u[t[n][s]] = t[t[n][s]])
      BY <3>1
    <3> QED
      BY <2>1, <3>1, <3>2
  <2>5. \A n \in T \ {r} : u[n].parent \in T /\ \E s \in Sides : u[u[n].parent][s] = n
    BY DEF SearchTree
  <2> QED
    BY <2>2, <2>3, <2>4, <2>5 DEF SearchTree
<1>5. BalancedBut(u, T, NULL)
  <2>1. PICK e \in Nat : Fixable(t, NULL, e) /\ \A n \in T \ {NULL} : Poised(t, NULL, e, n)
    BY DEF BalancedBut
  <2>2. \A n \in T \cup {NULL} : Depth(u, NULL, e, n) = Depth(t, NULL, e, n)
    BY <1>3 DEF Depth
  <2>3. \A n \in T : Poised(u, NULL, e, n)
    BY <1>1, <1>2, <2>1, <2>2 DEF Poised
  <2>4. Fixable(u, NULL, e)
    BY <2>1 DEF Fixable
  <2>5. \A n \in T : 1 <= u[n].depth /\ u[n].depth <= u[n].cnt
    BY <1>1 DEF BalancedBut
  <2> QED
    BY <2>3, <2>4, <2>5 DEF BalancedBut
<1>6. CountedBut(u, T, sub, NULL, d2)
  BY <1>1 DEF CountedBut
<1> QED
  BY <1>4, <1>5, <1>6

\* The first leaf.
LEMMA FirstLeaf ==
  ASSUME NEW t, NEW sc, NEW k \in Name, t[k] = avl_init
  PROVE  /\ BalancedBut(t, {k}, k)
         /\ \E sub2 : SearchTree(t, sc, {k}, k, sub2) /\ CountedBut(t, {k}, sub2, k, -1)
<1> DEFINE sub == [n \in {k} |-> {k}]
<1>1. k # NULL /\ t[k].left = NULL /\ t[k].right = NULL /\ t[k].parent = NULL
      /\ \A s \in Sides : t[k][s] = NULL
  BY ZSetAssumption DEF avl_init, Sides
<1>2. Fixable(t, k, 0)
  BY <1>1 DEF Fixable
<1>3. SearchTree(t, sc, {k}, k, sub)
  BY <1>1 DEF SearchTree, Under, Sides
<1>4. BalancedBut(t, {k}, k)
  <2>1. {k} \ {k} = {}
    OBVIOUS
  <2> QED
    BY <1>2, <2>1 DEF BalancedBut
<1>5. CountedBut(t, {k}, sub, k, -1)
  BY DEF CountedBut
<1> QED
  BY <1>3, <1>4, <1>5

\* The bound on depth and cnt that TypeOK states.
Bounded(t, S) ==
  \A n \in S : t[n].depth \in 0 .. Cardinality(Name) /\ t[n].cnt \in 0 .. Cardinality(Name)

\* Depths and counts are no more than the number of names.
LEMMA TreeIsBounded ==
  ASSUME NEW t \in Heap, NEW sc \in [Name -> Int], NEW T \in SUBSET Name, NEW r, NEW sub,
         NEW c, NEW d \in {-1, 1}, SearchTree(t, sc, T, r, sub),
         BalancedBut(t, T, c), CountedBut(t, T, sub, c, d), d = 1 /\ c \in T => T # Name
  PROVE  Bounded(t, T \ {c})
<1>1. Nodal(t, T, sub) /\ sub \in [T -> SUBSET T]
  <2>1. sub \in [T -> SUBSET T]
    BY DEF SearchTree
  <2>2. Nodal(t, T, sub)
    BY TreeIsNodal
  <2> QED
    BY <2>1, <2>2
<1>2. IsFiniteSet(Name) /\ IsFiniteSet(T) /\ Cardinality(Name) \in Nat /\ Cardinality(T) \in Nat
      /\ Cardinality(T) <= Cardinality(Name)
  BY ZSetAssumption, FS_Subset, FS_CardinalityType
<1>3. d = 1 /\ c \in T => Cardinality(T) < Cardinality(Name)
  BY <1>2, FS_Subset
<1>4. ASSUME NEW n \in T \ {c}
      PROVE  t[n].depth \in 0 .. Cardinality(Name) /\ t[n].cnt \in 0 .. Cardinality(Name)
  <2>1. Cardinality(sub[n]) \in Nat /\ Cardinality(sub[n]) <= Cardinality(T)
    BY <1>1, <1>2, FS_Subset, FS_CardinalityType
  <2>2. t[n].cnt = Cardinality(sub[n]) + (IF c \in sub[n] THEN d ELSE 0)
    BY DEF CountedBut
  <2>3. c \in sub[n] => c \in T
    BY <1>1
  <2>4. 1 <= t[n].depth /\ t[n].depth <= t[n].cnt /\ t[n].depth \in Nat /\ t[n].cnt \in Nat
    BY DEF BalancedBut, Heap
  <2> QED
    BY <1>2, <1>3, <2>1, <2>2, <2>3, <2>4
<1> QED
  BY <1>4 DEF Bounded

\* The heap that TypeOK states.
LEMMA BoundedHeap ==
  ASSUME NEW t
  PROVE  t \in [Name -> [left : Name \cup {NULL}, right : Name \cup {NULL},
                         parent : Name \cup {NULL}, depth : 0 .. Cardinality(Name),
                         cnt : 0 .. Cardinality(Name)]]
           <=> t \in Heap /\ Bounded(t, Name)
<1>1. Cardinality(Name) \in Nat
  BY ZSetAssumption, FS_CardinalityType
<1>2. 0 .. Cardinality(Name) \subseteq Nat
  BY <1>1
<1> QED
  BY <1>2, SMTT(30) DEF Heap, Bounded, Node
-----------------------------------------------------------------------------
\* The parts of TypeOK.
Values ==
  /\ root \in Node /\ score \in [Name -> Score \cup {0}] /\ hmap \subseteq Name
  /\ reply \subseteq Score \X Name /\ asked \in (Score \X Name) \cup {<<>>}
  /\ pc \in {"idle", "tree_add", "avl_fix", "avl_del", "victim", "deleted",
             "zset_query", "offset", "output"}
  /\ arg \in (Score \X Name) \cup {<<>>} /\ dels \in Seq(Name)
  /\ node \in Node /\ top \in Node /\ cur \in Node /\ start \in Node /\ pos \in Int
  /\ offset \in Offset \cup {0, 1} /\ limit \in Limit \cup {0} /\ out \in Seq(Name)

\* TypeOK, with the heap apart from the other variables.
LEMMA Types == TypeOK <=> tree \in Heap /\ Bounded(tree, Name) /\ Values
<1>1. TypeOK <=> /\ tree \in [Name -> [left : Name \cup {NULL}, right : Name \cup {NULL},
                         parent : Name \cup {NULL}, depth : 0 .. Cardinality(Name),
                         cnt : 0 .. Cardinality(Name)]]
                 /\ Values
  BY DEF TypeOK, Values, Node
<1> QED
  BY <1>1, BoundedHeap

\* The same of the next state.
LEMMA TypesNext ==
  ASSUME tree' \in Heap, Bounded(tree', Name), Values'
  PROVE  TypeOK'
<1>1. tree' \in [Name -> [left : Name \cup {NULL}, right : Name \cup {NULL},
                         parent : Name \cup {NULL}, depth : 0 .. Cardinality(Name),
                         cnt : 0 .. Cardinality(Name)]]
  BY BoundedHeap
<1> QED
  BY <1>1 DEF TypeOK, Values, Node

\* What a lookup finds.
LEMMA ReplyType ==
  ASSUME TypeOK, NEW n \in Name \cup {NULL}, n # NULL => score[n] \in Score
  PROVE  NodeReply(n) \subseteq Score \X Name
<1>1. CASE n = NULL
  BY <1>1 DEF NodeReply
<1>2. CASE n # NULL
  BY <1>2 DEF NodeReply
<1> QED
  BY <1>1, <1>2

\* What TypeOK says of the sets the invariant is about.
LEMMA TypesHere ==
  ASSUME TypeOK
  PROVE  /\ tree \in Heap /\ Bounded(tree, Name) /\ Values
         /\ score \in [Name -> Int] /\ NULL \notin Name
         /\ Full \in SUBSET Name /\ Nodes \in SUBSET Name /\ hmap \subseteq Full
         /\ dels = <<>> => Full = hmap
         /\ dels # <<>> => /\ Len(dels) \in Nat \ {0}
                           /\ Deleting \in Name /\ Deleting \in Full
<1>1. tree \in Heap /\ Bounded(tree, Name) /\ Values
  BY Types
<1>2. score \in [Name -> Int] /\ NULL \notin Name
  <2>1. Score \cup {0} \subseteq Int /\ NULL \notin Name
    BY ZSetAssumption
  <2>2. score \in [Name -> Score \cup {0}]
    BY <1>1 DEF Values
  <2> QED
    BY <2>1, <2>2
<1>3. dels \in Seq(Name) /\ hmap \subseteq Name
  BY <1>1 DEF Values
<1>4. Full \in SUBSET Name /\ hmap \subseteq Full /\ (dels = <<>> => Full = hmap)
  BY <1>3 DEF Full
<1>5. Nodes \in SUBSET Name
  BY <1>3, <1>4 DEF Nodes
<1>6. dels # <<>> => Len(dels) \in Nat \ {0} /\ Deleting \in Name /\ Deleting \in Full
  BY <1>3 DEF Deleting, Full
<1> QED
  BY <1>1, <1>2, <1>4, <1>5, <1>6

\* What the invariant says of a tree with no operation in progress.
LEMMA IdleTree ==
  ASSUME ZInv, dels = <<>>, pc \notin {"tree_add", "avl_fix", "deleted"}
  PROVE  /\ Full = hmap /\ Nodes = hmap /\ Root = root /\ Fixing = NULL
         /\ \A n \in hmap : score[n] \in Score
         /\ root \in hmap \cup {NULL} /\ (root = NULL <=> hmap = {})
         /\ \A n \in Name : Found(n) <=> n \in hmap
<1>1. Full = hmap /\ Nodes = hmap /\ Root = root /\ Fixing = NULL
  BY TypesHere DEF ZInv, Nodes, Root, Fixing
<1>2. PICK sub : Shape(sub)
  BY DEF ZInv
<1>3. root \in hmap \cup {NULL} /\ Under(sub, root) = hmap
  BY <1>1, <1>2 DEF Shape, SearchTree
<1>4. root # NULL => root \in hmap
  BY <1>3
<1>5. root = NULL <=> hmap = {}
  BY <1>3 DEF Under
<1> QED
  BY <1>1, <1>3, <1>5 DEF ZInv, Calls, Found

\* A step of no loop that changes the tree.
LEMMA TreeKept ==
  ASSUME ZInv, TypeOK', Calls', tree' = tree, score' = score, Nodes' = Nodes,
         Root' = Root, Fixing = NULL, Fixing' = NULL, \A sub : Shape(sub) => Places(sub)'
  PROVE  ZInv'
<1>1. PICK sub \in [Nodes -> SUBSET Nodes] : Shape(sub)
  BY DEF ZInv
<1>2. /\ SearchTree(tree, score, Nodes, Root, sub)
      /\ BalancedBut(tree, Nodes, NULL) /\ CountedBut(tree, Nodes, sub, NULL, Change)
  BY <1>1 DEF Shape
<1>3. Nodes \in SUBSET Name
  BY TypesHere DEF ZInv
<1>4. CountedBut(tree, Nodes, sub, NULL, Change')
  <2>1. Unmoved(tree, tree, score, score, Nodes)
    BY DEF Unmoved
  <2> QED
    BY ONLY <1>2, <1>3, <2>1, SameTree
<1>5. Shape(sub)'
  BY <1>1, <1>2, <1>4 DEF Shape
<1> QED
  BY <1>1, <1>5 DEF ZInv
-----------------------------------------------------------------------------
\* The empty set.
LEMMA InvInit == Init => ZInv
<1> SUFFICES ASSUME Init PROVE ZInv
  OBVIOUS
<1>1. Cardinality(Name) \in Nat /\ 0 \in Int
  BY ZSetAssumption, FS_CardinalityType
<1>2. tree \in Heap /\ Bounded(tree, Name)
  BY <1>1, SMTT(30) DEF Init, Free, Heap, Bounded, Node
<1>3. Values
  BY DEF Init, Values, Node
<1>4. TypeOK
  BY <1>2, <1>3, Types
<1>5. Full = {} /\ Nodes = {} /\ Root = NULL /\ Fixing = NULL
  BY DEF Init, Full, Nodes, Root, Fixing
<1>6. Calls
  BY <1>5 DEF Init, Calls
<1> DEFINE sub == [n \in {} |-> {}]
<1>7. SearchTree(tree, score, {}, NULL, sub)
  BY DEF SearchTree, Under
<1>8. BalancedBut(tree, {}, NULL)
  BY DEF BalancedBut, Fixable
<1>9. Shape(sub)
  BY <1>5, <1>7, <1>8 DEF Init, Shape, CountedBut, Places
<1>10. sub \in [Nodes -> SUBSET Nodes]
  BY <1>5
<1> QED
  BY <1>4, <1>6, <1>9, <1>10 DEF ZInv
-----------------------------------------------------------------------------
\* zset_update begins: the tree is as it was.
LEMMA InvUpdate ==
  ASSUME ZInv, NEW n \in Name, NEW s \in Score, Update(n, s)
  PROVE  ZInv'
<1>0. /\ pc = "idle" /\ Found(n) /\ dels = <<>> /\ Nodes = hmap /\ Root = root /\ Fixing = NULL
      /\ n \in hmap /\ Full = hmap /\ arg = <<>> /\ start = NULL /\ asked = <<>>
  <2>1. pc = "idle" /\ Found(n) /\ dels = <<>>
    BY DEF Update, ZInv, Calls
  <2> QED
    BY <2>1, IdleTree DEF ZInv, Calls
<1>1. Values /\ \A m \in hmap : score[m] \in Score
  BY <1>0, Types DEF ZInv, Calls
<1>2. TypeOK'
  <2>0. reply' = NodeReply(n) \/ reply' = {}
    BY DEF Update
  <2>01. reply' \subseteq Score \X Name
    BY <1>0, <1>1, <2>0, ReplyType DEF ZInv
  <2>03. UNCHANGED <<tree, root, score, hmap, asked, node, top, cur, query>>
    BY DEF Update, zset
  <2>02. /\ arg' \in (Score \X Name) \cup {<<>>} /\ dels' \in Seq(Name)
         /\ pc' \in {"idle", "avl_del"}
    <3>1. dels \in Seq(Name) /\ <<n>> \in Seq(Name) /\ arg = <<>>
      BY <1>0, <1>1 DEF Values
    <3>2. \/ arg' = arg /\ dels' = dels /\ pc' = pc
          \/ arg' = <<s, n>> /\ dels' = <<n>> /\ pc' = "avl_del"
      BY DEF Update
    <3>3. arg' \in (Score \X Name) \cup {<<>>}
      BY <3>1, <3>2
    <3>4. dels' \in Seq(Name)
      BY <3>1, <3>2
    <3>5. pc' \in {"idle", "avl_del"}
      BY <1>0, <3>2
    <3> QED
      BY <3>3, <3>4, <3>5
  <2>1. Values'
    BY <1>1, <2>01, <2>02, <2>03 DEF Values, query
  <2>2. tree' \in Heap /\ Bounded(tree', Name)
    BY TypesHere DEF ZInv, Update, zset, Bounded
  <2> QED
    BY <2>1, <2>2, TypesNext
<1>3. CASE score[n] = s
  <2>1. UNCHANGED <<zset, asked, arg, dels, pc, node, top, cur, query>>
    BY <1>3 DEF Update
  <2>2. Nodes' = Nodes /\ Full' = Full /\ Root' = Root /\ Fixing' = NULL /\ Calls'
    BY <1>0, <2>1 DEF Nodes, Full, Root, Fixing, zset, query, ZInv, Calls, Successor, Deleting
  <2>3. \A sub : Shape(sub) => Places(sub)'
    BY <1>0, <2>1 DEF Places
  <2> QED
    BY <1>0, <1>2, <2>1, <2>2, <2>3, TreeKept DEF zset
<1>4. CASE score[n] # s
  <2>1. /\ arg' = <<s, n>> /\ dels' = <<n>> /\ pc' = "avl_del"
        /\ UNCHANGED <<zset, asked, node, top, cur, query>>
    BY <1>4 DEF Update
  <2>2. Nodes' = Nodes /\ Full' = Full /\ Root' = Root /\ Fixing' = NULL
    BY <1>0, <2>1 DEF Nodes, Full, Root, Fixing, zset
  <2>3. Calls'
    BY <1>0, <1>1, <2>1, <2>2 DEF Calls, zset, query
  <2>4. \A sub : Shape(sub) => Places(sub)'
    BY <2>1 DEF Places
  <2> QED
    BY <1>0, <1>2, <2>1, <2>2, <2>3, <2>4, TreeKept DEF zset
<1> QED
  BY <1>3, <1>4

\* zset_pop takes the name out of hmap; its node is still linked.
LEMMA InvZsetPop ==
  ASSUME ZInv, NEW n \in Name, zset_pop(n)
  PROVE  ZInv'
<1>0. /\ pc = "idle" /\ dels = <<>> /\ Nodes = hmap /\ Root = root /\ Fixing = NULL
      /\ Full = hmap /\ arg = <<>> /\ start = NULL /\ asked = <<>>
      /\ Found(n) <=> n \in hmap
  <2>1. pc = "idle" /\ dels = <<>>
    BY DEF zset_pop, ZInv, Calls
  <2> QED
    BY <2>1, IdleTree DEF ZInv, Calls
<1>1. Values /\ \A m \in hmap : score[m] \in Score
  BY <1>0, Types DEF ZInv, Calls
<1>2. TypeOK'
  <2>0. reply' \subseteq Score \X Name
    <3>1. Found(n) => NodeReply(n) \subseteq Score \X Name
      BY <1>0, <1>1, ReplyType DEF ZInv
    <3> QED
      BY <3>1 DEF zset_pop
  <2>1. Values'
    <3>1. UNCHANGED <<root, score, asked, arg, node, top, cur, start, pos, offset, limit, out>>
      BY DEF zset_pop, query
    <3>2. hmap' \subseteq Name /\ dels' \in Seq(Name) /\ pc' \in {"idle", "avl_del"}
      <4>1. hmap \subseteq Name /\ dels \in Seq(Name) /\ <<n>> \in Seq(Name)
        BY <1>1 DEF Values
      <4> QED
        BY <1>0, <4>1 DEF zset_pop
    <3> QED
      BY <1>1, <2>0, <3>1, <3>2 DEF Values
  <2>2. tree' \in Heap /\ Bounded(tree', Name)
    BY TypesHere DEF ZInv, zset_pop, Bounded
  <2> QED
    BY <2>1, <2>2, TypesNext
<1>3. CASE Found(n)
  <2>1. /\ hmap' = hmap \ {n} /\ dels' = <<n>> /\ pc' = "avl_del"
        /\ UNCHANGED <<tree, root, score, asked, arg, node, top, cur, query>>
    BY <1>3 DEF zset_pop
  <2>2. Full' = hmap
    BY <1>0, <1>3, <2>1 DEF Full
  <2>3. Nodes' = Nodes /\ Full' = Full /\ Root' = Root /\ Fixing' = NULL
    BY <1>0, <2>1, <2>2 DEF Nodes, Root, Fixing
  <2>4. Calls'
    BY <1>0, <1>1, <2>1, <2>3 DEF Calls, query
  <2>5. \A sub : Shape(sub) => Places(sub)'
    BY <2>1 DEF Places
  <2> QED
    BY <1>0, <1>2, <2>1, <2>3, <2>4, <2>5, TreeKept
<1>4. CASE ~ Found(n)
  <2>1. UNCHANGED <<zset, asked, arg, dels, pc, node, top, cur, query>>
    BY <1>4 DEF zset_pop, zset
  <2>2. Nodes' = Nodes /\ Full' = Full /\ Root' = Root /\ Fixing' = NULL /\ Calls'
    BY <1>0, <2>1 DEF Nodes, Full, Root, Fixing, zset, query, ZInv, Calls, Successor, Deleting
  <2>3. \A sub : Shape(sub) => Places(sub)'
    BY <1>0, <2>1 DEF Places
  <2> QED
    BY <1>0, <1>2, <2>1, <2>2, <2>3, TreeKept DEF zset
<1> QED
  BY <1>3, <1>4

\* zset_query begins at the root.
LEMMA InvQuery ==
  ASSUME ZInv, NEW n \in Name, NEW s \in Score, NEW o \in Offset, NEW lim \in Limit,
         Query(s, n, o, lim)
  PROVE  ZInv'
<1>0. /\ pc = "idle" /\ dels = <<>> /\ Nodes = hmap /\ Root = root /\ Fixing = NULL
      /\ Full = hmap /\ arg = <<>> /\ start = NULL /\ asked = <<>>
      /\ root \in hmap \cup {NULL}
  <2>1. pc = "idle" /\ dels = <<>>
    BY DEF Query, ZInv, Calls
  <2> QED
    BY <2>1, IdleTree DEF ZInv, Calls
<1>1. Values /\ \A m \in hmap : score[m] \in Score
  BY <1>0, Types DEF ZInv, Calls
<1>2. TypeOK'
  <2>1. Values'
    BY <1>0, <1>1 DEF Query, Values, zset
  <2>2. tree' \in Heap /\ Bounded(tree', Name)
    BY TypesHere DEF ZInv, Query, Bounded, zset
  <2> QED
    BY <2>1, <2>2, TypesNext
<1>3. /\ arg' = <<s, n>> /\ cur' = root /\ pc' = "zset_query"
      /\ UNCHANGED <<tree, root, score, hmap, asked, node, dels, top, start, pos, out>>
  BY DEF Query, zset
<1>4. Nodes' = Nodes /\ Full' = Full /\ Root' = Root /\ Fixing' = NULL
  BY <1>0, <1>3 DEF Nodes, Full, Root, Fixing
<1>5. Calls'
  BY <1>0, <1>1, <1>3, <1>4 DEF Calls
<1>6. ASSUME NEW sub, Shape(sub) PROVE Places(sub)'
  <2>1. Under(sub, root) = Nodes
    BY <1>0, <1>6 DEF Shape, SearchTree
  <2> QED
    BY <1>0, <1>3, <1>4, <2>1 DEF Places
<1> QED
  BY <1>0, <1>2, <1>3, <1>4, <1>5, <1>6, TreeKept
-----------------------------------------------------------------------------
\* zless orders tuples that are not in the set, too.
LEMMA ZlessIsTransitive ==
  ASSUME NEW s \in Int, NEW n \in Int, NEW t \in Int, NEW m \in Int, NEW u \in Int, NEW k \in Int,
         zless(s, n, t, m), zless(t, m, u, k)
  PROVE  zless(s, n, u, k)
  BY DEF zless

\* zset_query keeps what it seeks in the subtree of cur, or in start.
LEMMA InvZSetQuery ==
  ASSUME ZInv, ZSetQuery
  PROVE  ZInv'
<1>0. pc = "zset_query" /\ dels = <<>> /\ asked = <<>> /\ arg # <<>>
  BY DEF ZSetQuery, ZInv, Calls
<1>1. /\ Full = hmap /\ Nodes = hmap /\ Root = root /\ Fixing = NULL
      /\ \A n \in hmap : score[n] \in Score
  BY <1>0, IdleTree
<1>2. Values /\ score \in [Name -> Int] /\ NULL \notin Name /\ hmap \in SUBSET Name
  BY <1>1, TypesHere DEF ZInv
<1>3. arg \in Score \X Name /\ arg[1] \in Int /\ arg[2] \in Int /\ \A n \in Name : n \in Int
  <2>1. arg \in Score \X Name
    BY <1>0, <1>2 DEF Values
  <2>2. arg[1] \in Score /\ arg[2] \in Name
    BY <2>1
  <2>3. Score \subseteq Int /\ Name \subseteq Int
    BY ZSetAssumption
  <2>4. arg[1] \in Int /\ arg[2] \in Int /\ \A n \in Name : n \in Int
    BY ONLY <2>2, <2>3
  <2> QED
    BY ONLY <2>1, <2>4
<1>4. UNCHANGED <<tree, root, score, hmap, node, dels, top, pos, offset, limit, out>>
  BY DEF ZSetQuery, zset
<1>5. /\ start \in Node /\ cur \in Node /\ arg \in (Score \X Name) \cup {<<>>}
      /\ reply \subseteq Score \X Name /\ asked \in (Score \X Name) \cup {<<>>}
  BY <1>2 DEF Values
<1>6. cur \in hmap \cup {NULL} /\ start \in hmap \cup {NULL}
  <2>1. PICK sub : Shape(sub)
    BY DEF ZInv
  <2> QED
    BY <1>0, <1>1, <2>1 DEF Shape, Places
<1>7. cur # NULL => cur \in Name /\ tree[cur].left \in Node /\ tree[cur].right \in Node
  BY <1>2, <1>6, TypesHere DEF ZInv, Heap
<1>8. TypeOK'
  <2>1. cur' \in Node /\ start' \in Node
    BY <1>5, <1>7 DEF ZSetQuery
  <2>2. arg' \in (Score \X Name) \cup {<<>>} /\ asked' \in (Score \X Name) \cup {<<>>}
    BY <1>3, <1>5 DEF ZSetQuery
  <2>3. reply' \subseteq Score \X Name
    <3>1. NodeReply(start) \subseteq Score \X Name
      BY <1>1, <1>2, <1>6, ReplyType DEF ZInv
    <3> QED
      BY <1>5, <3>1 DEF ZSetQuery
  <2>4. pc' \in {"zset_query", "offset"}
    BY <1>0 DEF ZSetQuery
  <2>5. Values'
    BY <1>2, <1>4, <2>1, <2>2, <2>3, <2>4 DEF Values
  <2>6. tree' \in Heap /\ Bounded(tree', Name)
    BY <1>4, TypesHere DEF ZInv
  <2> QED
    BY <2>5, <2>6, TypesNext
<1>9. pc' \in {"zset_query", "offset"}
  BY <1>0 DEF ZSetQuery
<1>10. Nodes' = hmap /\ Full' = Full /\ Root' = Root /\ Fixing' = NULL
  BY <1>0, <1>1, <1>4, <1>9 DEF Nodes, Full, Root, Fixing
<1>11. Calls'
  <2>1. /\ arg' # <<>> <=> pc' = "zset_query"
        /\ pc' = "zset_query" => asked' = <<>>
    BY <1>0 DEF ZSetQuery
  <2> QED
    BY <1>0, <1>1, <1>4, <1>9, <1>10, <2>1 DEF Calls
<1>12. ASSUME NEW sub, Shape(sub) PROVE Places(sub)'
  <2>1. /\ Nodal(tree, hmap, sub)
        /\ \A n \in hmap, s \in Sides : \A m \in Under(sub, tree[n][s]) : OnSide(score, s, m, n)
        /\ \A n \in hmap :
             sub[n] = {n} \cup Under(sub, tree[n]["left"]) \cup Under(sub, tree[n]["right"])
    <3>1. SearchTree(tree, score, hmap, root, sub)
      BY <1>1, <1>12 DEF Shape
    <3> QED
      BY <1>2, <3>1, TreeIsNodal DEF SearchTree
  <2>2. /\ start # NULL =>
             /\ ~ zless(score[start], start, arg[1], arg[2])
             /\ \A n \in Under(sub, cur) : Less(score, n, start)
        /\ \A n \in hmap \ Under(sub, cur) :
             \/ zless(score[n], n, arg[1], arg[2])
             \/ start # NULL /\ ~ Less(score, n, start)
    BY <1>0, <1>1, <1>12 DEF Shape, Places
  <2>3. ASSUME cur # NULL
        PROVE  /\ cur \in hmap /\ Under(sub, cur) = sub[cur] /\ cur \in sub[cur]
               /\ \A s \in Sides : Under(sub, tree[cur][s]) \subseteq sub[cur]
               /\ \A s \in Sides : tree[cur][s] \in hmap \cup {NULL}
               /\ \A n \in Under(sub, tree[cur]["left"]) : Less(score, n, cur)
               /\ \A n \in Under(sub, tree[cur]["right"]) : Less(score, cur, n)
               /\ sub[cur] = {cur} \cup Under(sub, tree[cur]["left"])
                                   \cup Under(sub, tree[cur]["right"])
    BY <1>6, <2>1, <2>3 DEF Nodal, Under, OnSide, Sides
  <2>4. CASE cur # NULL /\ zless(score[cur], cur, arg[1], arg[2])
    <3>1. cur' = tree[cur]["right"] /\ UNCHANGED <<start, arg, pc>>
      BY <2>4 DEF ZSetQuery
    <3>2. ASSUME NEW n \in hmap \ Under(sub, cur')
          PROVE  \/ zless(score[n], n, arg[1], arg[2])
                 \/ start # NULL /\ ~ Less(score, n, start)
      <4>1. CASE n \notin sub[cur]
        BY <2>2, <2>3, <2>4, <4>1
      <4>2. CASE n \in sub[cur]
        <5>1. n = cur \/ Less(score, n, cur)
          BY <2>3, <2>4, <3>1, <3>2, <4>2
        <5>2. score[n] \in Int /\ score[cur] \in Int /\ n \in Int /\ cur \in Int
          BY <1>2, <1>3, <2>3, <2>4
        <5> QED
          BY <1>3, <2>4, <5>1, <5>2, ZlessIsTransitive DEF Less
      <4> QED
        BY <4>1, <4>2
    <3>3. cur' \in hmap \cup {NULL} /\ Under(sub, cur') \subseteq Under(sub, cur)
      BY <2>3, <2>4, <3>1 DEF Sides
    <3> QED
      BY <1>0, <1>4, <1>6, <1>10, <2>2, <3>1, <3>2, <3>3 DEF Places, Less
  <2>5. CASE cur # NULL /\ ~ zless(score[cur], cur, arg[1], arg[2])
    <3>1. start' = cur /\ cur' = tree[cur]["left"] /\ UNCHANGED <<arg, pc>>
      BY <2>5 DEF ZSetQuery
    <3>2. ASSUME NEW n \in hmap \ Under(sub, cur'), ~ zless(score[n], n, arg[1], arg[2])
          PROVE  ~ Less(score, n, cur)
      <4>0. n \in Name /\ cur \in Name
        BY <1>2, <2>3, <2>5
      <4>1. CASE n \notin sub[cur]
        <5>1. start # NULL /\ ~ Less(score, n, start) /\ Less(score, cur, start) /\ start \in Name
          BY <1>2, <1>6, <2>2, <2>3, <2>5, <3>2, <4>1
        <5> QED
          BY <1>2, <4>0, <5>1, LessOrder
      <4>2. CASE n \in sub[cur]
        <5>1. n = cur \/ Less(score, cur, n)
          BY <2>3, <2>5, <3>1, <3>2, <4>2
        <5> QED
          BY <1>2, <4>0, <5>1, LessOrder
      <4> QED
        BY <4>1, <4>2
    <3>3. cur' \in hmap \cup {NULL} /\ \A n \in Under(sub, cur') : Less(score, n, cur)
      BY <2>3, <2>5, <3>1 DEF Sides
    <3> QED
      BY <1>0, <1>4, <1>6, <1>10, <2>5, <3>1, <3>2, <3>3 DEF Places, Less
  <2>6. CASE cur = NULL
    <3>1. pc' = "offset" /\ cur' = start
      BY <2>6 DEF ZSetQuery
    <3> QED
      BY <1>6, <1>10, <3>1 DEF Places
  <2> QED
    BY <2>4, <2>5, <2>6
<1> QED
  BY <1>1, <1>4, <1>8, <1>10, <1>11, <1>12, TreeKept

\* avl_offset goes down only where there is a node.
LEMMA InvOffsetStep ==
  ASSUME ZInv, OffsetStep
  PROVE  ZInv'
<1>0. pc = "offset" /\ dels = <<>> /\ cur # NULL
  BY DEF OffsetStep, ZInv, Calls
<1>1. Full = hmap /\ Nodes = hmap /\ Root = root /\ Fixing = NULL
  BY <1>0, IdleTree
<1>2. Values /\ tree \in Heap /\ NULL \notin Name /\ hmap \in SUBSET Name
  BY <1>1, TypesHere DEF ZInv
<1>3. PICK sub : Shape(sub)
  BY DEF ZInv
<1>4. cur \in hmap /\ SearchTree(tree, score, hmap, root, sub)
  BY <1>0, <1>1, <1>3 DEF Shape, Places
<1>5. /\ \A n \in hmap : tree[n].left \in hmap \cup {NULL} /\ tree[n].right \in hmap \cup {NULL}
      /\ tree[cur].parent \in hmap \cup {NULL}
  <2>1. \A n \in hmap, s \in Sides : tree[n][s] \in hmap \cup {NULL}
    BY <1>4 DEF SearchTree
  <2>2. tree[cur].parent \in hmap \cup {NULL}
    BY <1>4, <1>2 DEF SearchTree
  <2> QED
    BY <2>1, <2>2 DEF Sides
<1>6. /\ avl_cnt(tree, NULL) = 0
      /\ \A n \in Name \cup {NULL} : avl_cnt(tree, n) \in Int
  BY <1>2 DEF avl_cnt, Heap
<1>7. pos \in Int /\ offset \in Int /\ Width \in Nat /\ Width > 0
  <2>1. Cardinality(Name) \in Nat
    BY ZSetAssumption, FS_CardinalityType
  <2> QED
    BY <1>2, <2>1, ZSetAssumption DEF Values
<1>8. cur' \in hmap \cup {NULL} /\ pos' \in Int
  <2>1. CASE OffsetRight
    <3> DEFINE r == tree[cur].right
               k == avl_cnt(tree, tree[r].left) - 1
    <3>1. r # NULL
      BY <1>6, <1>7, <2>1 DEF OffsetRight
    <3>2. r \in hmap /\ k \in Int
      BY <1>2, <1>4, <1>5, <1>6, <3>1
    <3>3. cur' = r /\ pos' = pos + (k % Width)
      BY <2>1 DEF OffsetRight
    <3> HIDE DEF r, k
    <3> QED
      BY <1>7, <3>2, <3>3
  <2>2. CASE OffsetLeft
    <3> DEFINE l == tree[cur].left
               k == avl_cnt(tree, tree[l].left) + 1
    <3>1. l # NULL
      BY <1>6, <1>7, <2>2 DEF OffsetLeft
    <3>2. l \in hmap /\ k \in Int
      BY <1>2, <1>4, <1>5, <1>6, <3>1
    <3>3. cur' = l /\ pos' = pos - k
      BY <2>2 DEF OffsetLeft
    <3> HIDE DEF l, k
    <3> QED
      BY <1>7, <3>2, <3>3
  <2>3. CASE OffsetUp
    <3>1. avl_cnt(tree, tree[cur].left) \in Int /\ avl_cnt(tree, tree[cur].right) \in Int
      BY <1>2, <1>4, <1>5, <1>6
    <3> QED
      BY <1>5, <1>7, <2>3, <3>1 DEF OffsetUp
  <2> QED
    BY <2>1, <2>2, <2>3 DEF OffsetStep
<1>9. UNCHANGED <<tree, root, score, hmap, reply, asked, pc, arg, node, dels, top,
                  start, offset, limit, out>>
  BY DEF OffsetStep, zset, call
<1>10. TypeOK'
  <2>1. Values'
    BY <1>2, <1>8, <1>9 DEF Values, Node
  <2> QED
    BY <1>9, <2>1, TypesHere, TypesNext DEF ZInv
<1>11. Nodes' = Nodes /\ Full' = Full /\ Root' = Root /\ Fixing' = NULL
  BY <1>0, <1>1, <1>9 DEF Nodes, Full, Root, Fixing, Deleting
<1>12. Calls'
  BY <1>0, <1>9, <1>11 DEF ZInv, Calls, Successor
<1>13. ASSUME NEW sub2, Shape(sub2) PROVE Places(sub2)'
  BY <1>0, <1>1, <1>8, <1>9, <1>11 DEF Places
<1> QED
  BY <1>1, <1>9, <1>10, <1>11, <1>12, <1>13, TreeKept

\* do_zquery writes no node.
LEMMA InvOutput ==
  ASSUME ZInv, OffsetDone \/ Output \/ OutputDone
  PROVE  ZInv'
<1>0. pc \in {"offset", "output"} /\ dels = <<>> /\ arg = <<>>
  BY DEF OffsetDone, Output, OutputDone, ZInv, Calls
<1>1. Full = hmap /\ Nodes = hmap /\ Root = root /\ Fixing = NULL
  BY <1>0, IdleTree
<1>2. Values /\ hmap \in SUBSET Name /\ NULL \notin Name
  BY <1>1, TypesHere DEF ZInv
<1>3. cur \in hmap \cup {NULL}
  <2>1. PICK sub : Shape(sub)
    BY DEF ZInv
  <2> QED
    BY <1>0, <1>1, <2>1 DEF Shape, Places
<1>4. /\ UNCHANGED <<tree, root, score, hmap, arg, node, dels, top>>
      /\ pc' \in {"offset", "output", "idle"} /\ cur' \in {cur, NULL}
      /\ pc' = "idle" => asked' = <<>> /\ start' = NULL
  BY <1>0 DEF OffsetDone, Output, OutputDone, zset, call
<1>5. TypeOK'
  <2>1. /\ reply \subseteq Score \X Name /\ asked \in (Score \X Name) \cup {<<>>}
        /\ start \in Node /\ pos \in Int /\ out \in Seq(Name)
        /\ offset \in Offset \cup {0, 1} /\ limit \in Limit \cup {0} /\ cur \in Node
    BY <1>2 DEF Values
  <2>2. reply' \subseteq Score \X Name /\ asked' \in (Score \X Name) \cup {<<>>}
    BY <2>1 DEF OffsetDone, Output, OutputDone
  <2>3. start' \in Node /\ pos' \in Int /\ cur' \in Node
    BY <2>1 DEF OffsetDone, Output, OutputDone, query, Node
  <2>4. offset' \in Offset \cup {0, 1} /\ limit' \in Limit \cup {0}
    BY <2>1 DEF OffsetDone, Output, OutputDone, query
  <2>5. out' \in Seq(Name)
    <3>1. Output => cur \in Name
      BY <1>2, <1>3 DEF Output, MoreOutput
    <3>2. Output => out' = Append(out, cur)
      BY DEF Output
    <3>3. ~ Output => out' = out \/ out' = <<>>
      BY DEF OffsetDone, OutputDone, query
    <3>4. out \in Seq(Name)
      BY <2>1
    <3>5. CASE Output
      BY <3>1, <3>2, <3>4, <3>5
    <3>6. CASE ~ Output
      <4>1. <<>> \in Seq(Name)
        OBVIOUS
      <4> QED
        BY <3>3, <3>4, <3>6, <4>1, Zenon
    <3> QED
      BY <3>5, <3>6
  <2>6. Values'
    BY <1>2, <1>4, <2>2, <2>3, <2>4, <2>5 DEF Values
  <2> QED
    BY <1>4, <2>6, TypesHere, TypesNext DEF ZInv
<1>6. Nodes' = Nodes /\ Full' = Full /\ Root' = Root /\ Fixing' = NULL
  BY <1>0, <1>1, <1>4 DEF Nodes, Full, Root, Fixing, Deleting
<1>7. Calls'
  BY <1>0, <1>4, <1>6 DEF ZInv, Calls
<1>8. ASSUME NEW sub, Shape(sub) PROVE Places(sub)'
  BY <1>1, <1>3, <1>4, <1>6 DEF Places
<1> QED
  BY <1>1, <1>4, <1>5, <1>6, <1>7, <1>8, TreeKept

\* Nothing changes.
LEMMA InvStutter ==
  ASSUME ZInv, UNCHANGED vars
  PROVE  ZInv'
<1>1. UNCHANGED <<tree, root, score, hmap, reply, asked, pc, arg, node, dels, top, cur,
                  start, pos, offset, limit, out>>
  BY DEF vars, zset, call, query
<1>2. TypeOK'
  BY <1>1 DEF ZInv, TypeOK
<1>3. Deleting' = Deleting /\ Full' = Full
  BY <1>1 DEF Deleting, Full
<1>4. Nodes' = Nodes /\ Root' = Root /\ Fixing' = Fixing /\ Change' = Change
  BY <1>1, <1>3 DEF Nodes, Root, Fixing, Change
<1>5. Calls'
  BY <1>1, <1>3 DEF ZInv, Calls, Successor
<1>6. PICK sub \in [Nodes -> SUBSET Nodes] : Shape(sub)
  BY DEF ZInv
<1>7. Places(sub)'
  BY <1>1, <1>3, <1>4, <1>6 DEF Shape, Places
<1>8. Shape(sub)'
  BY <1>1, <1>4, <1>6, <1>7 DEF Shape
<1> QED
  BY <1>2, <1>4, <1>5, <1>6, <1>8 DEF ZInv
-----------------------------------------------------------------------------
\* No node is above the root.
LEMMA RootOnTop ==
  ASSUME NEW t, NEW sc \in [Name -> Int], NEW T \in SUBSET Name, NEW r, NEW sub,
         SearchTree(t, sc, T, r, sub), NEW n \in T, NEW s \in Sides
  PROVE  r \notin Under(sub, t[n][s])
<1>1. Nodal(t, T, sub) /\ Familial(t, T, r, sub)
  BY TreeFacts
<1>2. r \in T /\ sub[r] = T
  <2>1. Under(sub, r) = T /\ r \in T \cup {NULL}
    BY DEF SearchTree
  <2> QED
    BY <2>1 DEF Under
<1>3. SUFFICES ASSUME r \in Under(sub, t[n][s]) PROVE FALSE
  OBVIOUS
<1> DEFINE c == t[n][s]
<1>4. c \in T /\ r \in sub[c]
  BY <1>1, <1>3 DEF Nodal, Under
<1>5. c = r
  BY <1>1, <1>2, <1>4 DEF Familial
<1> QED
  BY <1>1, <1>2, <1>5 DEF Familial

\* A step that changes the heap and the scores outside the tree.
LEMMA TreeKeptElsewhere ==
  ASSUME ZInv, TypeOK', Calls', Nodes' = Nodes, Root' = Root, Fixing = NULL, Fixing' = NULL,
         \A m \in Nodes : tree'[m] = tree[m] /\ score'[m] = score[m],
         \A sub : Shape(sub) => Places(sub)'
  PROVE  ZInv'
<1>1. PICK sub \in [Nodes -> SUBSET Nodes] : Shape(sub)
  BY DEF ZInv
<1>2. /\ SearchTree(tree, score, Nodes, Root, sub)
      /\ BalancedBut(tree, Nodes, NULL) /\ CountedBut(tree, Nodes, sub, NULL, Change)
  BY <1>1 DEF Shape
<1>3. Nodes \in SUBSET Name
  BY TypesHere DEF ZInv
<1>4. /\ SearchTree(tree', score', Nodes, Root, sub)
      /\ BalancedBut(tree', Nodes, NULL) /\ CountedBut(tree', Nodes, sub, NULL, Change')
  <2>1. Unmoved(tree, tree', score, score', Nodes)
    BY DEF Unmoved
  <2> QED
    BY ONLY <1>2, <1>3, <2>1, SameTree
<1>5. Shape(sub)'
  BY <1>1, <1>4 DEF Shape
<1> QED
  BY <1>1, <1>5 DEF ZInv

\* hm_insert comes before tree_add: the new node is not linked yet.
LEMMA InvAddNew ==
  ASSUME ZInv, NEW n \in Name, NEW s \in Score, AddNew(n, s)
  PROVE  ZInv'
<1>0. /\ pc = "idle" /\ dels = <<>> /\ Nodes = hmap /\ Root = root /\ Fixing = NULL
      /\ Full = hmap /\ arg = <<>> /\ start = NULL /\ asked = <<>>
      /\ root \in hmap \cup {NULL} /\ n \notin hmap
  <2>1. pc = "idle" /\ dels = <<>> /\ ~ Found(n)
    BY DEF AddNew, ZInv, Calls
  <2> QED
    BY <2>1, IdleTree DEF ZInv, Calls
<1>1. Values /\ hmap \in SUBSET Name /\ score \in [Name -> Int] /\ tree \in Heap
  BY <1>0, TypesHere DEF ZInv
<1>2. /\ hmap' = hmap \cup {n} /\ score' = [score EXCEPT ![n] = s]
      /\ tree' = [tree EXCEPT ![n] = avl_init]
      /\ node' = n /\ cur' = root /\ pc' = "tree_add" /\ reply' = {}
      /\ UNCHANGED <<root, asked, arg, dels, top, start, pos, offset, limit, out>>
  BY DEF AddNew, query
<1>3. TypeOK'
  <2>1. score \in [Name -> Score \cup {0}] /\ root \in Node /\ n \in Node
    BY <1>1 DEF Values, Node
  <2>2. score' \in [Name -> Score \cup {0}] /\ root' \in Node /\ node' \in Node /\ cur' \in Node
    BY <1>2, <2>1
  <2>3. hmap' \subseteq Name /\ reply' \subseteq Score \X Name
    BY <1>1, <1>2
  <2>4. Values'
    BY <1>1, <1>2, <2>2, <2>3 DEF Values
  <2>5. avl_init \in [left : Node, right : Node, parent : Node, depth : Nat, cnt : Nat]
        /\ avl_init.depth = 1 /\ avl_init.cnt = 1
    BY DEF avl_init, Node
  <2>6. 1 \in 0 .. Cardinality(Name)
    <3>1. Cardinality(Name) \in Nat /\ Cardinality(Name) # 0
      BY ZSetAssumption, FS_CardinalityType, FS_EmptySet
    <3> QED
      BY <3>1
  <2>7. tree' \in Heap
    BY <1>1, <1>2, <2>5 DEF Heap
  <2>8. Bounded(tree', Name)
    <3>1. Bounded(tree, Name)
      BY TypesHere DEF ZInv
    <3> QED
      BY <1>1, <1>2, <2>5, <2>6, <3>1 DEF Bounded, Heap
  <2> QED
    BY <2>4, <2>7, <2>8, TypesNext
<1>4. Nodes' = hmap /\ Full' = hmap \cup {n} /\ Root' = root /\ Fixing' = NULL
  BY <1>0, <1>2 DEF Nodes, Full, Root, Fixing
<1>5. \A m \in hmap : tree'[m] = tree[m] /\ score'[m] = score[m]
  BY <1>0, <1>1, <1>2 DEF Heap
<1>6. score'[n] = s /\ tree'[n] = avl_init
  BY <1>1, <1>2 DEF Heap
<1>7. Calls'
  <2>1. \A m \in hmap : score[m] \in Score
    BY <1>0 DEF ZInv, Calls
  <2> QED
    BY <1>0, <1>2, <1>4, <1>5, <1>6, <2>1 DEF Calls
<1>8. ASSUME NEW sub, Shape(sub) PROVE Places(sub)'
  <2>1. SearchTree(tree, score, hmap, root, sub)
    BY <1>0, <1>8 DEF Shape
  <2>2. \A m \in hmap, q \in Sides : root \notin Under(sub, tree[m][q])
    BY <1>1, <2>1, RootOnTop
  <2> QED
    BY <1>0, <1>2, <1>4, <1>5, <1>6, <2>2 DEF Places
<1> QED
  BY <1>0, <1>3, <1>4, <1>5, <1>7, <1>8, TreeKeptElsewhere

\* The node that was deleted is freed, or it is added again.
LEMMA InvDeleted ==
  ASSUME ZInv, Deleted
  PROVE  ZInv'
<1> DEFINE d == dels[1]
<1>0. /\ pc = "deleted" /\ dels # <<>> /\ Len(dels) = 1 /\ Deleting = d
      /\ Root = top /\ Fixing = NULL /\ start = NULL /\ asked = <<>>
      /\ root' = top /\ top' = NULL /\ dels' = <<>> /\ arg' = <<>>
      /\ UNCHANGED <<hmap, asked, start, pos, offset, limit, out>>
  BY DEF Deleted, ZInv, Calls, Deleting, Root, Fixing, query
<1>1. Values /\ hmap \in SUBSET Name /\ score \in [Name -> Int] /\ tree \in Heap /\ d \in Name
      /\ Bounded(tree, Name) /\ NULL \notin Name
  BY <1>0, TypesHere DEF ZInv, Values
<1>2. Full = hmap \cup {d} /\ Nodes = hmap \ {d} /\ Full' = hmap
  <2>1. Full = hmap \cup {d}
    BY <1>0 DEF Full
  <2>2. Full' = hmap
    BY <1>0 DEF Full
  <2> QED
    BY <1>0, <2>1, <2>2 DEF Nodes
<1>3. \A m \in Full : score[m] \in Score
  BY DEF ZInv, Calls
<1>4. IF arg = <<>> THEN d \notin hmap ELSE arg[2] = d /\ d \in hmap
  BY <1>0 DEF ZInv, Calls
<1>5. top \in (hmap \ {d}) \cup {NULL}
  <2>1. PICK sub : Shape(sub)
    BY DEF ZInv
  <2> QED
    BY <1>0, <1>2, <2>1 DEF Shape, SearchTree
<1>6. \E v \in {Free, avl_init}, w \in Score \cup {0} :
         tree' = [tree EXCEPT ![d] = v] /\ score' = [score EXCEPT ![d] = w]
         /\ (arg # <<>> => v = avl_init /\ w \in Score)
  <2>1. arg # <<>> => arg[1] \in Score
    <3>1. arg \in (Score \X Name) \cup {<<>>}
      BY <1>1 DEF Values
    <3> QED
      BY <3>1
  <2>2. CASE arg = <<>>
    BY <1>0, <2>2 DEF Deleted
  <2>3. CASE arg # <<>>
    BY <1>0, <2>1, <2>3 DEF Deleted
  <2> QED
    BY <2>2, <2>3
<1> HIDE DEF d
<1>7. PICK v \in {Free, avl_init}, w \in Score \cup {0} :
         tree' = [tree EXCEPT ![d] = v] /\ score' = [score EXCEPT ![d] = w]
         /\ (arg # <<>> => v = avl_init /\ w \in Score)
  BY <1>6
<1>8. /\ \A m \in Name \ {d} : tree'[m] = tree[m] /\ score'[m] = score[m]
      /\ tree'[d] = v /\ score'[d] = w
  BY <1>1, <1>7 DEF Heap
<1>9. /\ arg = <<>> => pc' = "idle" /\ UNCHANGED <<reply, node, cur>>
      /\ arg # <<>> => pc' = "tree_add" /\ reply' = NodeReply(d) /\ node' = d /\ cur' = top
  BY <1>0 DEF Deleted
<1>10. TypeOK'
  <2>1. /\ score \in [Name -> Score \cup {0}] /\ top \in Node /\ d \in Node /\ node \in Node
        /\ cur \in Node /\ reply \subseteq Score \X Name
    BY <1>1 DEF Values, Node
  <2>2. score' \in [Name -> Score \cup {0}]
    BY <1>7, <2>1
  <2>3. node' \in Node /\ cur' \in Node /\ root' \in Node /\ top' \in Node
    BY <1>0, <1>9, <2>1 DEF Node
  <2>4. reply' \subseteq Score \X Name
    <3>1. NodeReply(d) \subseteq Score \X Name
      BY <1>1, <1>2, <1>3, ReplyType DEF ZInv
    <3> QED
      BY <1>9, <2>1, <3>1
  <2>5. arg' \in (Score \X Name) \cup {<<>>} /\ dels' \in Seq(Name)
    BY <1>0
  <2>6. pc' \in {"idle", "tree_add"}
    BY <1>9
  <2>7. Values'
    BY <1>0, <1>1, <2>2, <2>3, <2>4, <2>5, <2>6 DEF Values
  <2>8. /\ v \in [left : Node, right : Node, parent : Node, depth : Nat, cnt : Nat]
        /\ v.depth \in {0, 1} /\ v.cnt \in {0, 1}
    BY DEF avl_init, Free, Node
  <2>9. 0 \in 0 .. Cardinality(Name) /\ 1 \in 0 .. Cardinality(Name)
    <3>1. Cardinality(Name) \in Nat /\ Cardinality(Name) # 0
      BY <1>1, ZSetAssumption, FS_CardinalityType, FS_EmptySet
    <3> QED
      BY <3>1
  <2>10. tree' \in Heap
    BY <1>1, <1>7, <2>8 DEF Heap
  <2>11. Bounded(tree', Name)
    <3>1. \A m \in Name : tree'[m] = tree[m] \/ m = d
      BY <1>8
    <3> QED
      BY <1>1, <1>8, <2>8, <2>9, <3>1 DEF Bounded
  <2> QED
    BY <2>7, <2>10, <2>11, TypesNext
<1>11. Nodes' = hmap \ {d} /\ Root' = top /\ Fixing' = NULL
  BY <1>0, <1>2, <1>4, <1>9 DEF Nodes, Root, Fixing
<1>12. Calls'
  <2>1. \A m \in hmap : score'[m] \in Score
    BY <1>1, <1>2, <1>3, <1>4, <1>7, <1>8
  <2> QED
    BY <1>0, <1>2, <1>9, <2>1 DEF Calls
<1>13. ASSUME NEW sub, Shape(sub) PROVE Places(sub)'
  <2>1. CASE arg = <<>>
    BY <1>9, <2>1 DEF Places
  <2>2. CASE arg # <<>>
    <3>1. SearchTree(tree, score, hmap \ {d}, top, sub)
      BY <1>0, <1>2, <1>13 DEF Shape
    <3>2. \A m \in hmap \ {d}, q \in Sides : top \notin Under(sub, tree[m][q])
      BY <1>1, <3>1, RootOnTop
    <3>3. d \in hmap /\ tree'[d] = avl_init
      BY <1>4, <1>7, <1>8, <2>2
    <3>4. \A m \in hmap \ {d}, q \in Sides : top \notin Under(sub, tree'[m][q])
      BY <1>1, <1>8, <3>2
    <3> QED
      BY <1>0, <1>5, <1>9, <1>11, <2>2, <3>3, <3>4 DEF Places
  <2> QED
    BY <2>1, <2>2
<1> QED
  BY <1>0, <1>1, <1>2, <1>8, <1>10, <1>11, <1>12, <1>13, TreeKeptElsewhere
-----------------------------------------------------------------------------
\* The invariant of the next state, from a tree that has its shape.
LEMMA InvNext ==
  ASSUME TypeOK', Calls', NEW sub, SearchTree(tree', score', Nodes', Root', sub),
         BalancedBut(tree', Nodes', Fixing'), CountedBut(tree', Nodes', sub, Fixing', Change'),
         Places(sub)'
  PROVE  ZInv'
<1>1. sub \in [Nodes' -> SUBSET Nodes']
  BY DEF SearchTree
<1>2. Shape(sub)'
  BY DEF Shape
<1> QED
  BY <1>1, <1>2 DEF ZInv

\* tree_add goes to where the new node belongs.
LEMMA InvTreeAdd ==
  ASSUME ZInv, TreeAdd
  PROVE  ZInv'
<1>0. /\ pc = "tree_add" /\ dels = <<>> /\ arg = <<>> /\ start = NULL /\ asked = <<>>
      /\ Fixing = NULL /\ Root = root /\ Nodes = hmap \ {node} /\ Full = hmap /\ Change = -1
  <2>1. pc = "tree_add" /\ dels = <<>>
    BY DEF TreeAdd, ZInv, Calls
  <2>2. Full = hmap
    BY <2>1, TypesHere DEF ZInv
  <2> QED
    BY <2>1, <2>2 DEF ZInv, Calls, Fixing, Root, Nodes, Change
<1> DEFINE T == hmap \ {node}
<1>1. Values /\ T \in SUBSET Name /\ hmap \in SUBSET Name /\ score \in [Name -> Int] /\ tree \in Heap
      /\ Bounded(tree, Name) /\ NULL \notin Name
  BY <1>0, TypesHere DEF ZInv
<1>2. PICK sub : Shape(sub)
  BY DEF ZInv
<1>3. /\ SearchTree(tree, score, T, root, sub)
      /\ BalancedBut(tree, T, NULL) /\ CountedBut(tree, T, sub, NULL, -1)
  BY <1>0, <1>2 DEF Shape
<1>4. /\ node \in hmap /\ tree[node] = avl_init
      /\ cur \in T \cup {NULL} /\ (cur = NULL => root = NULL)
      /\ \A n \in T, s \in Sides : cur \in Under(sub, tree[n][s]) => OnSide(score, s, node, n)
  BY <1>0, <1>2 DEF Shape, Places
<1>5. node \in Name /\ node # NULL /\ \A m \in hmap : score[m] \in Score
  BY <1>0, <1>1, <1>4 DEF ZInv, Calls
<1>6. UNCHANGED <<score, hmap, reply, asked, arg, node, dels, top, start, pos, offset, limit, out>>
  BY DEF TreeAdd, call, query
<1>7. pc' \in {"tree_add", "avl_fix"}
  BY <1>0 DEF TreeAdd
<1>8. Full' = hmap /\ Calls'
  <2>1. Full' = hmap
    BY <1>0, <1>6 DEF Full
  <2> QED
    BY <1>0, <1>5, <1>6, <1>7, <2>1 DEF Calls
<1>9. root \in Node /\ cur \in Node
  BY <1>1 DEF Values
<1>10. ASSUME root' \in Node, cur' \in Node, tree' \in Heap, Bounded(tree', Name) PROVE TypeOK'
  <2>1. Values'
    BY <1>1, <1>6, <1>7, <1>10 DEF Values
  <2> QED
    BY <1>10, <2>1, TypesNext
<1>11. ASSUME pc' = "avl_fix" PROVE Nodes' = hmap /\ Root' = root' /\ Fixing' = cur' /\ Change' = -1
  BY <1>0, <1>6, <1>8, <1>11 DEF Nodes, Root, Fixing, Change
<1>12. CASE cur = NULL
  <2>1. root' = node /\ cur' = node /\ pc' = "avl_fix" /\ tree' = tree
    BY <1>12 DEF TreeAdd
  <2>2. T = {}
    BY <1>3, <1>4, <1>12 DEF SearchTree, Under
  <2>3. hmap = {node}
    BY <1>4, <2>2
  <2>4. /\ BalancedBut(tree, {node}, node)
        /\ \E sub2 : SearchTree(tree, score, {node}, node, sub2)
                     /\ CountedBut(tree, {node}, sub2, node, -1)
    BY <1>4, <1>5, FirstLeaf
  <2>5. PICK sub2 : SearchTree(tree, score, {node}, node, sub2)
                    /\ CountedBut(tree, {node}, sub2, node, -1)
    BY <2>4
  <2>6. TypeOK'
    BY <1>1, <1>5, <1>10, <2>1 DEF Node
  <2>7. Nodes' = {node} /\ Root' = node /\ Fixing' = node /\ Change' = -1
    BY <1>11, <2>1, <2>3
  <2>8. Places(sub2)'
    BY <2>1, <2>7 DEF Places
  <2> QED
    BY <1>6, <1>8, <2>1, <2>4, <2>5, <2>6, <2>7, <2>8, InvNext
<1>13. CASE cur # NULL
  <2> DEFINE s == Side(cur)
  <2>1. cur \in T /\ s \in Sides
    BY <1>4, <1>13 DEF Side, Sides
  <2>2. OnSide(score, s, node, cur)
    <3>1. cur \in Name /\ cur # node
      BY <1>1, <2>1
    <3>2. Less(score, node, cur) \/ Less(score, cur, node)
      BY <1>1, <1>5, <3>1, LessOrder
    <3> QED
      BY <3>2 DEF OnSide, Side, Less
  <2> HIDE DEF s
  <2>3. CASE tree[cur][s] # NULL
    <3> DEFINE c == tree[cur][s]
    <3>1. cur' = c /\ UNCHANGED <<tree, root, pc>>
      BY <1>13, <2>3 DEF TreeAdd, s
    <3>2. Nodal(tree, T, sub) /\ Familial(tree, T, root, sub)
      BY <1>1, <1>3, TreeFacts
    <3>3. c \in T /\ c # root /\ tree[c].parent = cur
      BY <2>1, <2>3, <3>2 DEF Nodal, Familial
    <3> HIDE DEF c
    <3>4. Nodes' = T /\ Root' = Root /\ Fixing' = NULL
      BY <1>0, <1>6, <3>1 DEF Nodes, Root, Fixing
    <3>5. TypeOK'
      BY <1>1, <1>9, <1>10, <3>1, <3>3 DEF Node
    <3>6. ASSUME NEW n \in T, NEW q \in Sides, c \in Under(sub, tree[n][q])
          PROVE  OnSide(score, q, node, n)
      <4> DEFINE a == tree[n][q]
      <4>1. a \in T /\ c \in sub[a]
        BY <3>2, <3>6 DEF Nodal, Under
      <4>2. CASE a = c
        <5>1. n = cur
          BY <3>2, <3>3, <4>2 DEF Familial
        <5>2. q = s
          <6>1. tree[cur][s] = c /\ tree[cur][q] = c
            BY <4>2, <5>1 DEF c
          <6> QED
            BY <2>1, <3>2, <3>3, <6>1, OneSide
        <5> QED
          BY <2>2, <5>1, <5>2
      <4>3. CASE a # c
        <5>1. cur \in sub[a]
          BY <3>2, <3>3, <4>1, <4>3 DEF Familial
        <5>2. cur \in Under(sub, a)
          BY <1>1, <4>1, <5>1 DEF Under
        <5> QED
          BY <1>4, <5>2
      <4> QED
        BY <4>2, <4>3
    <3>7. ASSUME NEW sub2, Shape(sub2), sub2 = sub PROVE Places(sub2)'
      BY <1>0, <1>4, <1>6, <3>1, <3>3, <3>4, <3>6, <3>7, <1>1 DEF Places
    <3>8. Change' = Change
      BY <1>6 DEF Change
    <3> QED
      BY <1>0, <1>2, <1>3, <1>6, <1>8, <3>1, <3>4, <3>5, <3>7, <3>8, InvNext
  <2>4. CASE tree[cur][s] = NULL
    <3>1. /\ tree' = [tree EXCEPT ![node].parent = cur, ![cur][s] = node]
          /\ cur' = node /\ pc' = "avl_fix" /\ UNCHANGED root
      BY <1>13, <2>4 DEF TreeAdd, s
    <3>2. tree' \in Heap /\ Leafed(tree, tree', node, cur, s)
      BY <1>1, <1>5, <2>1, <3>1, LeafFields
    <3>3. node \in Name \ T /\ T \cup {node} = hmap
      BY <1>4, <1>5
    <3>4. /\ BalancedBut(tree', T \cup {node}, node)
          /\ \E sub2 : /\ SearchTree(tree', score, T \cup {node}, root, sub2)
                       /\ CountedBut(tree', T \cup {node}, sub2, node, -1)
      <4> HIDE DEF T
      <4> QED
        BY <1>1, <1>3, <1>4, <2>1, <2>2, <2>4, <3>2, <3>3, LeafTree
    <3>5. PICK sub2 : /\ SearchTree(tree', score, hmap, root, sub2)
                      /\ CountedBut(tree', hmap, sub2, node, -1)
      BY <3>3, <3>4
    <3>6. Bounded(tree', Name)
      BY <1>1, <3>2 DEF Bounded, Leafed
    <3>7. TypeOK'
      BY <1>5, <1>9, <1>10, <3>1, <3>2, <3>6 DEF Node
    <3>8. Nodes' = hmap /\ Root' = root /\ Fixing' = node /\ Change' = -1
      BY <1>11, <3>1
    <3>9. Places(sub2)'
      BY <1>4, <3>1, <3>8 DEF Places
    <3> QED
      BY <1>6, <1>8, <3>3, <3>4, <3>5, <3>7, <3>8, <3>9, InvNext
  <2> QED
    BY <2>3, <2>4
<1> QED
  BY <1>12, <1>13

\* avl_fix mends the tree up to the parent of cur.
LEMMA InvAvlFix ==
  ASSUME ZInv, AvlFix
  PROVE  ZInv'
<1> DEFINE T == Nodes
           w == avl_fix(tree, cur).heap
           x == avl_fix(tree, cur).root
           p == tree[cur].parent
           d == Change
<1>0. pc = "avl_fix" /\ start = NULL /\ asked = <<>> /\ Root = root /\ Fixing = cur
  BY DEF AvlFix, ZInv, Calls, Root, Fixing
<1>1. Values /\ T \in SUBSET Name /\ score \in [Name -> Int] /\ tree \in Heap
      /\ Bounded(tree, Name) /\ NULL \notin Name
  BY TypesHere DEF ZInv
<1>2. PICK sub : Shape(sub)
  BY DEF ZInv
<1>3. /\ SearchTree(tree, score, T, root, sub) /\ cur \in T
      /\ BalancedBut(tree, T, cur) /\ CountedBut(tree, T, sub, cur, d)
  BY <1>0, <1>2 DEF Shape, Places
<1>4. d \in {-1, 1} /\ (d = 1 => T # Name)
  <2>1. d = 1 => T = Full \ {Deleting} /\ Deleting \in Name
    BY <1>0, TypesHere DEF ZInv, Change, Nodes
  <2> QED
    BY <2>1 DEF Change
<1>5. FixedAs(tree, w, score, T, root, cur, x, d)
  <2> HIDE DEF T, d
  <2> QED
    BY <1>1, <1>3, FixStep
<1>6. /\ tree' = w
      /\ UNCHANGED <<score, hmap, reply, asked, arg, dels, start, pos, offset, limit, out>>
  BY DEF AvlFix, query
<1>7. \/ p # NULL /\ cur' = w[x].parent /\ UNCHANGED <<root, node, top, pc>>
      \/ /\ p = NULL /\ dels = <<>> /\ root' = x
         /\ node' = NULL /\ cur' = NULL /\ pc' = "idle" /\ UNCHANGED top
      \/ /\ p = NULL /\ dels # <<>> /\ top' = x
         /\ cur' = NULL /\ pc' = "deleted" /\ UNCHANGED <<root, node>>
  BY DEF AvlFix
<1> HIDE DEF w, x, d
<1>8. /\ w \in Heap /\ x \in T /\ w[x].parent = p
      /\ \A m \in (Name \ T) \cup ({p} \ {NULL}) : w[m].depth = tree[m].depth /\ w[m].cnt = tree[m].cnt
      /\ BalancedBut(w, T, p)
      /\ \E sub2 : /\ SearchTree(w, score, T, IF cur = root THEN x ELSE root, sub2)
                   /\ CountedBut(w, T, sub2, p, d)
  BY <1>5 DEF FixedAs
<1>9. PICK sub2 : /\ SearchTree(w, score, T, IF cur = root THEN x ELSE root, sub2)
                  /\ CountedBut(w, T, sub2, p, d)
  BY <1>8
<1>10. (p = NULL <=> cur = root) /\ (p # NULL => p \in T)
  <2>1. Familial(tree, T, root, sub)
    BY <1>1, <1>3, TreeFacts
  <2> QED
    BY <1>3, <2>1 DEF Familial
<1>11. Bounded(w, Name)
  <2>1. Bounded(w, T \ {p})
    <3> HIDE DEF T, p
    <3> QED
      BY <1>1, <1>4, <1>8, <1>9, TreeIsBounded
  <2>2. \A m \in Name : m \in T \ {p} \/ m \in (Name \ T) \cup ({p} \ {NULL})
    BY <1>1
  <2> QED
    BY <1>1, <1>8, <2>1, <2>2 DEF Bounded
<1>12. x \in Node /\ p \in Node /\ root \in Node /\ node \in Node /\ top \in Node
  BY <1>1, <1>8, <1>10 DEF Values, Node
<1>13. TypeOK'
  <2>1. root' \in Node /\ node' \in Node /\ top' \in Node /\ cur' \in Node
    BY <1>7, <1>8, <1>12 DEF Node
  <2>2. pc' \in {"avl_fix", "idle", "deleted"}
    BY <1>0, <1>7
  <2>3. Values'
    BY <1>1, <1>6, <2>1, <2>2 DEF Values
  <2> QED
    BY <1>6, <1>8, <1>11, <2>3, TypesNext
<1>14. Full' = Full /\ Deleting' = Deleting /\ Change' = d
  BY <1>6 DEF Full, Deleting, Change, d
<1>15. dels = <<>> => T = Full
  BY <1>0 DEF Nodes
<1>16. dels # <<>> => T = Full \ {Deleting}
  BY <1>0 DEF Nodes
<1>17. Calls'
  BY <1>0, <1>6, <1>7, <1>14 DEF ZInv, Calls, Successor
<1>18. CASE p # NULL
  <2>1. cur' = p /\ root' = root /\ pc' = pc /\ cur # root /\ p \in T
    BY <1>7, <1>8, <1>10, <1>18
  <2>2. Nodes' = T /\ Root' = root /\ Fixing' = p
    BY <1>0, <1>6, <1>14, <2>1 DEF Nodes, Root, Fixing
  <2>3. Places(sub2)'
    BY <1>0, <2>1, <2>2 DEF Places
  <2> QED
    BY <1>6, <1>8, <1>9, <1>13, <1>14, <1>17, <2>1, <2>2, <2>3, InvNext
<1>19. CASE p = NULL /\ dels = <<>>
  <2>1. root' = x /\ pc' = "idle" /\ cur = root
    BY <1>7, <1>10, <1>19
  <2>2. Nodes' = T /\ Root' = x /\ Fixing' = p
    BY <1>14, <1>15, <1>19, <2>1 DEF Nodes, Root, Fixing
  <2>3. Places(sub2)'
    BY <2>1 DEF Places
  <2> QED
    BY <1>6, <1>8, <1>9, <1>13, <1>14, <1>17, <2>1, <2>2, <2>3, InvNext
<1>20. CASE p = NULL /\ dels # <<>>
  <2>1. top' = x /\ pc' = "deleted" /\ cur = root
    BY <1>7, <1>10, <1>20
  <2>2. Nodes' = T /\ Root' = x /\ Fixing' = p
    BY <1>6, <1>14, <1>16, <1>20, <2>1 DEF Nodes, Root, Fixing
  <2>3. Places(sub2)'
    BY <2>1 DEF Places
  <2> QED
    BY <1>6, <1>8, <1>9, <1>13, <1>14, <1>17, <2>1, <2>2, <2>3, InvNext
<1> QED
  BY <1>18, <1>19, <1>20

\* avl_del unlinks a node, or goes to its right subtree, where the next name
\* is.
LEMMA InvAvlDel ==
  ASSUME ZInv, AvlDel
  PROVE  ZInv'
<1> DEFINE T == Full
           n == Deleting
           p == tree[n].parent
<1>0. /\ pc = "avl_del" /\ dels # <<>> /\ start = NULL /\ asked = <<>>
      /\ Root = root /\ Fixing = NULL /\ Nodes = T /\ Change = 1
  BY DEF AvlDel, ZInv, Calls, Root, Fixing, Nodes, Change
<1>1. Values /\ T \in SUBSET Name /\ score \in [Name -> Int] /\ tree \in Heap
      /\ Bounded(tree, Name) /\ NULL \notin Name /\ n \in T
  BY <1>0, TypesHere DEF ZInv
<1>2. PICK sub : Shape(sub)
  BY DEF ZInv
<1>3. /\ SearchTree(tree, score, T, root, sub)
      /\ BalancedBut(tree, T, NULL) /\ CountedBut(tree, T, sub, NULL, 1)
  BY <1>0, <1>2 DEF Shape
<1>4. UNCHANGED <<root, score, hmap, reply, asked, arg, node, dels, start, pos, offset, limit, out>>
  BY DEF AvlDel, query
<1>5. Full' = T /\ Deleting' = n /\ Change' = 1
  BY <1>0, <1>4 DEF Full, Deleting, Change
<1>6. \/ /\ tree[n].right # NULL
         /\ cur' = tree[n].right /\ pc' = "victim" /\ UNCHANGED <<tree, top>>
      \/ /\ tree[n].right = NULL /\ tree' = Unlink(tree, n) /\ cur' = p
         /\ \/ p # NULL /\ pc' = "avl_fix" /\ UNCHANGED top
            \/ p = NULL /\ pc' = "deleted" /\ top' = tree[n].left
  BY DEF AvlDel
<1> HIDE DEF n, T
<1>7. Calls'
  <2>1. pc' \in {"victim", "avl_fix", "deleted"}
    BY <1>6
  <2> QED
    BY <1>0, <1>4, <1>5, <2>1 DEF ZInv, Calls, Successor, T
<1>8. n \in Name /\ top \in Node /\ tree[n].left \in Node /\ tree[n].right \in Node /\ p \in Node
  BY <1>1 DEF Values, Heap
<1>9. ASSUME tree' \in Heap, Bounded(tree', Name) PROVE TypeOK'
  <2>1. cur' \in Node /\ top' \in Node
    BY <1>6, <1>8
  <2>2. pc' \in {"victim", "avl_fix", "deleted"}
    BY <1>6
  <2>3. Values'
    BY <1>1, <1>4, <2>1, <2>2 DEF Values
  <2> QED
    BY <1>9, <2>3, TypesNext
<1>10. CASE tree[n].right # NULL
  <2> DEFINE c == tree[n].right
  <2>1. cur' = c /\ pc' = "victim" /\ UNCHANGED <<tree, top>>
    BY <1>6, <1>10
  <2>2. Nodal(tree, T, sub) /\ tree[n]["right"] = c /\ "right" \in Sides
    BY <1>1, <1>3, TreeIsNodal DEF Sides
  <2>3. c \in T /\ c \in Name /\ sub[c] = Under(sub, c) /\ n \notin sub[c] /\ c \in sub[n] /\ n \in sub[n]
    BY <1>1, <1>10, <2>2 DEF Nodal
  <2>4. /\ \A m \in Under(sub, tree[n]["left"]) : Less(score, m, n)
        /\ \A m \in sub[c] : Less(score, n, m)
        /\ \A m \in Under(sub, tree[c]["right"]) : Less(score, c, m)
        /\ sub[n] = {n} \cup Under(sub, tree[n]["left"]) \cup sub[c]
        /\ sub[c] = {c} \cup Under(sub, tree[c]["left"]) \cup Under(sub, tree[c]["right"])
    <3>1. \A k \in T, s \in Sides : \A m \in Under(sub, tree[k][s]) : OnSide(score, s, m, k)
      BY <1>3 DEF SearchTree
    <3>2. \A k \in T :
            sub[k] = {k} \cup Under(sub, tree[k]["left"]) \cup Under(sub, tree[k]["right"])
      BY <1>3 DEF SearchTree
    <3> HIDE DEF c
    <3> QED
      BY <1>1, <2>2, <2>3, <3>1, <3>2 DEF OnSide, Sides
  <2> HIDE DEF c
  <2>5. Less(score, n, c)
    BY <1>1, <2>2, <2>3, <2>4 DEF Nodal
  <2>6. ASSUME NEW k \in T, Less(score, n, k), Less(score, k, c)
        PROVE  k \in Under(sub, tree[c]["left"])
    <3>0. k \in Name
      BY <1>1
    <3>1. k \in sub[n]
      BY <1>1, <1>3, <1>8, <2>3, <2>6, <3>0, LessOrder, Convex
    <3>2. k \in sub[c]
      BY <1>1, <1>8, <2>4, <2>6, <3>0, <3>1, LessOrder
    <3> QED
      BY <1>1, <2>3, <2>4, <2>6, <3>0, <3>2, LessOrder
  <2>7. Nodes' = Nodes /\ Root' = Root /\ Fixing' = NULL
    BY <1>0, <1>4, <1>5, <2>1 DEF Nodes, Root, Fixing
  <2>8. Places(sub)'
    BY <1>0, <1>4, <1>5, <2>1, <2>3, <2>5, <2>6, <2>7 DEF Places
  <2>9. TypeOK'
    BY <1>1, <1>9, <2>1
  <2> QED
    BY <1>0, <1>3, <1>4, <1>5, <1>7, <2>1, <2>7, <2>8, <2>9, InvNext
<1>11. CASE tree[n].right = NULL
  <2>1. tree' = Unlink(tree, n) /\ cur' = p
    BY <1>6, <1>11
  <2>2. tree' \in Heap /\ Unlinked(tree, tree', n)
    BY <1>1, <1>3, <2>1, UnlinkFields
  <2>31. Without(tree', score, T, root, n, tree[n].left, p)
    BY <1>1, <1>3, <1>11, <2>2, UnlinkTree
  <2>3. /\ BalancedBut(tree', T \ {n}, p)
        /\ p \in (T \ {n}) \cup {NULL} /\ (p = NULL <=> n = root)
        /\ \E sub2 : /\ SearchTree(tree', score, T \ {n}, IF n = root THEN tree[n].left ELSE root, sub2)
                     /\ CountedBut(tree', T \ {n}, sub2, p, 1)
    BY <2>31 DEF Without
  <2>4. PICK sub2 :
           /\ SearchTree(tree', score, T \ {n}, IF n = root THEN tree[n].left ELSE root, sub2)
           /\ CountedBut(tree', T \ {n}, sub2, p, 1)
    BY <2>3
  <2>5. TypeOK'
    <3>1. Bounded(tree', Name)
      BY <1>1, <2>2 DEF Bounded, Unlinked
    <3> QED
      BY <1>9, <2>2, <3>1
  <2>6. CASE p # NULL
    <3>1. pc' = "avl_fix" /\ n # root /\ p \in T \ {n}
      BY <1>6, <1>11, <2>3, <2>6
    <3>2. Nodes' = T \ {n} /\ Root' = root /\ Fixing' = p
      BY <1>0, <1>4, <1>5, <2>1, <3>1 DEF Nodes, Root, Fixing
    <3>3. Places(sub2)'
      BY <2>1, <3>1, <3>2 DEF Places
    <3> QED
      BY <1>4, <1>5, <1>7, <2>3, <2>4, <2>5, <3>1, <3>2, <3>3, InvNext
  <2>7. CASE p = NULL
    <3>1. pc' = "deleted" /\ n = root /\ top' = tree[n].left
      BY <1>6, <1>11, <2>3, <2>7
    <3>2. Nodes' = T \ {n} /\ Root' = tree[n].left /\ Fixing' = p
      BY <1>0, <1>4, <1>5, <2>7, <3>1 DEF Nodes, Root, Fixing
    <3>3. Places(sub2)'
      BY <3>1 DEF Places
    <3> QED
      BY <1>4, <1>5, <1>7, <2>3, <2>4, <2>5, <3>1, <3>2, <3>3, InvNext
  <2> QED
    BY <2>6, <2>7
<1> QED
  BY <1>10, <1>11

\* avl_del's loop keeps the next name in the subtree of cur.
LEMMA InvVictim ==
  ASSUME ZInv, Victim
  PROVE  ZInv'
<1> DEFINE T == Full
           n == Deleting
<1>0. /\ pc = "victim" /\ dels # <<>> /\ start = NULL /\ asked = <<>>
      /\ Root = root /\ Fixing = NULL /\ Nodes = T
  BY DEF Victim, ZInv, Calls, Root, Fixing, Nodes
<1>1. Values /\ T \in SUBSET Name /\ score \in [Name -> Int] /\ tree \in Heap
      /\ Bounded(tree, Name) /\ NULL \notin Name /\ n \in T /\ n \in Name /\ dels \in Seq(Name)
      /\ Len(dels) \in Nat \ {0}
  BY <1>0, TypesHere DEF ZInv, Values
<1>2. PICK sub : Shape(sub)
  BY DEF ZInv
<1>3. SearchTree(tree, score, T, root, sub)
  BY <1>0, <1>2 DEF Shape
<1>4. /\ cur \in T /\ Less(score, n, cur) /\ n \notin sub[cur]
      /\ \A k \in T : Less(score, n, k) /\ Less(score, k, cur) => k \in Under(sub, tree[cur]["left"])
  BY <1>0, <1>2 DEF Shape, Places
<1>5. UNCHANGED <<tree, root, score, hmap, reply, asked, arg, node, top,
                  start, pos, offset, limit, out>>
  BY DEF Victim, query, zset
<1>6. \/ /\ tree[cur].left # NULL
         /\ cur' = tree[cur].left /\ UNCHANGED <<dels, pc>>
      \/ /\ tree[cur].left = NULL
         /\ dels' = Append(dels, cur) /\ cur' = NULL /\ pc' = "avl_del"
  BY DEF Victim
<1>7. cur \in Name /\ tree[cur].left \in Node /\ NULL \in Node
  BY <1>1, <1>4 DEF Heap, Node
<1>8. dels' \in Seq(Name) /\ dels' # <<>>
  <2>1. CASE tree[cur].left # NULL
    BY <1>0, <1>1, <1>6, <2>1
  <2>2. CASE tree[cur].left = NULL
    BY <1>1, <1>6, <1>7, <2>2
  <2> QED
    BY <2>1, <2>2
<1>9. TypeOK'
  <2>1. cur' \in Node /\ pc' \in {"victim", "avl_del"}
    BY <1>0, <1>6, <1>7
  <2>2. Values'
    BY <1>1, <1>5, <1>8, <2>1 DEF Values
  <2> QED
    BY <1>1, <1>5, <2>2, TypesNext
<1>10. CASE tree[cur].left # NULL
  <2> DEFINE c == tree[cur].left
  <2>1. cur' = c /\ UNCHANGED <<dels, pc>>
    BY <1>6, <1>10
  <2>2. Nodal(tree, T, sub) /\ Nested(tree, T, sub) /\ tree[cur]["left"] = c /\ "left" \in Sides
    BY <1>1, <1>3, TreeFacts DEF Sides
  <2>3. c \in T /\ c \in Name /\ sub[c] = Under(sub, c) /\ c \in sub[cur] /\ cur \in sub[cur]
        /\ n \notin sub[c] /\ c \in sub[c]
    BY <1>1, <1>4, <1>10, <2>2 DEF Nodal, Nested
  <2>4. Less(score, n, c)
    <3>1. \/ \A k \in sub[cur] : Less(score, n, k)
          \/ \A k \in sub[cur] : Less(score, k, n)
      BY <1>1, <1>3, <1>4, Convex
    <3> QED
      BY <1>1, <1>4, <1>7, <2>3, <3>1, LessOrder
  <2>5. Less(score, c, cur)
    <3>1. \A m \in Under(sub, tree[cur]["left"]) : OnSide(score, "left", m, cur)
      BY <1>3, <1>4 DEF SearchTree, Sides
    <3> QED
      BY <2>2, <2>3, <3>1 DEF OnSide
  <2>6. /\ sub[c] = {c} \cup Under(sub, tree[c]["left"]) \cup Under(sub, tree[c]["right"])
        /\ \A m \in Under(sub, tree[c]["right"]) : Less(score, c, m)
    <3>1. \A m \in Under(sub, tree[c]["right"]) : OnSide(score, "right", m, c)
      BY <1>3, <2>3 DEF SearchTree, Sides
    <3>2. sub[c] = {c} \cup Under(sub, tree[c]["left"]) \cup Under(sub, tree[c]["right"])
      BY <1>3, <2>3 DEF SearchTree
    <3> QED
      BY <3>1, <3>2 DEF OnSide
  <2> HIDE DEF c
  <2>7. ASSUME NEW k \in T, Less(score, n, k), Less(score, k, c)
        PROVE  k \in Under(sub, tree[c]["left"])
    <3>0. k \in Name
      BY <1>1
    <3>1. Less(score, k, cur)
      BY <1>1, <1>7, <2>3, <2>5, <2>7, <3>0, LessOrder
    <3>2. k \in sub[c]
      BY <1>4, <2>2, <2>3, <2>7, <3>1
    <3> QED
      BY <1>1, <2>3, <2>6, <2>7, <3>0, <3>2, LessOrder
  <2>8. Full' = Full /\ Deleting' = Deleting
    BY <1>5, <2>1 DEF Full, Deleting
  <2>9. Nodes' = Nodes /\ Root' = Root /\ Fixing' = NULL /\ Change' = Change
    BY <1>0, <1>5, <2>1, <2>8 DEF Nodes, Root, Fixing, Change
  <2>10. Calls'
    BY <1>0, <1>5, <2>1, <2>8 DEF ZInv, Calls, Successor
  <2>11. Places(sub)'
    BY <1>0, <1>1, <1>5, <2>1, <2>3, <2>4, <2>7, <2>8, <2>9 DEF Places
  <2>12. BalancedBut(tree, T, NULL) /\ CountedBut(tree, T, sub, NULL, Change)
    BY <1>0, <1>2 DEF Shape
  <2> QED
    BY <1>0, <1>3, <1>5, <1>9, <2>9, <2>10, <2>11, <2>12, InvNext
<1>11. CASE tree[cur].left = NULL
  <2>1. dels' = Append(dels, cur) /\ cur' = NULL /\ pc' = "avl_del"
    BY <1>6, <1>11
  <2> DEFINE L == Len(dels)
  <2>2. /\ Len(dels') = L + 1 /\ dels'[L + 1] = cur /\ dels[L] = n
        /\ \A i \in 1 .. L : dels'[i] = dels[i] /\ dels[i] \in Name
    BY <1>1, <1>7, <2>1 DEF Deleting
  <2>3. L \in Nat \ {0}
    BY <1>1
  <2> HIDE DEF L
  <2>4. \A i \in 2 .. L : /\ dels[i] \in hmap /\ Less(score, dels[1], dels[i])
                          /\ Successor(dels[i - 1], dels[i])
    BY DEF ZInv, Calls, L
  <2>5. Less(score, dels[1], cur)
    <3>1. CASE L = 1
      BY <1>4, <2>2, <3>1
    <3>2. CASE L # 1
      <4>1. Less(score, dels[1], n) /\ dels[1] \in Name
        BY <2>2, <2>3, <2>4, <3>2
      <4> QED
        BY <1>1, <1>4, <1>7, <4>1, LessOrder
    <3> QED
      BY <3>1, <3>2
  <2>6. cur \in hmap
    <3>1. PICK i \in 1 .. L : cur \in hmap \/ cur = dels[i]
      BY <1>4, <2>3 DEF Full, L
    <3>2. cur # dels[1]
      BY <1>1, <1>7, <2>5, LessOrder
    <3> QED
      BY <2>3, <2>4, <3>1, <3>2
  <2>7. Full' = Full
    <3>1. Full = hmap \cup {dels[i] : i \in 1 .. L}
      BY DEF Full, L
    <3>2. Full' = hmap \cup {dels'[i] : i \in 1 .. (L + 1)}
      BY <1>5, <2>2 DEF Full
    <3>3. \A i \in 1 .. (L + 1) : i \in 1 .. L \/ i = L + 1
      BY <2>3
    <3>4. \A i \in 1 .. L : i \in 1 .. (L + 1)
      BY <2>3
    <3>5. \A i \in 1 .. (L + 1) : dels'[i] \in Full
      BY <1>4, <2>2, <3>1, <3>3
    <3>6. \A i \in 1 .. L : dels[i] \in Full'
      BY <2>2, <3>2, <3>4
    <3> QED
      BY <3>1, <3>2, <3>5, <3>6
  <2>8. Successor(n, cur)
    BY <1>4, <1>11 DEF Successor, Under
  <2>9. ASSUME NEW i \in 2 .. Len(dels')
        PROVE  /\ dels'[i] \in hmap' /\ Less(score', dels'[1], dels'[i])
               /\ Successor(dels[i - 1], dels[i])'
    <3>1. i \in 2 .. L \/ i = L + 1
      BY <2>2, <2>3
    <3>2. 1 \in 1 .. L /\ dels'[1] = dels[1]
      BY <2>2, <2>3
    <3>3. CASE i \in 2 .. L
      <4>1. i \in 1 .. L /\ i - 1 \in 1 .. L
        BY <2>3, <3>3
      <4>2. dels'[i] = dels[i] /\ dels'[i - 1] = dels[i - 1]
        BY <2>2, <4>1
      <4> QED
        BY <1>5, <2>4, <2>7, <3>2, <3>3, <4>2 DEF Successor
    <3>4. CASE i = L + 1
      <4>1. dels'[i] = cur /\ dels'[i - 1] = n
        <5>1. L \in 1 .. L /\ i - 1 = L
          BY <2>3, <3>4
        <5> QED
          BY <2>2, <3>4, <5>1
      <4> QED
        BY <1>5, <2>5, <2>6, <2>7, <2>8, <3>2, <4>1 DEF Successor
    <3> QED
      BY <3>1, <3>3, <3>4
  <2>10. dels'[1] = dels[1]
    BY <2>2, <2>3
  <2>11. Calls'
    <3>1. \A m \in Full' : score'[m] \in Score
      BY <1>5, <2>7 DEF ZInv, Calls
    <3>2. IF arg' = <<>> THEN dels'[1] \notin hmap' ELSE arg'[2] = dels'[1] /\ dels'[1] \in hmap'
      BY <1>0, <1>5, <2>10 DEF ZInv, Calls
    <3> QED
      BY <1>0, <1>5, <1>8, <2>1, <2>9, <3>1, <3>2 DEF Calls
  <2>12. Nodes' = Nodes /\ Root' = Root /\ Fixing' = NULL
    BY <1>0, <1>5, <2>1, <2>7 DEF Nodes, Root, Fixing
  <2>13. \A sub2 : Shape(sub2) => Places(sub2)'
    BY <2>1 DEF Places
  <2> QED
    BY <1>0, <1>5, <1>9, <2>11, <2>12, <2>13, TreeKept
<1> QED
  BY <1>10, <1>11

\* The victim takes the place of the node it comes next after.
LEMMA InvVictimDeleted ==
  ASSUME ZInv, VictimDeleted
  PROVE  ZInv'
<1> DEFINE L == Len(dels)
           n == dels[L - 1]
           v == dels[L]
           T == Full \ {v}
           u == TakePlace(tree, n, v)
           T2 == (T \ {n}) \cup {v}
<1>0. /\ pc = "deleted" /\ L > 1 /\ start = NULL /\ asked = <<>>
      /\ Root = top /\ Fixing = NULL /\ dels # <<>> /\ Deleting = v
  BY DEF VictimDeleted, ZInv, Calls, Root, Fixing, Deleting
<1>1. Values /\ Full \in SUBSET Name /\ score \in [Name -> Int] /\ tree \in Heap
      /\ Bounded(tree, Name) /\ NULL \notin Name /\ dels \in Seq(Name) /\ L \in Nat
  BY <1>0, TypesHere DEF ZInv, Values
<1>2. /\ \A i \in 1 .. L : dels[i] \in Name /\ dels[i] \in Full
      /\ \A i \in 2 .. L : /\ dels[i] \in hmap /\ Less(score, dels[1], dels[i])
                           /\ Successor(dels[i - 1], dels[i])
  BY <1>1 DEF ZInv, Calls, Full
<1>3. /\ n \in Name /\ n \in Full /\ v \in Name /\ v \in hmap /\ Successor(n, v)
      /\ L - 1 \in 1 .. L /\ L \in 2 .. L
  <2>1. L - 1 \in 1 .. L /\ L \in 2 .. L /\ L \in 1 .. L
    BY <1>0, <1>1
  <2> QED
    BY <1>2, <2>1
<1>4. n # v /\ Less(score, n, v) /\ \A k \in Full : ~ (Less(score, n, k) /\ Less(score, k, v))
  BY <1>1, <1>3, LessOrder DEF Successor
<1>5. T \in SUBSET Name /\ n \in T /\ v \in Name \ T /\ Nodes = T
  BY <1>0, <1>1, <1>3, <1>4 DEF Nodes
<1>6. PICK sub : Shape(sub)
  BY DEF ZInv
<1>7. /\ SearchTree(tree, score, T, top, sub)
      /\ BalancedBut(tree, T, NULL) /\ CountedBut(tree, T, sub, NULL, 1)
  <2>1. Change = 1
    BY <1>0 DEF Change
  <2> QED
    BY <1>0, <1>5, <1>6, <2>1 DEF Shape
<1>8. /\ tree' = u
      /\ top' = IF tree[n].parent = NULL THEN v ELSE top
      /\ dels' = SubSeq(dels, 1, L - 1)
      /\ UNCHANGED <<root, score, hmap, reply, asked, pc, arg, node, cur,
                     start, pos, offset, limit, out>>
  BY <1>0 DEF VictimDeleted, query
<1> HIDE DEF n, v, T, u
<1>9. \A k \in T \ {n} : /\ Less(score, k, n) => Less(score, k, v)
                         /\ Less(score, n, k) => Less(score, v, k)
  <2> SUFFICES ASSUME NEW k \in T \ {n}
               PROVE  /\ Less(score, k, n) => Less(score, k, v)
                      /\ Less(score, n, k) => Less(score, v, k)
    OBVIOUS
  <2>1. k \in Name /\ k \in Full /\ k # v
    BY <1>5 DEF T
  <2> QED
    BY <1>1, <1>3, <1>4, <2>1, LessOrder
<1>10. /\ u \in Heap /\ Renamed(tree, u, T, n, v)
       /\ \A m \in Name \ (T \cup {v}) : u[m].depth = tree[m].depth /\ u[m].cnt = tree[m].cnt
       /\ u[n].depth = tree[n].depth /\ u[n].cnt = tree[n].cnt
  BY <1>1, <1>5, <1>7, TakePlaceFields DEF u
<1>11. /\ BalancedBut(u, T2, NULL)
       /\ \E sub2 : SearchTree(u, score, T2, As(n, v, top), sub2) /\ CountedBut(u, T2, sub2, NULL, 1)
  BY <1>1, <1>5, <1>7, <1>9, <1>10, RenamedTree
<1>12. PICK sub2 : SearchTree(u, score, T2, As(n, v, top), sub2) /\ CountedBut(u, T2, sub2, NULL, 1)
  BY <1>11
<1>13. Bounded(u, Name)
  <2> SUFFICES ASSUME NEW k \in Name
               PROVE  \E m \in Name : u[k].depth = tree[m].depth /\ u[k].cnt = tree[m].cnt
    BY <1>1 DEF Bounded
  <2>1. CASE k = v
    <3>1. u[As(n, v, n)].depth = tree[n].depth /\ u[As(n, v, n)].cnt = tree[n].cnt
      BY <1>5, <1>10 DEF Renamed
    <3> QED
      BY <1>3, <2>1, <3>1 DEF As
  <2>2. CASE k \in T \ {n}
    <3>1. u[As(n, v, k)].depth = tree[k].depth /\ u[As(n, v, k)].cnt = tree[k].cnt
      BY <1>10, <2>2 DEF Renamed
    <3> QED
      BY <2>2, <3>1 DEF As
  <2>3. CASE k = n
    BY <1>10, <2>3
  <2>4. CASE k \notin T \cup {v}
    BY <1>10, <2>4
  <2> QED
    BY <2>1, <2>2, <2>3, <2>4
<1>14. /\ dels' \in Seq(Name) /\ Len(dels') = L - 1 /\ dels' # <<>>
       /\ \A i \in 1 .. (L - 1) : dels'[i] = dels[i] /\ i \in 1 .. L
  <2>1. L \in Nat /\ L > 1 /\ dels \in Seq(Name) /\ \A i \in 1 .. L : dels[i] \in Name
    BY <1>0, <1>1, <1>2
  <2>2. /\ Len(dels') = L - 1
        /\ \A i \in 1 .. (L - 1) : dels'[i] = dels[i] /\ i \in 1 .. L
    BY <1>8, <2>1
  <2>3. dels' \in Seq(Name)
    BY <1>8, <2>1
  <2>4. dels' # <<>>
    BY <2>1, <2>2
  <2> QED
    BY <2>2, <2>3, <2>4
<1>15. Full' = Full
  <2>1. Full = hmap \cup {dels[i] : i \in 1 .. L}
    BY DEF Full
  <2>2. Full' = hmap \cup {dels'[i] : i \in 1 .. (L - 1)}
    BY <1>8, <1>14 DEF Full
  <2>3. \A i \in 1 .. L : i \in 1 .. (L - 1) \/ i = L
    BY <1>1
  <2>4. \A i \in 1 .. (L - 1) : dels'[i] \in Full
    BY <1>14, <2>1
  <2>5. \A i \in 1 .. L : dels[i] \in Full'
    BY <1>3, <1>14, <2>2, <2>3 DEF v
  <2> QED
    BY <2>1, <2>2, <2>4, <2>5
<1>16. Deleting' = n
  <2>1. L - 1 \in 1 .. (L - 1)
    BY <1>0, <1>1
  <2> QED
    BY <1>14, <2>1 DEF Deleting, n
<1>17. Nodes' = T2 /\ Fixing' = NULL /\ Change' = 1
  <2>1. Full \ {n} = T2
    BY <1>3, <1>4 DEF T, Full
  <2> QED
    BY <1>0, <1>8, <1>14, <1>15, <1>16, <2>1 DEF Nodes, Fixing, Change
<1>18. Root' = As(n, v, top)
  <2>1. tree[n].parent = NULL <=> n = top
    <3>1. Familial(tree, T, top, sub)
      BY <1>1, <1>5, <1>7, TreeFacts
    <3> QED
      BY <1>5, <3>1 DEF Familial
  <2> QED
    BY <1>0, <1>8, <2>1 DEF Root, As
<1>19. TypeOK'
  <2>1. top' \in Node
    BY <1>1, <1>3, <1>8 DEF Values, Node
  <2>2. Values'
    BY <1>1, <1>8, <1>14, <2>1 DEF Values
  <2> QED
    BY <1>8, <1>10, <1>13, <2>2, TypesNext
<1>20. Calls'
  <2>1. 1 \in 1 .. (L - 1) /\ dels'[1] = dels[1]
    BY <1>0, <1>1, <1>14
  <2>2. ASSUME NEW i \in 2 .. Len(dels')
        PROVE  /\ dels'[i] \in hmap' /\ Less(score', dels'[1], dels'[i])
               /\ Successor(dels[i - 1], dels[i])'
    <3>1. i \in 1 .. (L - 1) /\ i - 1 \in 1 .. (L - 1) /\ i \in 2 .. L
      BY <1>1, <1>14
    <3>2. dels'[i] = dels[i] /\ dels'[i - 1] = dels[i - 1]
      BY <1>14, <3>1
    <3> QED
      BY <1>2, <1>8, <1>15, <2>1, <3>1, <3>2 DEF Successor
  <2>3. \A m \in Full' : score'[m] \in Score
    BY <1>8, <1>15 DEF ZInv, Calls
  <2>4. IF arg' = <<>> THEN dels'[1] \notin hmap' ELSE arg'[2] = dels'[1] /\ dels'[1] \in hmap'
    BY <1>0, <1>8, <2>1 DEF ZInv, Calls
  <2> QED
    BY <1>0, <1>8, <1>14, <2>2, <2>3, <2>4 DEF Calls
<1>21. Places(sub2)'
  BY <1>0, <1>8 DEF Places
<1> QED
  BY <1>8, <1>11, <1>12, <1>17, <1>18, <1>19, <1>20, <1>21, InvNext
-----------------------------------------------------------------------------
\* Every step keeps the invariant.
LEMMA InvStep ==
  ASSUME ZInv, [Next]_vars
  PROVE  ZInv'
<1>1. CASE \E n \in Name, s \in Score : AddNew(n, s) \/ Update(n, s)
  BY <1>1, InvAddNew, InvUpdate
<1>2. CASE \E n \in Name : zset_pop(n)
  BY <1>2, InvZsetPop
<1>3. CASE \E n \in Name, s \in Score, o \in Offset, lim \in Limit : Query(s, n, o, lim)
  BY <1>3, InvQuery
<1>4. CASE Step
  BY <1>4, InvTreeAdd, InvAvlFix, InvAvlDel, InvVictim, InvVictimDeleted, InvDeleted,
     InvZSetQuery, InvOffsetStep, InvOutput DEF Step, QueryStep
<1>5. CASE UNCHANGED vars
  BY <1>5, InvStutter
<1> QED
  BY <1>1, <1>2, <1>3, <1>4, <1>5 DEF Next

\* The invariant of the sorted set: at every iteration of every loop, the
\* nodes that are linked are one search tree, balanced and counted but for
\* the path that avl_fix has yet to climb (avl.cpp:118-214).
THEOREM ZInvHolds == SafeSpec => []ZInv
<1>1. ZInv /\ [Next]_vars => ZInv'
  BY InvStep
<1> QED
  BY <1>1, InvInit, PTL DEF SafeSpec

\* However many names there are, no link, depth or count leaves its range:
\* avl_update never stores a count beyond the number of names, even in a
\* tree that avl_del is taking apart (avl.cpp:21-24, 155-214).
THEOREM TypesHold == SafeSpec => []TypeOK
<1>1. ZInv => TypeOK
  BY DEF ZInv
<1> QED
  BY <1>1, ZInvHolds, PTL

\* The links of a tree reach all of its nodes.
LEMMA TreeIsLinked ==
  ASSUME NEW t, NEW sc \in [Name -> Int], NEW T \in SUBSET Name, NEW r, NEW sub,
         SearchTree(t, sc, T, r, sub), NEW S \in SUBSET Name, r \in S \cup {NULL},
         \A n \in S : t[n].left \in S \cup {NULL} /\ t[n].right \in S \cup {NULL}
  PROVE  T \subseteq S
<1>1. Nodal(t, T, sub) /\ Familial(t, T, r, sub) /\ sub \in [T -> SUBSET T] /\ NULL \notin T
  BY TreeFacts
<1>2. SUFFICES ASSUME T \ S # {} PROVE FALSE
  OBVIOUS
<1>3. PICK a \in T \ S : \A b \in T \ S : sub[a] \subseteq sub[b] => sub[b] = sub[a]
  <2> DEFINE B == T \ S
  <2>1. B \in SUBSET T /\ B # {}
    BY <1>2
  <2> HIDE DEF B
  <2>2. \E a \in B : \A b \in B : sub[a] \subseteq sub[b] => sub[b] = sub[a]
    BY <1>1, <2>1, GreatestSubtree
  <2> QED
    BY <2>2 DEF B
<1>4. a # r
  BY <1>1, <1>3
<1> DEFINE p == t[a].parent
<1>5. PICK s \in Sides : t[p][s] = a
  BY <1>1, <1>3, <1>4 DEF Familial
<1>6. p \in T /\ p \notin sub[a] /\ a \in sub[p]
  BY <1>1, <1>3, <1>4 DEF Familial
<1> HIDE DEF p
<1>7. sub[a] \subseteq sub[p] /\ p \in sub[p]
  BY <1>1, <1>3, <1>5, <1>6 DEF Nodal, Under
<1>8. p \in S
  BY <1>3, <1>6, <1>7
<1>9. t[p][s] \in S \cup {NULL}
  BY <1>8 DEF Sides
<1> QED
  BY <1>1, <1>3, <1>5, <1>9

\* What ZInv says of the tree while no operation changes it.
LEMMA TreeAtRest ==
  ASSUME ZInv, AtRest
  PROVE  /\ dels = <<>> /\ hmap \in SUBSET Name /\ score \in [Name -> Int] /\ tree \in Heap
         /\ NULL \notin Name
         /\ \E sub : /\ SearchTree(tree, score, hmap, root, sub)
                     /\ BalancedBut(tree, hmap, NULL) /\ CountedBut(tree, hmap, sub, NULL, -1)
<1>1. dels = <<>> /\ pc \notin {"tree_add", "avl_fix", "deleted"}
  BY DEF AtRest, ZInv, Calls
<1>2. Nodes = hmap /\ Root = root /\ Fixing = NULL /\ Change = -1
  BY <1>1, IdleTree DEF Change
<1>3. hmap \in SUBSET Name /\ score \in [Name -> Int] /\ tree \in Heap /\ NULL \notin Name
  BY <1>2, TypesHere DEF ZInv
<1>4. PICK sub : Shape(sub)
  BY DEF ZInv
<1> QED
  BY <1>1, <1>2, <1>3, <1>4 DEF Shape

\* After any number of insertions, deletions and new scores, the nodes that
\* the links of the tree reach are those in the hash map, and each child
\* points back to its parent (zset.cpp:217-228, avl.cpp:183-212).
THEOREM IndexesAlwaysAgree == SafeSpec => []IndexesAgree
<1>1. ASSUME ZInv, AtRest
      PROVE  /\ Linked = hmap
             /\ root # NULL => tree[root].parent = NULL
             /\ \A n \in hmap, c \in Name :
                  c \in {tree[n].left, tree[n].right} <=> c \in hmap /\ tree[c].parent = n
  <2>1. hmap \in SUBSET Name /\ score \in [Name -> Int] /\ NULL \notin Name
    BY <1>1, TreeAtRest
  <2>2. PICK sub : SearchTree(tree, score, hmap, root, sub)
    BY <1>1, TreeAtRest
  <2>3. Nodal(tree, hmap, sub) /\ Familial(tree, hmap, root, sub)
    BY <2>1, <2>2, TreeFacts
  <2>4. root \in hmap \cup {NULL} /\ (root # NULL => tree[root].parent = NULL)
    BY <2>2 DEF SearchTree
  <2>5. \A n \in hmap : /\ tree[n]["left"] \in hmap \cup {NULL}
                        /\ tree[n]["right"] \in hmap \cup {NULL}
    BY <2>3 DEF Nodal, Sides
  <2>6. Linked \subseteq hmap
    <3>1. Closed(hmap)
      BY <2>4, <2>5 DEF Closed
    <3> QED
      BY <2>1, <3>1 DEF Linked
  <2>7. hmap \subseteq Linked
    <3>1. \A S \in SUBSET Name : Closed(S) => hmap \subseteq S
      BY <2>1, <2>2, TreeIsLinked DEF Closed
    <3> QED
      BY <2>1, <3>1 DEF Linked
  <2>8. ASSUME NEW n \in hmap, NEW c \in Name
        PROVE  c \in {tree[n].left, tree[n].right} <=> c \in hmap /\ tree[c].parent = n
    <3>1. ASSUME c \in {tree[n].left, tree[n].right} PROVE c \in hmap /\ tree[c].parent = n
      <4>1. PICK s \in Sides : tree[n][s] = c
        BY <3>1 DEF Sides
      <4> QED
        BY <2>1, <2>3, <4>1 DEF Nodal
    <3>2. ASSUME c \in hmap, tree[c].parent = n PROVE c \in {tree[n].left, tree[n].right}
      <4>1. c # root
        BY <2>1, <2>4, <3>2
      <4>2. PICK s \in Sides : tree[tree[c].parent][s] = c
        BY <2>3, <3>2, <4>1 DEF Familial
      <4> QED
        BY <3>2, <4>2 DEF Sides
    <3> QED
      BY <3>1, <3>2
  <2> QED
    BY <2>4, <2>6, <2>7, <2>8
<1>2. ZInv => IndexesAgree
  BY <1>1 DEF IndexesAgree
<1> QED
  BY <1>2, ZInvHolds, PTL

\* For any number of names, no history of insertions, deletions and new
\* scores leaves a tree that is not balanced, or a stale depth or count in a
\* node that avl_fix did not pass (avl.cpp:118-153).
THEOREM AlwaysBalanced == SafeSpec => []Balanced
<1>1. ASSUME ZInv, AtRest, NEW n \in hmap
      PROVE  LET l == tree[n].left
                 r == tree[n].right
             IN /\ tree[n].depth = 1 + Larger(avl_depth(tree, l), avl_depth(tree, r))
                /\ tree[n].cnt = 1 + avl_cnt(tree, l) + avl_cnt(tree, r)
                /\ avl_depth(tree, l) - avl_depth(tree, r) \in -1 .. 1
  <2>1. hmap \in SUBSET Name /\ score \in [Name -> Int] /\ NULL \notin Name
    BY <1>1, TreeAtRest
  <2>2. PICK sub : /\ SearchTree(tree, score, hmap, root, sub)
                   /\ BalancedBut(tree, hmap, NULL) /\ CountedBut(tree, hmap, sub, NULL, -1)
    BY <1>1, TreeAtRest
  <2>3. sub \in [hmap -> SUBSET hmap]
    BY <2>2 DEF SearchTree
  <2>4. /\ Poised(tree, NULL, 0, n) /\ \A m \in hmap : tree[m].cnt = Cardinality(sub[m])
        /\ \A m : Depth(tree, NULL, 0, m) = avl_depth(tree, m)
    BY <2>1, <2>2, <2>3, AtRestTree
  <2>5. tree[n]["left"] \in hmap \cup {NULL} /\ tree[n]["right"] \in hmap \cup {NULL}
    BY <2>2 DEF SearchTree, Sides
  <2>6. \A m \in hmap \cup {NULL} : avl_cnt(tree, m) = Size(sub, m)
    <3>1. Cardinality({}) = 0
      BY FS_EmptySet
    <3> QED
      BY <2>1, <2>4, <3>1 DEF avl_cnt, Size, Under
  <2>7. tree[n].cnt = 1 + Size(sub, tree[n].left) + Size(sub, tree[n].right)
    BY <2>1, <2>2, <2>4, SubtreeSize
  <2> QED
    BY <2>4, <2>5, <2>6, <2>7 DEF Poised, Near
<1>2. ZInv => Balanced
  BY <1>1 DEF Balanced
<1> QED
  BY <1>2, ZInvHolds, PTL
-----------------------------------------------------------------------------
\* The sorted set that ZSet implements: what its member is.
Tuples == [n \in hmap |-> score[n]]

\* The set changes with hmap and the scores of what is in it only.
LEMMA SameTuples ==
  ASSUME hmap' = hmap, \A m \in hmap : score'[m] = score[m]
  PROVE  Tuples' = Tuples
  BY DEF Tuples

\* A step between two operations of the set, or after the last one.
LEMMA UsedAbs ==
  ASSUME asked' = <<>>, reply' = {}, Tuples' = Tuples
  PROVE  Abs!Next
  BY DEF Abs!Next, Abs!Used, Tuples

\* A step inside an operation does not change the sorted set.
LEMMA HiddenAbs ==
  ASSUME asked' = asked, reply' = reply, Tuples' = Tuples
  PROVE  UNCHANGED Abs!vars
  BY DEF Abs!vars, Tuples

\* What a lookup finds is the tuple of the sorted set.
LEMMA TupleAbs ==
  ASSUME NEW n \in Name, NULL \notin Name
  PROVE  /\ n \in hmap => Abs!Tuple({n} \cap DOMAIN Tuples) = NodeReply(n)
         /\ n \notin hmap => Abs!Tuple({n} \cap DOMAIN Tuples) = {}
<1>1. DOMAIN Tuples = hmap
  BY DEF Tuples
<1>2. ASSUME n \in hmap PROVE Abs!Tuple({n} \cap DOMAIN Tuples) = NodeReply(n)
  <2>1. {n} \cap DOMAIN Tuples = {n}
    BY <1>1, <1>2
  <2>2. Abs!Tuple({n}) = {<<score[n], n>>}
    BY <1>2 DEF Abs!Tuple
  <2> QED
    BY <2>1, <2>2 DEF NodeReply
<1>3. ASSUME n \notin hmap PROVE Abs!Tuple({n} \cap DOMAIN Tuples) = {}
  <2>1. {n} \cap DOMAIN Tuples = {}
    BY <1>1, <1>3
  <2> QED
    BY <2>1 DEF Abs!Tuple
<1> QED
  BY <1>2, <1>3

\* A tuple is in the set when its node is in the hash map.
LEMMA AddNewAbs ==
  ASSUME ZInv, NEW n \in Name, NEW s \in Score, AddNew(n, s)
  PROVE  Abs!Next
<1>1. pc = "idle" /\ dels = <<>> /\ asked = <<>> /\ ~ Found(n)
  BY DEF AddNew, ZInv, Calls
<1>2. n \notin hmap /\ NULL \notin Name /\ hmap \in SUBSET Name /\ score \in [Name -> Int]
  BY <1>1, IdleTree, TypesHere DEF ZInv
<1>3. hmap' = hmap \cup {n} /\ score' = [score EXCEPT ![n] = s] /\ asked' = <<>> /\ reply' = {}
  BY <1>1 DEF AddNew
<1>4. Abs!Tuple({n} \cap DOMAIN Tuples) = reply'
  BY <1>2, <1>3, TupleAbs
<1>5. Tuples' = [m \in DOMAIN Tuples \cup {n} |-> IF m = n THEN s ELSE Tuples[m]]
  BY <1>2, <1>3 DEF Tuples
<1>6. Abs!Add(n, s)
  BY <1>3, <1>4, <1>5 DEF Abs!Add, Tuples
<1> QED
  BY <1>6 DEF Abs!Next

\* zset_update of the same score ends at once; of another, it begins.
LEMMA UpdateAbs ==
  ASSUME ZInv, NEW n \in Name, NEW s \in Score, Update(n, s)
  PROVE  Abs!Next
<1>1. pc = "idle" /\ dels = <<>> /\ asked = <<>> /\ Found(n)
  BY DEF Update, ZInv, Calls
<1>2. n \in hmap /\ NULL \notin Name
  BY <1>1, IdleTree, TypesHere DEF ZInv
<1>3. hmap' = hmap /\ score' = score /\ asked' = <<>> /\ Tuples' = Tuples
  BY <1>1 DEF Update, zset, Tuples
<1>4. CASE score[n] = s
  <2>1. Abs!Tuple({n} \cap DOMAIN Tuples) = reply'
    BY <1>2, <1>4, TupleAbs DEF Update
  <2>2. Tuples' = [m \in DOMAIN Tuples \cup {n} |-> IF m = n THEN s ELSE Tuples[m]]
    BY <1>2, <1>3, <1>4 DEF Tuples
  <2>3. Abs!Add(n, s)
    BY <1>3, <2>1, <2>2 DEF Abs!Add, Tuples
  <2> QED
    BY <2>3 DEF Abs!Next
<1>5. CASE score[n] # s
  BY <1>3, <1>5, UsedAbs DEF Update
<1> QED
  BY <1>4, <1>5

\* zset_pop removes the tuple at hm_pop.
LEMMA ZsetPopAbs ==
  ASSUME ZInv, NEW n \in Name, zset_pop(n)
  PROVE  Abs!Next
<1>1. pc = "idle" /\ dels = <<>> /\ asked = <<>>
  BY DEF zset_pop, ZInv, Calls
<1>2. (Found(n) <=> n \in hmap) /\ NULL \notin Name
  BY <1>1, IdleTree, TypesHere DEF ZInv
<1>3. score' = score /\ asked' = <<>>
  BY <1>1 DEF zset_pop
<1>4. CASE Found(n)
  <2>1. hmap' = hmap \ {n} /\ reply' = NodeReply(n)
    BY <1>4 DEF zset_pop
  <2>2. Abs!Tuple({n} \cap DOMAIN Tuples) = reply'
    BY <1>2, <1>4, <2>1, TupleAbs
  <2>3. Tuples' = [m \in DOMAIN Tuples \ {n} |-> Tuples[m]]
    BY <1>3, <2>1 DEF Tuples
  <2>4. Abs!Rem(n)
    BY <1>3, <2>2, <2>3 DEF Abs!Rem, Tuples
  <2> QED
    BY <2>4 DEF Abs!Next
<1>5. CASE ~ Found(n)
  <2>1. hmap' = hmap /\ reply' = {}
    BY <1>5 DEF zset_pop
  <2>2. Tuples' = Tuples
    BY <1>3, <2>1 DEF Tuples
  <2> QED
    BY <1>3, <2>1, <2>2, UsedAbs
<1> QED
  BY <1>4, <1>5

\* zset_update is done when avl_del has returned and the score is stored.
LEMMA DeletedAbs ==
  ASSUME ZInv, Deleted
  PROVE  [Abs!Next]_(Abs!vars)
<1> DEFINE d == Deleting
<1>1. /\ pc = "deleted" /\ dels # <<>> /\ asked = <<>> /\ d = dels[1]
      /\ hmap' = hmap /\ asked' = asked
  BY DEF Deleted, ZInv, Calls, Deleting
<1>2. /\ NULL \notin Name /\ d \in Name /\ score \in [Name -> Int] /\ hmap \in SUBSET Name
      /\ arg \in (Score \X Name) \cup {<<>>}
  BY <1>1, TypesHere DEF ZInv, Values
<1>3. IF arg = <<>> THEN d \notin hmap ELSE d \in hmap
  BY <1>1 DEF ZInv, Calls
<1> HIDE DEF d
<1>4. CASE arg = <<>>
  <2>1. reply' = reply /\ score' = [score EXCEPT ![d] = 0]
    BY <1>4 DEF Deleted, d
  <2>2. \A m \in hmap : score'[m] = score[m]
    BY <1>2, <1>3, <1>4, <2>1
  <2> QED
    BY <1>1, <2>1, <2>2, SameTuples, HiddenAbs
<1>5. CASE arg # <<>>
  <2>1. arg[1] \in Score
    BY <1>2, <1>5
  <2>2. reply' = NodeReply(d) /\ score' = [score EXCEPT ![d] = arg[1]]
    BY <1>5 DEF Deleted, d
  <2>3. Abs!Tuple({d} \cap DOMAIN Tuples) = reply'
    BY <1>2, <1>3, <1>5, <2>2, TupleAbs
  <2>4. Tuples' = [m \in DOMAIN Tuples \cup {d} |-> IF m = d THEN arg[1] ELSE Tuples[m]]
    BY <1>1, <1>2, <1>3, <1>5, <2>2 DEF Tuples
  <2> PICK n \in Name, s \in Score : n = d /\ s = arg[1]
    BY <1>2, <2>1
  <2>5. Abs!Add(n, s)
    BY <1>1, <2>3, <2>4 DEF Abs!Add, Tuples
  <2>6. Abs!Next
    BY <2>5 DEF Abs!Next
  <2> QED
    BY <2>6
<1> QED
  BY <1>4, <1>5

\* When zset_query's loop ends, start is the first tuple not before its
\* argument.
LEMMA ZSetQueryAbs ==
  ASSUME ZInv, ZSetQuery
  PROVE  [Abs!Next]_(Abs!vars)
<1>1. pc = "zset_query" /\ dels = <<>> /\ arg # <<>> /\ hmap' = hmap /\ score' = score
  BY DEF ZSetQuery, ZInv, Calls, zset
<1>2. Tuples' = Tuples /\ DOMAIN Tuples = hmap /\ \A m \in hmap : Tuples[m] = score[m]
  BY <1>1 DEF Tuples
<1>3. CASE cur # NULL
  <2>1. asked' = asked /\ reply' = reply
    BY <1>3 DEF ZSetQuery
  <2> QED
    BY <1>2, <2>1, HiddenAbs
<1>4. CASE cur = NULL
  <2>1. /\ NULL \notin Name /\ score \in [Name -> Int] /\ hmap \in SUBSET Name
        /\ arg \in (Score \X Name) \cup {<<>>} /\ Nodes = hmap
    BY <1>1, TypesHere, IdleTree DEF ZInv, Values
  <2> DEFINE s == arg[1]
             n == arg[2]
             From == {m \in DOMAIN Tuples : ~ Abs!Before(Tuples[m], m, s, n)}
             First == {m \in From : \A k \in From : ~ Abs!Before(Tuples[k], k, Tuples[m], m)}
  <2>2. arg \in Score \X Name
    BY <1>1, <2>1
  <2>3. s \in Score /\ n \in Name /\ arg = <<s, n>>
    BY <2>2
  <2>4. asked' = <<s, n>> /\ reply' = NodeReply(start)
    BY <1>4, <2>3 DEF ZSetQuery
  <2>5. PICK sub : Shape(sub)
    BY DEF ZInv
  <2>6. /\ start \in hmap \cup {NULL}
        /\ start # NULL => ~ zless(score[start], start, s, n)
        /\ \A m \in hmap : \/ zless(score[m], m, s, n)
                           \/ start # NULL /\ ~ Less(score, m, start)
    BY <1>1, <1>4, <2>1, <2>5 DEF Shape, Places, Under
  <2> HIDE DEF s, n
  <2>7. /\ \A m \in hmap : Abs!Before(Tuples[m], m, s, n) <=> zless(score[m], m, s, n)
        /\ \A k, m \in hmap : Abs!Before(Tuples[k], k, Tuples[m], m) <=> Less(score, k, m)
    BY <1>2 DEF Abs!Before, zless, Less
  <2>8. From = {m \in hmap : ~ zless(score[m], m, s, n)}
    BY <1>2, <2>7
  <2>9. First = IF start = NULL THEN {} ELSE {start}
    <3>1. CASE start = NULL
      BY <2>6, <2>8, <3>1
    <3>2. CASE start # NULL
      <4>1. start \in From /\ \A k \in From : k \in hmap /\ ~ Less(score, k, start)
        BY <2>6, <2>8, <3>2
      <4>2. start \in First
        BY <2>7, <4>1
      <4>3. ASSUME NEW m \in First PROVE m = start
        <5>1. m \in hmap /\ ~ Less(score, start, m) /\ ~ Less(score, m, start) /\ start \in hmap
          BY <2>7, <4>1
        <5> QED
          BY <2>1, <5>1, LessOrder
      <4> QED
        BY <3>2, <4>2, <4>3
    <3> QED
      BY <3>1, <3>2
  <2>10. Abs!Tuple(First) = NodeReply(start)
    <3> HIDE DEF First
    <3>1. CASE start = NULL
      BY <2>9, <3>1 DEF Abs!Tuple, NodeReply
    <3>2. CASE start # NULL
      <4>1. First = {start} /\ start \in hmap
        BY <2>6, <2>9, <3>2
      <4>2. Abs!Tuple({start}) = {<<score[start], start>>}
        BY <4>1 DEF Abs!Tuple
      <4> QED
        BY <3>2, <4>1, <4>2 DEF NodeReply
    <3> QED
      BY <3>1, <3>2
  <2>11. Abs!Seek(s, n)
    BY <1>2, <2>4, <2>10 DEF Abs!Seek, Tuples
  <2>12. Abs!Next
    BY <2>3, <2>11 DEF Abs!Next
  <2> QED
    BY <2>12
<1> QED
  BY <1>3, <1>4

\* Every step of ZSet is one of the sorted set, or none.
LEMMA StepAbs ==
  ASSUME ZInv, [Next]_vars
  PROVE  [Abs!Next]_(Abs!vars)
<1>1. CASE \E n \in Name, s \in Score : AddNew(n, s) \/ Update(n, s)
  <2>1. Abs!Next
    BY <1>1, AddNewAbs, UpdateAbs
  <2> QED
    BY <2>1
<1>2. CASE \E n \in Name : zset_pop(n)
  <2>1. Abs!Next
    BY <1>2, ZsetPopAbs
  <2> QED
    BY <2>1
<1>3. CASE \E n \in Name, s \in Score, o \in Offset, lim \in Limit : Query(s, n, o, lim)
  <2>1. asked' = <<>> /\ reply' = {} /\ hmap' = hmap /\ score' = score
    BY <1>3 DEF Query, zset, ZInv, Calls
  <2>2. Tuples' = Tuples
    BY <2>1, SameTuples
  <2>3. Abs!Next
    BY <2>1, <2>2, UsedAbs
  <2> QED
    BY <2>3
<1>4. CASE TreeAdd \/ AvlFix \/ AvlDel \/ Victim \/ VictimDeleted \/ OffsetStep \/ OffsetDone
           \/ Output \/ UNCHANGED vars
  <2>1. asked' = asked /\ reply' = reply /\ hmap' = hmap /\ score' = score
    BY <1>4 DEF TreeAdd, AvlFix, AvlDel, Victim, VictimDeleted, OffsetStep, OffsetDone, Output,
                vars, zset
  <2>2. Tuples' = Tuples
    BY <2>1, SameTuples
  <2> QED
    BY <2>1, <2>2, HiddenAbs
<1>5. CASE OutputDone
  <2>1. asked' = <<>> /\ reply' = {} /\ hmap' = hmap /\ score' = score
    BY <1>5 DEF OutputDone, zset
  <2>2. Tuples' = Tuples
    BY <2>1, SameTuples
  <2>3. Abs!Next
    BY <2>1, <2>2, UsedAbs
  <2> QED
    BY <2>3
<1> QED
  BY <1>1, <1>2, <1>3, <1>4, <1>5, DeletedAbs, ZSetQueryAbs DEF Next, Step, QueryStep

\* However many names and scores there are, the tree, the hash map and the
\* scores are one sorted set: a tuple is found by name from hm_insert to
\* hm_pop, its score changes at one step, when avl_del has returned, and
\* zset_query finds the first tuple that does not come before its argument
\* (zset.cpp:163-248).
THEOREM ImplementsSortedSetHolds == SafeSpec => ImplementsSortedSet
<1>1. Init => Abs!Init
  <2> SUFFICES ASSUME Init PROVE Abs!Init
    OBVIOUS
  <2>1. hmap = {} /\ asked = <<>> /\ reply = {}
    BY DEF Init
  <2>2. [n \in hmap |-> score[n]] = [n \in {} |-> 0]
    BY <2>1
  <2> QED
    BY <2>1, <2>2 DEF Abs!Init
<1>2. ZInv /\ [Next]_vars => [Abs!Next]_(Abs!vars)
  BY StepAbs
<1> QED
  BY <1>1, <1>2, ZInvHolds, PTL DEF SafeSpec, ImplementsSortedSet, Abs!Spec
=============================================================================
