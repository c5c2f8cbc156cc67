------------------------------ MODULE AVLTree -------------------------------
(***************************************************************************)
(* The operations of src/avl.cpp on a heap of linked nodes.                *)
(*                                                                         *)
(* A heap t maps each node to its fields left, right, parent, depth and    *)
(* cnt; NULL is no node.  An operation maps a heap to a heap, and what     *)
(* returns a node to the heap together with it.  The loops, and the        *)
(* recursion of avl_del, are steps of ZSet.tla: avl_fix here is one        *)
(* iteration of its loop.                                                  *)
(***************************************************************************)
EXTENDS Integers

CONSTANT NULL

\* The fields avl_init gives a node, and those of memory that is no node.
avl_init == [left |-> NULL, right |-> NULL, parent |-> NULL, depth |-> 1, cnt |-> 1]
Free     == [left |-> NULL, right |-> NULL, parent |-> NULL, depth |-> 0, cnt |-> 0]

avl_depth(t, n) == IF n = NULL THEN 0 ELSE t[n].depth
avl_cnt(t, n)   == IF n = NULL THEN 0 ELSE t[n].cnt

Larger(l, r) == IF l < r THEN r ELSE l

\* Mutant: the old count is added to.
Mut_avl_update(t, n) ==
  [t EXCEPT ![n].depth = 1 + Larger(avl_depth(t, t[n].left), avl_depth(t, t[n].right)),
            ![n].cnt   = @ + avl_cnt(t, t[n].left) + avl_cnt(t, t[n].right)]

avl_update(t, n) ==
  [t EXCEPT ![n].depth = 1 + Larger(avl_depth(t, t[n].left), avl_depth(t, t[n].right)),
            ![n].cnt   = 1 + avl_cnt(t, t[n].left) + avl_cnt(t, t[n].right)]

\* Give n, if it is a node, the parent p.
Adopt(t, n, p) == IF n = NULL THEN t ELSE [t EXCEPT ![n].parent = p]

\* The field of p that points to its child n.
SideOf(t, p, n) == IF t[p].left = n THEN "left" ELSE "right"

\* The child of n on side "up" takes its place; n becomes its child on side
\* "down".  What pointed to n from above is left to the caller.
Rotate(t, n, up, down) ==
  LET new_node == t[n][up]
      inner    == t[new_node][down]
      linked   == [Adopt(t, inner, n) EXCEPT
                     ![n][up] = inner, ![new_node][down] = n,
                     ![new_node].parent = t[n].parent, ![n].parent = new_node]
  IN avl_update(avl_update(linked, n), new_node)

rot_left(t, n)  == Rotate(t, n, "right", "left")
rot_right(t, n) == Rotate(t, n, "left", "right")

\* Mutant: the inner child is not rotated first.
Mut_avl_fix_left(t, root) == [heap |-> rot_right(t, root), root |-> t[root].left]

\* The left subtree is too deep: L-L, or L-R, which is made L-L first.
avl_fix_left(t, root) ==
  LET l == t[root].left
      u == IF avl_depth(t, t[l].left) < avl_depth(t, t[l].right)
             THEN [rot_left(t, l) EXCEPT ![root].left = t[l].right]
             ELSE t
  IN [heap |-> rot_right(u, root), root |-> u[root].left]

avl_fix_right(t, root) ==
  LET r == t[root].right
      u == IF avl_depth(t, t[r].right) < avl_depth(t, t[r].left)
             THEN [rot_right(t, r) EXCEPT ![root].right = t[r].left]
             ELSE t
  IN [heap |-> rot_left(u, root), root |-> u[root].right]

\* The rotation node n needs, if any.
FixNode(t, n) ==
  LET l == avl_depth(t, t[n].left)
      r == avl_depth(t, t[n].right)
  IN IF l > r + 1 THEN avl_fix_left(t, n)
     ELSE IF r > l + 1 THEN avl_fix_right(t, n)
     ELSE [heap |-> t, root |-> n]

\* One iteration of avl_fix: update and rebalance n, and let what pointed to
\* it point to the root of the subtree.
avl_fix(t, n) ==
  LET updated == avl_update(t, n)
      parent  == updated[n].parent
      fixed   == FixNode(updated, n)
  IN [heap |-> IF parent = NULL THEN fixed.heap
               ELSE [fixed.heap EXCEPT
                       ![parent][SideOf(updated, parent, n)] = fixed.root],
      root |-> fixed.root]

\* avl_del of a node without a right child: its left child takes its place.
Unlink(t, n) ==
  LET parent == t[n].parent
      child  == t[n].left
      lifted == Adopt(t, child, parent)
  IN IF parent = NULL THEN lifted
     ELSE [lifted EXCEPT ![parent][SideOf(t, parent, n)] = child]

\* Mutant: the right child is left with its old parent.
Mut_TakePlace(t, n, victim) ==
  LET node  == t[n]
      moved == Adopt([t EXCEPT ![victim] = node], node.left, victim)
  IN IF node.parent = NULL THEN moved
     ELSE [moved EXCEPT ![node.parent][SideOf(moved, node.parent, n)] = victim]

\* avl_del of a node with a right child: its successor, the victim, which
\* has been deleted, takes over all of n's fields and links.
TakePlace(t, n, victim) ==
  LET node  == t[n]
      moved == Adopt(Adopt([t EXCEPT ![victim] = node], node.left, victim),
                     node.right, victim)
  IN IF node.parent = NULL THEN moved
     ELSE [moved EXCEPT ![node.parent][SideOf(moved, node.parent, n)] = victim]
=============================================================================
