-------------------------------- MODULE Tree --------------------------------
(***************************************************************************)
(* tree.c, an AVL tree of linked nodes, as operators on a record: root,    *)
(* len, the memory of the nodes, the nodes allocated, and "wild", set when *)
(* the code follows a null pointer, uses a freed node or frees one twice.  *)
(*                                                                         *)
(* tree_insert makes no second node for a key of the tree, so a node is    *)
(* named by its key.  A call that also answers something returns a pair.   *)
(***************************************************************************)
EXTENDS Integers, FiniteSets

CONSTANTS Key,              \* positive numbers, compared by default_comparer
          TREE_NOTFOUND

ASSUME KeyAssumption == Key \subseteq Nat \ {0}

Null == 0

Blank == [val |-> TREE_NOTFOUND, height |-> 0, refcount |-> 0, delete |-> FALSE,
          parent |-> Null, left |-> Null, right |-> Null]

\* create_tree_cmp leaves len as malloc returned it.
create_tree(len) ==
  [root |-> Null, len |-> len, live |-> {}, wild |-> FALSE,
   node |-> [k \in Key |-> Blank]]

-----------------------------------------------------------------------------
(* Heights and rotations. *)

\* What node_height stores in n and returns: it trusts the heights stored in
\* the children of n.
Height(t, n) ==
  LET stored(c) == IF c = Null THEN 0 ELSE t.node[c].height
      l == stored(t.node[n].left) + 1
      r == stored(t.node[n].right) + 1
  IN  IF n = Null THEN 0 ELSE IF l > r THEN l ELSE r

\* Mutant of node_height: the height is returned and not stored.
node_height_NotStored(t, n) == t

node_height(t, n) ==
  IF n = Null THEN t ELSE [t EXCEPT !.node[n].height = Height(t, n)]

node_bfactor(t, n) == Height(t, t.node[n].right) - Height(t, t.node[n].left)

\* node_bfactor measures both children again.
Measured(t, n) == node_height(node_height(t, t.node[n].right), t.node[n].left)

\* Mutant of Rotate: the subtree that changes sides keeps its old parent.
Rotate_KeepParent(t, n, up, down) ==
  LET y == t.node[n][up]
      p == t.node[n].parent
      turned == [t EXCEPT !.node[n] = [@ EXCEPT ![up] = t.node[y][down], !.parent = y],
                          !.node[y] = [@ EXCEPT ![down] = n, !.parent = p],
                          !.root = IF p = Null THEN y ELSE @]
  IN  IF p = Null THEN turned
      ELSE [turned EXCEPT !.node[p][IF t.node[p].left = n THEN "left" ELSE "right"] = y]

\* rotate_left with up = "right", rotate_right with up = "left": the child y of
\* n takes the place of n, and n becomes its child.
Rotate(t, n, up, down) ==
  LET y == t.node[n][up]
      inner == t.node[y][down]
      p == t.node[n].parent
      turned == [t EXCEPT !.node[n] = [@ EXCEPT ![up] = inner, !.parent = y],
                          !.node[y] = [@ EXCEPT ![down] = n, !.parent = p],
                          !.root = IF p = Null THEN y ELSE @]
      moved == IF inner = Null THEN turned ELSE [turned EXCEPT !.node[inner].parent = n]
  IN  IF y = Null THEN [t EXCEPT !.wild = TRUE]
      ELSE IF p = Null THEN moved
      ELSE [moved EXCEPT !.node[p][IF t.node[p].left = n THEN "left" ELSE "right"] = y]

rotate_left(t, n) == Rotate(t, n, "right", "left")
rotate_right(t, n) == Rotate(t, n, "left", "right")

node_rebalance(t0, n) ==
  LET t == Measured(t0, n)
      b == node_bfactor(t0, n)
      l == t.node[n].left
      r == t.node[n].right
  IN  IF b < -1
        THEN IF node_bfactor(t, l) > 0
               THEN rotate_right(rotate_left(Measured(t, l), l), n)
               ELSE rotate_right(Measured(t, l), n)
      ELSE IF b > 1
        THEN IF node_bfactor(t, r) < 0
               THEN rotate_left(rotate_right(Measured(t, r), r), n)
               ELSE rotate_left(Measured(t, r), n)
      ELSE t

\* The loop that ends tree_insert and remove_node: from n up to the root.
RECURSIVE RebalanceUp(_, _)
RebalanceUp(t, n) ==
  IF n = Null THEN t
  ELSE LET b == node_bfactor(t, n)
           t1 == IF b < -1 \/ b > 1 THEN node_rebalance(Measured(t, n), n)
                 ELSE Measured(t, n)
       IN  RebalanceUp(t1, t1.node[n].parent)

-----------------------------------------------------------------------------
(* Search, insertion, deletion. *)

RECURSIVE Descend(_, _, _)
Descend(t, n, key) ==
  IF n = Null \/ n = key THEN n
  ELSE Descend(t, IF key < n THEN t.node[n].left ELSE t.node[n].right, key)

tree_search(t, key) ==
  LET n == Descend(t, t.root, key)
  IN  IF t.len = 0 \/ n = Null THEN TREE_NOTFOUND ELSE t.node[n].val

\* The node under which tree_insert hangs a new key.
RECURSIVE Place(_, _, _)
Place(t, n, key) ==
  LET next == IF key < n THEN t.node[n].left ELSE t.node[n].right
  IN  IF next = Null THEN n ELSE Place(t, next, key)

tree_insert(t, key, val) ==
  LET n == Place(t, t.root, key)
      new == [t EXCEPT !.len = @ + 1, !.live = @ \cup {key},
                       !.node[key] = [Blank EXCEPT !.val = val]]
      hung == [new EXCEPT !.node[key].parent = n,
                          !.node[n][IF key < n THEN "left" ELSE "right"] = key]
  IN  IF tree_search(t, key) # TREE_NOTFOUND THEN t
      ELSE IF t.root = Null THEN [new EXCEPT !.root = key]
      ELSE RebalanceUp(hung, n)

\* What a freed node holds is forgotten.
free(t, n) ==
  [t EXCEPT !.live = @ \ {n}, !.wild = @ \/ n \notin t.live, !.node[n] = Blank]

\* Rotates n down until it is a leaf.
RECURSIVE SinkNode(_, _)
SinkNode(t0, n) ==
  LET t == Measured(t0, n)
      hl == Height(t0, t0.node[n].left)
      hr == Height(t0, t0.node[n].right)
  IN  IF hl = 0 /\ hr = 0 THEN t0
      ELSE SinkNode(IF hl = 0 THEN rotate_left(t, n)
                    ELSE IF hr = 0 THEN rotate_right(t, n)
                    ELSE IF hl <= hr THEN rotate_left(rotate_right(t, n), n)
                    ELSE rotate_right(rotate_left(t, n), n), n)

remove_node(t0, n) ==
  LET t == SinkNode([t0 EXCEPT !.len = @ - 1], n)
      p == t.node[n].parent
      unlinked == IF p = Null THEN [t EXCEPT !.root = Null]
                  ELSE [t EXCEPT !.node[p][IF t.node[p].left = n THEN "left" ELSE "right"] = Null]
  IN  free(RebalanceUp(unlinked, n), n)

tree_delete(t, key) ==
  LET n == Descend(t, t.root, key)
      marked == [t EXCEPT !.node[n].delete = TRUE]
  IN  IF t.len = 0 \/ tree_search(t, key) = TREE_NOTFOUND THEN t
      ELSE IF t.node[n].refcount = 0 THEN remove_node(marked, n) ELSE marked

-----------------------------------------------------------------------------
(* Iterators: the node an iterator is at, which counts it, and the last one. *)

RECURSIVE Extreme(_, _, _)
Extreme(t, n, side) ==
  IF t.node[n][side] = Null THEN n ELSE Extreme(t, t.node[n][side], side)

RECURSIVE LeaveSide(_, _, _)
LeaveSide(t, n, side) ==
  LET p == t.node[n].parent
  IN  IF p # Null /\ t.node[p][side] = n THEN LeaveSide(t, p, side) ELSE p

\* Mutant of Neighbour: without a subtree on that side, the parent is next.
Neighbour_Parent(t, n, toward, back) ==
  IF t.node[n][toward] # Null THEN Extreme(t, t.node[n][toward], back)
  ELSE t.node[n].parent

\* The node after n (toward = "right") or before it (toward = "left").
Neighbour(t, n, toward, back) ==
  IF t.node[n][toward] # Null THEN Extreme(t, t.node[n][toward], back)
  ELSE LeaveSide(t, n, toward)

Counted(t, n, d) ==
  IF n = Null THEN t
  ELSE [t EXCEPT !.node[n].refcount = @ + d, !.wild = @ \/ n \notin t.live]

Doomed(t, n) == t.node[n].refcount = 0 /\ t.node[n].delete

free_node_if_needed(t, n) ==
  IF Doomed(t, n) THEN free(remove_node(t, n), n) ELSE t

tree_iterator(t) ==
  LET n == Extreme(t, t.root, "left")
  IN  IF t.root = Null THEN <<[t EXCEPT !.wild = TRUE], [n |-> Null, prev |-> Null]>>
      ELSE <<Counted(t, n, 1), [n |-> n, prev |-> Null]>>

tree_next(t, it) ==
  LET n == Neighbour(t, it.n, "right", "left")
      left == Counted(t, it.n, -1)
      prev == IF Doomed(left, it.n) THEN it.prev ELSE it.n
  IN  IF it.n = Null THEN <<t, it>>
      ELSE <<Counted(free_node_if_needed(left, it.n), n, 1), [n |-> n, prev |-> prev]>>

tree_prev(t, it) ==
  LET n == Neighbour(t, it.n, "left", "right")
      left == free_node_if_needed(Counted(t, it.n, -1), it.n)
  IN  IF it.n = Null
        THEN <<IF it.prev = Null THEN [t EXCEPT !.wild = TRUE] ELSE Counted(t, it.prev, 1),
               [it EXCEPT !.n = it.prev]>>
      ELSE <<Counted(left, n, 1),
             [n |-> n, prev |-> IF n = Null THEN it.prev ELSE it.n]>>
=============================================================================
