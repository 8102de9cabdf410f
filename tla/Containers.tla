----------------------------- MODULE Containers -----------------------------
(***************************************************************************)
(* A list of llist.c or a tree of tree.c, as the kernel uses it, next to   *)
(* the sequence (module Lists) or the dictionary that it stands for.       *)
(*                                                                         *)
(*   "callbacks", "registry"   the uses of a list                          *)
(*   "overrides"  apic.c fills a tree that nothing is removed from         *)
(*   "blocks"     cache.c fills a tree, deletes from it and iterates       *)
(*                                                                         *)
(* The caller of an iterator starts it on a tree that is not empty, does   *)
(* not delete the key it is at, and drops it only at the end.              *)
(***************************************************************************)
EXTENDS Lists, Tree

CONSTANTS Offset,        \* the keys of "blocks", a part of Key
          Garbage        \* what malloc may leave in the len of a new tree

VARIABLES t, dict,       \* the tree, and the dictionary it stands for
          it             \* the iterator on the tree

vars == <<use, l, contents, t, dict, it>>

NoIterator == [n |-> -1, prev |-> Null]

Init ==
  /\ use \in {"callbacks", "registry", "overrides", "blocks"}
  /\ ListInit
  /\ \E len \in Garbage : t = create_tree(len)
  /\ dict = [k \in Key |-> TREE_NOTFOUND]
  /\ it = NoIterator

-----------------------------------------------------------------------------
\* A key that is in the tree keeps the value it has.
InsertKey(k, x) ==
  /\ use \in {"overrides", "blocks"} /\ (use = "blocks" => k \in Offset)
  /\ t' = tree_insert(t, k, x)
  /\ dict' = [dict EXCEPT ![k] = IF @ = TREE_NOTFOUND THEN x ELSE @]
  /\ UNCHANGED it

DeleteKey(k) ==
  /\ use = "blocks" /\ k # it.n
  /\ t' = tree_delete(t, k)
  /\ dict' = [dict EXCEPT ![k] = TREE_NOTFOUND]
  /\ UNCHANGED it

\* A call on the iterator, which answers the tree and the iterator.
Iterate(answer) == t' = answer[1] /\ it' = answer[2] /\ UNCHANGED dict

First ==
  /\ use = "blocks" /\ it = NoIterator /\ t.root # Null
  /\ Iterate(tree_iterator(t))

Forward == it # NoIterator /\ Iterate(tree_next(t, it))

Backward == it # NoIterator /\ it.n # Null /\ Iterate(tree_prev(t, it))

tree_deliterator == it.n = Null /\ it' = NoIterator /\ UNCHANGED <<t, dict>>

TreeStep ==
  /\ \/ \E k \in Key, x \in Data : InsertKey(k, x)
     \/ \E k \in Offset : DeleteKey(k)
     \/ First \/ Forward \/ Backward \/ tree_deliterator
  /\ UNCHANGED <<l, contents>>

Next ==
  /\ UNCHANGED use
  /\ \/ ListStep /\ UNCHANGED <<t, dict, it>>
     \/ TreeStep

Spec == Init /\ [][Next]_vars

-----------------------------------------------------------------------------
\* tree_search answers, for every key, what the dictionary has, after any
\* insertions, deletions and the rotations they cause; no operation follows a
\* null or freed pointer, or frees a node twice.
TreeAgrees == ~t.wild /\ \A k \in Key : tree_search(t, k) = dict[k]

RECURSIVE Depth(_)
Depth(n) ==
  IF n = Null THEN 0
  ELSE LET a == Depth(t.node[n].left)
           b == Depth(t.node[n].right)
       IN  1 + (IF a > b THEN a ELSE b)

\* The stored heights, which node_height brings up to date only along the way
\* from a new leaf to the root, keep a tree that only grows balanced.
GrowsBalanced ==
  use = "overrides" =>
    \A n \in t.live : Depth(t.node[n].right) - Depth(t.node[n].left) \in -1..1

Present == {k \in Key : dict[k] # TREE_NOTFOUND}

Nearest(n, side, closer(_, _)) ==
  IF side = {} THEN n = Null ELSE n \in side /\ \A k \in side \ {n} : closer(n, k)

\* Wherever insertions and deletions have moved the nodes while an iterator was
\* at one of them, tree_next takes it to the next greater key of the tree and
\* tree_prev to the next smaller one: no key is skipped or seen twice.
IteratesInOrder ==
  [][/\ Forward /\ it.n # Null => Nearest(it'.n, {k \in Present : k > it.n}, <)
     /\ Backward => Nearest(it'.n, {k \in Present : k < it.n}, >)]_vars
=============================================================================
