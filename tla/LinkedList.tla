----------------------------- MODULE LinkedList -----------------------------
(***************************************************************************)
(* llist.c as operators on a record: len, head and tail, the memory of the *)
(* nodes, and "wild", set when the code follows or writes through a        *)
(* pointer that is not the address of a node.  malloc returns memory that  *)
(* was not initialised: Junk.                                              *)
(***************************************************************************)
EXTENDS Integers, Sequences, FiniteSets

CONSTANTS Node, NULL, Junk

ASSUME ListAssumption == IsFiniteSet(Node) /\ NULL \notin Node /\ Junk \notin Node

Uninitialised == [p |-> Junk, next |-> Junk, prev |-> Junk]

create_list ==
  [len |-> 0, head |-> NULL, tail |-> NULL, wild |-> FALSE, used |-> {},
   node |-> [n \in Node |-> Uninitialised]]

Go(l, n, way) == IF n \in Node THEN l.node[n][way] ELSE Junk

\* The node reached from n in k steps.
Walk(l, n, way, k) ==
  LET f[i \in 0..k] == IF i = 0 THEN n ELSE Go(l, f[i - 1], way) IN f[k]

\* Mutant of Store: the back pointer of a neighbour is not maintained.
Store_ForwardOnly(l, n, field, x) ==
  IF field = "prev" THEN l
  ELSE IF n \in Node THEN [l EXCEPT !.node[n][field] = x] ELSE [l EXCEPT !.wild = TRUE]

\* A store through the pointer n.
Store(l, n, field, x) ==
  IF n \in Node THEN [l EXCEPT !.node[n][field] = x] ELSE [l EXCEPT !.wild = TRUE]

\* The node n that malloc returned to list_insert, and the new length.
NewNode(l, n, data) ==
  [l EXCEPT !.len = @ + 1, !.used = @ \cup {n},
            !.node[n] = [p |-> data, next |-> Junk, prev |-> Junk]]

\* The first node's pointers stay as malloc left them.
LinkOnly(l, n) == [l EXCEPT !.head = n, !.tail = n]

LinkFront(l, n) == [l EXCEPT !.head = n, !.node[n].next = l.head, !.node[n].prev = NULL]

LinkBack(l, n) ==
  Store([l EXCEPT !.tail = n, !.node[n].prev = l.tail, !.node[n].next = NULL], l.tail, "next", n)

LinkAfter(l, n, tmp) ==
  Store([l EXCEPT !.node[n].prev = tmp, !.node[n].next = Go(l, tmp, "next")], tmp, "next", n)

FixTail(l) == [l EXCEPT !.tail = IF @ = NULL THEN l.head ELSE @]

list_insert(l0, n, data, index) ==
  LET l == NewNode(l0, n, data)
      \* The index is counted from 0 at the head, and from len at the tail.
      tmp == IF index > l0.len \div 2 THEN Walk(l, l.tail, "prev", l0.len - index)
             ELSE Walk(l, l.head, "next", index)
  IN  FixTail(IF l0.len = 0 THEN LinkOnly(l, n)
              ELSE IF index = 0 THEN LinkFront(l, n)
              ELSE IF index >= l0.len - 1 THEN LinkBack(l, n)
              ELSE LinkAfter(l, n, tmp))

\* list_at, NULL at the end of the list.
list_at(l, index) ==
  IF index >= l.len THEN NULL
  ELSE LET n == IF index = 0 THEN l.head
                ELSE IF index >= l.len - 1 THEN l.tail
                ELSE Walk(l, l.head, "next", index)
       IN  Go(l, n, "p")

UnlinkHead(l) ==
  IF l.head = l.tail THEN [l EXCEPT !.head = NULL, !.tail = NULL]
  ELSE LET next == Go(l, l.head, "next")
       IN  Store([l EXCEPT !.head = next], next, "prev", NULL)

UnlinkTail(l) ==
  LET prev == Go(l, l.tail, "prev")
  IN  Store([l EXCEPT !.tail = prev], prev, "next", NULL)

UnlinkInside(l, n) ==
  LET prev == Go(l, n, "prev")
      next == Go(l, n, "next")
  IN  Store(Store(l, prev, "next", next), next, "prev", prev)

\* With free the contents of a node are lost.
FreeNode(l, n) ==
  [l EXCEPT !.len = @ - 1, !.used = @ \ {n},
            !.node = [x \in Node |-> IF x = n THEN Uninitialised ELSE @[x]]]

list_remove(l, index) ==
  IF index = 0 THEN FreeNode(UnlinkHead(l), l.head)
  ELSE IF index >= l.len - 1 THEN FreeNode(UnlinkTail(l), l.tail)
  ELSE LET n == Walk(l, l.head, "next", index) IN FreeNode(UnlinkInside(l, n), n)

\* The list as list_at shows it.
Elements(l) == [i \in 1..l.len |-> list_at(l, i - 1)]
=============================================================================
