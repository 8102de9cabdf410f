-------------------------------- MODULE Lists --------------------------------
(***************************************************************************)
(* A list of llist.c, as the kernel uses it, next to the sequence that it  *)
(* stands for.                                                             *)
(*                                                                         *)
(*   "callbacks"  powerman.c appends to a list and removes any element     *)
(*   "registry"   timer.c, sched.c and apic.c insert at the front          *)
(***************************************************************************)
EXTENDS LinkedList

CONSTANT Data

VARIABLES use,           \* fixed from the start
          l, contents    \* the list, and the sequence it stands for

ListInit == l = create_list /\ contents = <<>>

InsertFront(n, x) ==
  /\ use = "registry"
  /\ l' = list_insert(l, n, x, 0)
  /\ contents' = <<x>> \o contents

\* The index -1 is the largest size_t.
InsertBack(n, x) ==
  /\ use = "callbacks"
  /\ l' = list_insert(l, n, x, 2 * Cardinality(Node))
  /\ contents' = Append(contents, x)

Removal(i) ==
  /\ use = "callbacks"
  /\ l' = list_remove(l, i - 1)
  /\ contents' = SubSeq(contents, 1, i - 1) \o SubSeq(contents, i + 1, Len(contents))

ListStep ==
  \/ \E n \in Node \ l.used, x \in Data : InsertFront(n, x) \/ InsertBack(n, x)
  \/ \E i \in 1..Len(contents) : Removal(i)

ListSpec == ListInit /\ [][UNCHANGED use /\ ListStep]_<<use, l, contents>>

-----------------------------------------------------------------------------
\* The list holds what was inserted and not removed, in order, and no operation
\* follows or writes through a pointer that does not point to a node.
ListAgrees == ~l.wild /\ Elements(l) = contents
=============================================================================
