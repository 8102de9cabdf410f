SPECIFICATION Spec
CONSTANTS
  Node = {n1, n2, n3, n4}
  Data = {a, b}
  NULL = NULL
  Junk = Junk
  Key = {1, 2, 3, 4, 5, 6, 7}
  Offset = {1, 2, 3, 4, 5}
  Garbage = {0, 2}
  TREE_NOTFOUND = TREE_NOTFOUND
SYMMETRY Symmetry
CHECK_DEADLOCK FALSE
INVARIANTS ListAgrees  GrowsBalanced
PROPERTY IteratesInOrder
