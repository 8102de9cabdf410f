SPECIFICATION Spec
CONSTANTS
  Caller = {t1, t2}
  Value = {v1, v2}
  Node = {x1, x2, x3}
  NULL = NULL
  Junk = Junk
  ReuseHeld = FALSE
  WordSize = 8
SYMMETRY Symmetry
INVARIANTS   LockFree
 
