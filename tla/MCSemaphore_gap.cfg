SPECIFICATION Spec
CONSTANTS
  Thread = {t1, t2, t3}
  NULL = NULL
  Uses <- MutexOnOneCpu
SYMMETRY Symmetry
CHECK_DEADLOCK FALSE
INVARIANT SleeperIsQueued
