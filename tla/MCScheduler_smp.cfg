CONSTANTS
  c1 = c1 c2 = c2 t1 = t1 t2 = t2
  NULL = NULL
  CPU = {c1, c2}
  Thread = {t1, t2}
SPECIFICATION Spec
SYMMETRY Symmetry
INVARIANT OneCpuPerThread
