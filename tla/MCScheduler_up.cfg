CONSTANTS
  c1 = c1 t1 = t1 t2 = t2
  NULL = NULL
  CPU = {c1}
  Thread = {t1, t2}
SPECIFICATION FairSpec
INVARIANTS  ReadyIsQueued RestoresSavedContext RunningIsCurrent NoFreedThreadQueued
PROPERTY ReadyRuns
