SPECIFICATION Spec
CONSTANTS
  pit = pit
  lapic = lapic
  CPU = {c1, c2}
  Timer = {pit, lapic}
  Handler = {sleeper, h1, h2, h3}
  Mixes <- MCMixes
  SleepHandler = sleeper
  Node = {n1, n2, n3}
  Hw <- MCHw
  Requests <- MCRequests
  Thread = {t1, t2}
  Durations = {3, 5}
  MS_TO_TICKS = 1
  Word = 5
  NULL = NULL
  Junk = Junk
INVARIANTS OnTime  SleepsLongEnough 
SYMMETRY Symmetry
