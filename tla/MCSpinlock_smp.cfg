SPECIFICATION LockSpec
CONSTANTS
  Processor = {c1, c2}
  Lock <- MCLock
SYMMETRY Symmetry
INVARIANTS MutualExclusion InterruptsRestored
PROPERTY ImplementsLock
