SPECIFICATION FairSpec
CONSTANTS
  CPU = {c1, c2}
  NULL = NULL
  Vmem = vmem
  Callback = {vmem, b1, b2}
  Requested = {3, 4, 5}
  Supported = {0, 1, 5}
CHECK_DEADLOCK FALSE
INVARIANTS AskedBeforeSleep ToldTheOutcome LowMemoryRestored
PROPERTY LockReleased
