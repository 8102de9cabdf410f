SPECIFICATION Spec
CONSTANTS
  Proc = {c1}
  FrameCount = 7
  PageCells = 8
  Foot = 3
  TrimCheck = 12
  TabSpan = 2
  Pages = 1
  MmioPages = 2
  BufferCount = 4
  WordBits = 2
  Sizes = {1, 9}
  MaxLive = 1
CHECK_DEADLOCK FALSE
INVARIANTS   BootsThrough  WindowTiled
PROPERTIES  ImplementsPool
