SPECIFICATION Spec
CONSTANTS
  Proc = {c1, c2}
  FrameCount = 5
  PageCells = 8
  Foot = 3
  TrimCheck = 12
  TabSpan = 2
  Pages = 1
  MmioPages = 0
  BufferCount = 4
  WordBits = 2
  Sizes = {1}
  MaxLive = 0
CHECK_DEADLOCK FALSE
INVARIANT PopIsAtomic
