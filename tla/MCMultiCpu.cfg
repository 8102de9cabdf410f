SPECIFICATION FairSpec
CONSTANTS
  AP = {ap1, ap2}
  BSP = bsp
  MaxCalls = 3
CHECK_DEADLOCK TRUE
INVARIANTS StartedIsAlive StartsOneAtATime 
PROPERTIES  AllStart
