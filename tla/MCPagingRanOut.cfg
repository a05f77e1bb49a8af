SPECIFICATION PagingSpec
CONSTANTS
  Frames = {0,1,2,3,4,5,6,7,8,9,10}
  Dirs = {d1, d2}
  Pages = {0, 1, 2}
INVARIANT MemoryRanOut
CHECK_DEADLOCK FALSE
