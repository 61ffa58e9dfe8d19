SPECIFICATION AllSpec
CONSTANTS
  NInodes = 4
  PerGroup = 3
  InodeSize = 2
  BlockSize = 3
  CacheSize = 2
  NoTable = {1}
  Vals = {0, 1}
INVARIANTS   RecordsSound 
PROPERTIES  ListingEnds
CHECK_DEADLOCK FALSE
