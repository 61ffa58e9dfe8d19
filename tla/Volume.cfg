SPECIFICATION AllSpec
CONSTANTS
  NGroups = 1
  BlocksPer = 1
  InodesPer = 1
  LazyGroups = {}
  InitFiles = 0
  CountWrap = 8
  FaultsAt = {"flush", "evict"}
  MaxFaults = 1
  MaxCrashes = 1
  MaxRequests = 3
  ByteBits = 2
  Start = 1
  MaxEnd = 4
  RealEnds = {2, 4}
INVARIANTS   BitmapSound 
PROPERTIES SuperblockLast 
CHECK_DEADLOCK FALSE
