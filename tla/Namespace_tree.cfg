SPECIFICATION Spec
CONSTANTS
  Names = {a, b}
  LastIno = 13
  InodesPerGroup = 12
  SlotsPerBlock = 3
  MaxDirBlocks = 2
  MaxFreeBlocks = 3
  LinkMod = 65536
  LinkBound = 4
INVARIANTS LinkCountsCover TreeShape
SYMMETRY NameSymmetry
CHECK_DEADLOCK FALSE
