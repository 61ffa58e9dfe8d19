SPECIFICATION Spec
CONSTANTS
  Names = {a, b}
  LastIno = 12
  InodesPerGroup = 12
  SlotsPerBlock = 3
  MaxDirBlocks = 2
  MaxFreeBlocks = 2
  LinkMod = 65536
  LinkBound = 4
INVARIANT NoDanglingEntry
SYMMETRY NameSymmetry
CHECK_DEADLOCK FALSE
