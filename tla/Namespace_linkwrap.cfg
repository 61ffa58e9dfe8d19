SPECIFICATION Spec
CONSTANTS
  Names = {a, b, c, d}
  LastIno = 11
  InodesPerGroup = 12
  SlotsPerBlock = 3
  MaxDirBlocks = 2
  MaxFreeBlocks = 2
  LinkMod = 4
  LinkBound = 4
INVARIANT LinkCountedOrRefused
SYMMETRY NameSymmetry
CHECK_DEADLOCK FALSE
