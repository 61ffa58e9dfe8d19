SPECIFICATION Spec
CONSTANTS
  Names = {a, b, c}
  LastIno = 12
  InodesPerGroup = 12
  SlotsPerBlock = 3
  MaxDirBlocks = 2
  MaxFreeBlocks = 3
  LinkMod = 65536
  LinkBound = 4
INVARIANTS TypeOK NoDangling CountsAgree ErrorChangesNoName 
PROPERTIES ImplementsNameTree BlocksConserved
SYMMETRY NameSymmetry
CHECK_DEADLOCK FALSE
