SPECIFICATION Spec
CONSTANTS
  f0 = f0
  h0 = h0
  f1 = f1
  f2 = f2
  h1 = h1
  h2 = h2
  f3 = f3
  d3 = d3
  NoFile = NoFile
SYMMETRY FileSymmetry
INVARIANTS  MapBlocksSound
PROPERTIES FileIsBytes BlocksStay
CHECK_DEADLOCK FALSE
