SPECIFICATION Spec
CONSTANTS
  LastBlock = 3
  Values = {0, 1}
  WipeValue = 9
  Wipeable = {2}
  CacheSize = 2
  DirectSize = 2
  TimeHalf = 2
INVARIANT WipedStaysWiped
CHECK_DEADLOCK FALSE
