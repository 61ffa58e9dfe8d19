SPECIFICATION FairSpec
CONSTANTS
  LastBlock = 3
  Values = {0, 1}
  WipeValue = 9
  Wipeable = {2}
  CacheSize = 2
  DirectSize = 2
  TimeHalf = 1
INVARIANTS TypeOK OneEntryPerBlock CleanMatchesDisk ReadReturnsLastWrite
PROPERTIES FlushIsDurable ImplementsStore RequestsEnd
CHECK_DEADLOCK FALSE
