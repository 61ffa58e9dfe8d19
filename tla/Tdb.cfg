SPECIFICATION AllSpec
CONSTANTS
  p1 = p1
  p2 = p2
  p3 = p3
  Procs = {p1, p2}
  NChains = 2
  ClearFirst = FALSE
  MaxCount = 2
  MaxNest = 1
  Liberties = {"sync"}
INVARIANTS CommitIsAtomic  SpaceSound LocksSound 
CHECK_DEADLOCK FALSE
