SPECIFICATION Spec
CONSTANTS
  Procs = {p1, p2}
  PCModules = {"T", "L", "B"}
  Main = "main"
  Imports <- MCChain
  Programs <- MCPrograms1
  BrokenSets <- MCAllBroken
  CachedFiles <- MCEmptyCache
  Absent = Absent
  NoProc = NoProc
  MayDie = FALSE
  MayCrash = FALSE
  LockMayFail = FALSE
INVARIANT FailureSetIsAllocated
CHECK_DEADLOCK FALSE
