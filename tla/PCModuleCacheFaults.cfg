SPECIFICATION Spec
CONSTANTS
  Procs = {p1, p2}
  PCModules = {"T", "L", "B"}
  Main = "main"
  Imports <- MCChain
  Programs <- MCPrograms1
  BrokenSets <- MCNoneBroken
  CachedFiles <- MCOldCaches
  Absent = Absent
  NoProc = NoProc
  MayDie = TRUE
  MayCrash = TRUE
  LockMayFail = TRUE
INVARIANTS
  OneBuilderPerModule
  ImportedFilesAreCurrent
CHECK_DEADLOCK FALSE
