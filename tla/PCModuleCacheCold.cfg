SPECIFICATION FairSpec
CONSTANTS
  Procs = {p1, p2}
  PCModules = {"T", "L", "R", "B", "X", "Y"}
  Main = "main"
  Imports <- MCDiamondAndCycle
  Programs <- MCProgramsDiamondOrCycle
  BrokenSets <- MCDiamondBroken
  CachedFiles <- MCEmptyCache
  Absent = Absent
  NoProc = NoProc
  MayDie = TRUE
  MayCrash = FALSE
  LockMayFail = FALSE
INVARIANTS
  ErrorsAreNeverCached
  FailedImportsAreErrors
  GoodImportsSucceed
  WaitsAreAcyclic
PROPERTIES
  FailedModulesAreNotRebuilt
  EveryProcessFinishes
CHECK_DEADLOCK FALSE
