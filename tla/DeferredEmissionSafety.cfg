SPECIFICATION FairSpec
CONSTANTS
  Functions = {"f", "g"}
  Members = {"m"}
  Variables = {"v", "w"}
  Classes = {"C"}
  NoName = NoName
  Units <- MCUnits
INVARIANTS
  NeededIsDefined
  OnlyNeededIsInTheModule
  DeferredAreUnreferenced
  InitializersInOrder
PROPERTIES
  DefinitionsAreFinal
CHECK_DEADLOCK FALSE
