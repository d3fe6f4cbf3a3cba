SPECIFICATION FairSpec
CONSTANTS
  Subprograms <- MCSubprograms
  Variables <- MCVariables
  Classes = {"C"}
  Parser = Parser
  Programs <- MCPrograms
  InstantiationDepth = 5
INVARIANTS
  ReferencedIsDefined
  HandedToConsumerOnce
  UsedVTablesAreHandled
  LocalsWaitInOpenScopes
PROPERTIES
  CompilationEnds
CHECK_DEADLOCK FALSE
