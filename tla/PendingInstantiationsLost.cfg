SPECIFICATION FairSpec
CONSTANTS
  Subprograms <- MCSubprograms
  Variables <- MCVariables
  Classes = {"C"}
  Parser = Parser
  Programs <- MCEarlyPrograms
  InstantiationDepth = 5
INVARIANTS
  ReferencedIsDefined
CHECK_DEADLOCK FALSE
