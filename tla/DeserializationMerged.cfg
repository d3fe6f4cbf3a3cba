SPECIFICATION Spec
CONSTANTS
  Decls <- MCDecls
  Names = {"n", "m"}
  Files = {"A", "B", "C"}
  Main = "Main"
  NoDecl = "NoDecl"
  Programs <- MCMergedPrograms
INVARIANTS
  DeserializedAreWired
CHECK_DEADLOCK FALSE
