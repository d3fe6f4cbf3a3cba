SPECIFICATION FairSpec
CONSTANTS
  Decls <- MCDecls
  Names = {"n", "m"}
  Files = {"A", "B", "C"}
  Main = "Main"
  NoDecl = "NoDecl"
  Programs <- MCPrograms
INVARIANTS
  InterestingPassedOnce
  OneBodyPerEntity
  DeserializedAreWired
  ChainsAreWhole
  NamesBringDecls
  BodiesKeepTheirPlace
PROPERTIES
  ConsumerSeesWholeDecls
CHECK_DEADLOCK FALSE
