SPECIFICATION FairSpec
CONSTANTS
  Files = {"main", "H"}
  MainFile = "main"
  Macros = {"M", "G"}
  None = None
  Texts <- MCTexts
  MaxLines = 6
  MaxHeaderLines = 4
  MaxAllowedIncludeStackDepth = 3
  NumIncludesModulus = 65536
INVARIANTS
  SkippingAssertions
  OnlySelectedGroupsAreRead
  GuardedFilesHaveNoEffect
PROPERTIES
  GuardsAreRecognised
  OnceFilesAreNotReentered
  Terminates
CHECK_DEADLOCK FALSE
