SPECIFICATION Spec
CONSTANTS
  Labels = {l1}
  CleanupKinds <- MCCleanupKinds
  FixupDepths = 8192
  MaxScopes = 2
  MaxJumps = 2
  MaxStatements = 6
  MaxWalk = 40
  l1 = l1
INVARIANTS
  JumpsRunTheirCleanups
  FixupsFitTheirScopes
CHECK_DEADLOCK FALSE
