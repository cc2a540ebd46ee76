SPECIFICATION Spec
CONSTANTS
  PRs <- TwoPRs
  MaxCommits = 7
  MaxBatches = 2
  MaxEvents = 1
  MaxFaults = 1
INVARIANTS
  ForgeTypeOK
  BuildHoldsMembers
  ClosesOnlyLanded
  MergedOnce
PROPERTIES
  TargetOnlyGrows
  LandedIsClosed
CHECK_DEADLOCK FALSE
