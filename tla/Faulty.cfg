SPECIFICATION Spec
CONSTANTS
  PRs <- TwoPRs
  Contexts <- TwoChecks
  Required <- TwoChecks
  ReportStates <- GreenRed
  MaxEntries = 2
  MaxCommits = 3
  MaxPushes = 0
  MaxRuns = 1
  MaxBatches = 1
  BatchMax = 0
  BisectMaxSteps = 0
  MaxFFRetries = 2
  MaxCalls = 1
  Faults <- AllFaults
  MaxFaults = 1
INVARIANTS
  TypeOK
  IInv
  LandsOnlyTestedOrDirty
CHECK_DEADLOCK FALSE
