SPECIFICATION FairSpec
CONSTANTS
  PRs <- TwoPRs
  Contexts <- OneCheck
  Required <- OneCheck
  ReportStates <- GreenRed
  MaxEntries = 2
  MaxCommits = 4
  MaxPushes = 1
  MaxRuns = 1
  MaxBatches = 1
  BatchMax = 0
  BisectMaxSteps = 0
  MaxFFRetries = 2
  MaxCalls = 1
  Faults <- NoFaults
  MaxFaults = 0
PROPERTIES
  BatchFinishes
  ImplementsMergeQueue
CHECK_DEADLOCK FALSE
