SPECIFICATION Spec
CONSTANTS
  PRs <- ThreePRs
  Contexts <- OneCheck
  Required <- OneCheck
  ReportStates <- GreenRed
  MaxEntries = 3
  MaxCommits = 4
  MaxPushes = 1
  MaxRuns = 1
  MaxBatches = 1
  BatchMax = 0
  BisectMaxSteps = 2
  MaxFFRetries = 2
  MaxCalls = 1
  Faults <- NoFaults
  MaxFaults = 0
INVARIANTS
  LandsOnlyTested
  RoutedToOwnBuild
  PendingUnrouted
  BisectionKeepsOrder
  MembersTracked
PROPERTIES
  LandsOnlyQueued
  RejectsOnlyRed
  ResultsMeetOnHead
CHECK_DEADLOCK FALSE
