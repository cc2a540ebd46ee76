SPECIFICATION FairSpec
CONSTANTS
  PRs = {p1, p2}
  Contexts <- TwoChecks
  Required <- TwoChecks
  ReportStates <- GreenRed
  MaxEntries = 2
  MaxCommits = 3
  MaxPushes = 1
  MaxRuns = 1
  Handlers <- NoHandlers
  MaxHeads = 2
  MaxEdits = 1
  SkipUpToDate = TRUE
  Faults <- NoFaults
  MaxFaults = 0
PROPERTIES
  AdvanceRemovesOwn
  EntriesLeave
CHECK_DEADLOCK FALSE
