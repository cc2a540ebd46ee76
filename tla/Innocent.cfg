SPECIFICATION Spec
CONSTANTS
  PRs = {p1, p2}
  Contexts <- OneCheck
  Required <- OneCheck
  ReportStates <- GreenRed
  MaxEntries = 2
  MaxCommits = 3
  MaxPushes = 0
  MaxRuns = 1
  Handlers <- OneHandler
  MaxHeads = 1
  MaxEdits = 0
  SkipUpToDate = FALSE
  Faults <- NoFaults
  MaxFaults = 0
PROPERTIES
  AdvanceRemovesOwn
CHECK_DEADLOCK FALSE
