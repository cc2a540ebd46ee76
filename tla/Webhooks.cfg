SPECIFICATION Spec
CONSTANTS
  PRs = {p1, p2}
  Contexts <- OneCheck
  Required <- OneCheck
  ReportStates <- GreenRed
  MaxEntries = 2
  MaxCommits = 4
  MaxPushes = 0
  MaxRuns = 1
  Handlers <- OneHandler
  MaxHeads = 2
  MaxEdits = 1
  SkipUpToDate = FALSE
  Faults <- StopFaults
  MaxFaults = 1
SYMMETRY PRSymmetry
INVARIANTS
  SingleTypeOK
  SuccessIsEarned
  TestsHeadOnly
CHECK_DEADLOCK FALSE
