SPECIFICATION Spec
CONSTANTS
  Repos = {ours, other}
  Repo = ours
  Writers = {webhook, poll}
  Refresher = discovery
  Written = {"pending", "failure"}
  Installed <- OneEach
  MaxInstalls = 3
  MaxSize = 2
  MaxCalls = 3
  MaxRefreshes = 2
  MaxChanges = 1
  MaxFaults = 1
INVARIANTS
  ChecksTypeOK
  NoStaleRead
  FewRuns
  ShowsLastWrite
  RefreshKeepsCovered
SYMMETRY Symmetry
CHECK_DEADLOCK FALSE
