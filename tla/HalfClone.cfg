SPECIFICATION Spec
CONSTANTS
  Users = {a}
  Heads <- TwoHeads
  MaxCommits = 3
  MaxPushes = 0
  MaxFaults = 1
PROPERTIES
  CloneRecovers
CHECK_DEADLOCK FALSE
