SPECIFICATION Spec
CONSTANTS
  Users = {a, b}
  Heads <- TwoHeads
  MaxCommits = 4
  MaxPushes = 1
  MaxFaults = 1
INVARIANTS
  CacheTypeOK
  BuildsOnMain
  ObjectsStay
PROPERTIES
  SoundIsKept
  CorruptIsReplaced
CHECK_DEADLOCK FALSE
