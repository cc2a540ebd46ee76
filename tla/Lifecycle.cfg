CHECK_DEADLOCK FALSE
SPECIFICATION Spec
CONSTANTS
  Repos <- TwoRepos
  Kind <- KindOf
  Explicit <- OneExplicit
  Sources <- BothSources
  Polled <- OnePolled
  MaxEpochs = 2
  MaxBatches = 2
  MaxRetries = 1
  MaxEvents = 3
INVARIANTS
  LifecycleTypeOK
  NoOrphanPoller
  PurgedStaysEmpty
  NothingUnheard
PROPERTIES
  RemovesOnlyUnlisted
  QueuedIsServed
