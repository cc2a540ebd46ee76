SPECIFICATION Spec
CONSTANTS
  Repos <- TwoRepos
  Kind <- KindOf
  Explicit <- OneExplicit
  Sources <- BothSources
  Polled <- OnePolled
  MaxEpochs = 1
  MaxBatches = 1
  MaxRetries = 0
  MaxEvents = 1
PROPERTIES
  FormingIsRetried
CHECK_DEADLOCK FALSE
