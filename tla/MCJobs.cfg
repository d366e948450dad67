SPECIFICATION MCSpec
CONSTANTS
  Parts = {"queue", "direct", "batch", "context"}
  MaxJobs = 2
  MaxStops = 2
  Kinds <- MCKinds
  UniqueKinds = {"model"}
  Lanes = {"local", "provider"}
  Builds <- MCBuilds
  RunRequests = {1, 2}
  RunModes = {"direct", "batch"}
  RequestLimit = 3
  Retention = {"in"}
  MaxRuns = 2
  RunMaxStops = 2
  RunMaxFaults = 2
  RunMaxEdits = 2
  NTracks = 2
  NJobs = 2
  Workers = 2
  VoiceModes = {"ready", "unavailable"}
  ContextMaxEdits = 1
  ContextMaxCrashes = 1
  ContextNone = None
INVARIANTS
  QueueKept
  PaidIsKnown
  CurrentDescribesFile
PROPERTIES
  ImplementsLifecycle
  NothingRepeated
CHECK_DEADLOCK FALSE
