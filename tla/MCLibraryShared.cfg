SPECIFICATION MCSpec
CONSTANTS
  Parts = {"shared"}
  d1 = d1
  d2 = d2
  Dirs = {d1, d2}
  Stems = {"s", "z"}
  Exts = {"flac", "m4a", "wav"}
  NoExt = "none"
  Libraries <- MCLibraries
  Requests <- MCRequests
  MaxJournals = 4
  MaxGen = 6
  MaxBatch = 2
  MaxCrashes = 2
  MaxFaults = 1
  FirstTracks <- CleanupLibrary
  Proposals <- Review
  UserEdits <- Edits
  CleanupNoBatch = 0
  CleanupMaxOps = 3
  CleanupMaxJournals = 5
  CleanupMaxCrashes = 1
  CleanupMaxFaults = 1
  CleanupMaxEdits = 1
INVARIANT
  NothingLost
CHECK_DEADLOCK FALSE
