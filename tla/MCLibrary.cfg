SPECIFICATION MCSpec
CONSTANTS
  Parts = {"tracks", "same", "faults", "folders", "uploads", "copies", "batches", "reviews"}
  d1 = d1
  d2 = d2
  Dirs = {d1, d2}
  Stems = {"s", "z"}
  Exts = {"flac", "m4a", "wav"}
  NoExt = "none"
  Libraries <- MCLibraries
  Requests <- MCRequests
  MaxJournals = 4
  MaxGen = 6
  MaxBatch = 2
  MaxCrashes = 2
  MaxFaults = 1
  FirstTracks <- CleanupLibrary
  Proposals <- Review
  UserEdits <- Edits
  CleanupNoBatch = 0
  CleanupMaxOps = 3
  CleanupMaxJournals = 4
  CleanupMaxCrashes = 1
  CleanupMaxFaults = 1
  CleanupMaxEdits = 1
INVARIANTS
  
  IndexIsTrue
  HistoryIsTrue
PROPERTIES
  RevertUndoes
  ServesAgain
CHECK_DEADLOCK FALSE
