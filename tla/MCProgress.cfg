SPECIFICATION MCSpec
CONSTANTS
  Parts = {"queue", "models", "sounds", "restore", "vault", "requests"}
  MaxJobs = 2
  MaxStops = 1
  Kinds <- MCKinds
  UniqueKinds = {"model"}
  Lanes = {"local", "provider"}
  Builds <- MCBuilds
  RunRequests = {1}
  RunModes = {"batch"}
  RequestLimit = 3
  Retention = {"in"}
  MaxRuns = 1
  RunMaxStops = 1
  RunMaxFaults = 1
  RunMaxEdits = 0
  Folders = {"a"}
  SfxNames = {1, 2}
  SfxClients = {"s1"}
  Policies = {"overwrite"}
  SfxOps = {"move_file", "publish_upload"}
  StartFolders = {}
  SfxMaxOps = 2
  SfxMaxFaults = 1
  SfxMaxCrashes = 1
  MaxCancels = 1
  Cli = {r1}
  Server = Server
  RestoreNothing = Nothing
  RestoreFresh = Fresh
  Confirmed = TRUE
  RestoreMaxOps = 1
  RestoreMaxFaults = 1
  RestoreMaxCrashes = 2
  VaultConnections = {"k1"}
  VaultSources = {"acoustid", "lastfm"}
  VaultClients = {"v1", "v2"}
  VaultMaxOps = 5
  VaultMaxFaults = 1
  VaultMaxCrashes = 0
  CatalogClients = {"c1"}
  CatalogRequests <- MCRequests
  CatalogTracks = {1, 2}
  FirstRows = {1}
  Folder = {1, 2}
  CatalogPlaylist = {1}
  CatalogModeCatalogs <- MCModeCatalogs
  FirstModes <- Full
  CatalogNone = "none"
  MaxCommits = 1
  MaxReloads = 2
  BatchesFail = TRUE
  Persistent = TRUE
PROPERTIES
  WorkEnds
  RequestsAnswered
CHECK_DEADLOCK FALSE
