SPECIFICATION MCSpec
CONSTANTS
  Parts = {"rules", "managed", "returns", "pages", "requests", "clients"}
  PlaylistNone = PlaylistNone
  Unreadable = Unreadable
  PlaylistPaths = {1, 2}
  Bpm <- MCBpm
  PlaylistTags = {"calm"}
  Rules <- MCRules
  Broken = TRUE
  MaxItems = 3
  PlaylistClients = {"a"}
  PlaylistOps = {"add", "remove", "move", "create", "delete", "rule", "manual", "refresh", "insert"}
  MaxScans = 2
  PlaylistMaxTagEdits = 1
  PlaylistMaxEdits = 4
  MaxLoads = 3
  MaxFailures = 1
  CatalogClients = {"c1", "c2"}
  CatalogRequests <- MCRequests
  CatalogTracks = {1, 2, 3}
  FirstRows = {1, 2}
  Folder = {1, 3}
  CatalogPlaylist = {1, 2}
  CatalogModeCatalogs <- MCModeCatalogs
  FirstModes <- Shared
  CatalogNone = "none"
  MaxCommits = 2
  MaxReloads = 3
  BatchesFail = FALSE
  Persistent = FALSE
INVARIANTS
  UnchangedIsCurrent
PROPERTIES
  RowsAsShown
  ResolvedNow
CHECK_DEADLOCK FALSE
