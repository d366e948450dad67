SPECIFICATION MCSpec
CONSTANTS
  Parts = {"crashes", "edits", "faults", "sounds", "restore", "backup"}
  Modes = {"full", "plain", "new"}
  Ops = {"create_mode", "delete_mode", "put", "delete", "import"}
  FirstDisk <- ThreeModes
  Edits <- HandEdits
  ListEdits = TRUE
  MaxMutations = 2
  MaxGenerations = 4
  MaxCrashes = 2
  MaxFaults = 2
  MaxEdits = 2
  Folders = {"a", "b"}
  SfxNames = {1, 2}
  SfxClients = {c1, c2}
  Policies = {"rename", "overwrite", "skip"}
  SfxOps = {"create_folder", "rename_folder", "delete_folder", "move_file", "delete_file", "publish_upload"}
  StartFolders = {"a"}
  SfxMaxOps = 2
  SfxMaxFaults = 1
  SfxMaxCrashes = 1
  MaxCancels = 1
  Cli = {r1, r2}
  Server = Server
  RestoreNothing = Nothing
  RestoreFresh = Fresh
  Confirmed = TRUE
  RestoreMaxOps = 2
  RestoreMaxFaults = 1
  RestoreMaxCrashes = 2
  BackupRequests = {b1}
  Files = {1, 2}
  Keys = {"k1", "k2"}
  BackupNothing = Nothing
  MaxWrites = 3
INVARIANTS
  ModesAreTrue
  SoundsKept
  ServedWhole
PROPERTIES
  ModesPromised
  CommitsWhatWasSeen
  WholeOrNothing
SYMMETRY MCSymmetry
CHECK_DEADLOCK FALSE
