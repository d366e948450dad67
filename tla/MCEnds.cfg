SPECIFICATION MCSpec
CONSTANTS
  Parts = {"ends"}
  None = None
  Tracks <- MCTracks
  MaxPosition = 1
  HeadlessTracks = {t1, t2}
  HeadlessNone = none
  RespectConsole = TRUE
  ControlPort = TRUE
  MpvMayFail = TRUE
  HeadlessMaxChanges = 3
  MaxWire = 2
  MaxDrops = 1
  MaxSwitches = 2
  Ambients <- MCAmbients
  InterruptLists <- MCInterrupts
  EnginePositions = {1}
  Suspends = TRUE
  Mixed = TRUE
  EngineMaxEpoch = 3
  MaxRequests = 1
  Outputs = {o1, o2}
  EotPlaylists <- MCPlaylists
  EotLoops = {"off", "track"}
  EotMaxEpoch = 3
  MaxSent = 2
  Sockets = {s1, s2}
  Handlers = {h1}
  Names = {"hall"}
  RemoteNone = "none"
  Capacity = 1
  EventBuffer = 1
  Interval = 2
  Features = {"register", "act", "revoke"}
  MaxMessages = 1
  MaxChanges = 1
  MaxEvents = 1
PROPERTY
  DuplicateEndsAreHarmless
CHECK_DEADLOCK FALSE
