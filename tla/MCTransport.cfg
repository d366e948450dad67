SPECIFICATION MCSpec
CONSTANTS
  Parts = {"transport", "reports"}
  None = None
  solo = solo
  party = party
  day = day
  night = night
  weather = weather
  rain = rain
  warm = warm
  slow = slow
  byHand = byHand
  byCue = byCue
  storm = storm
  Tracks <- MCTracks
  MaxPosition = 2
  Devices = {d1}
  ModeIds <- MCNone
  Boards <- MCNone
  Items <- MCNone
  Presets <- MCNone
  Volumes = {full}
  DefaultVolume = full
  Crossfades = {cut}
  DefaultCrossfade = cut
  LoopIds <- MCNone
  CueIds <- MCNone
  CueOf <- MCEmpty
  Intervals <- MCNone
  Duration <- MCDuration
  Grace = 0
  UnknownDuration = 1
  Playlists <- MCPlaylists
  Positions <- MCPositions
  Cues <- MCNone
  ModeCatalogs <- MCNone
  Labels = {name}
  MaxConns = 1
  MaxQueue = 1
  MaxNow = 2
  MaxEpoch = 3
  MaxRevision = 5
INVARIANTS
  TypeOK
  ClockInv
  ClockRunsWhenHeard
  StoredIsEnough
PROPERTIES
  EpochMarksMoves
