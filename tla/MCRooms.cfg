SPECIFICATION MCSpec
CONSTANTS
  Parts = {"outputs", "content"}
  None = None
  solo = solo
  party = party
  day = day
  night = night
  weather = weather
  rain = rain
  warm = warm
  slow = slow
  byHand = byHand
  byCue = byCue
  storm = storm
  Tracks <- RoomTracks
  MaxPosition = 2
  Devices = {d1, d2}
  ModeIds = {solo, party, day, night}
  Boards = {weather}
  Items = {rain}
  Presets = {warm}
  Volumes = {full}
  DefaultVolume = full
  Crossfades = {cut, slow}
  DefaultCrossfade = cut
  LoopIds = {byHand, byCue}
  CueIds = {storm}
  CueOf <- RoomCueOf
  Intervals <- RoomIntervals
  Duration <- RoomDuration
  Grace = 0
  UnknownDuration = 1
  Playlists <- MCNone
  Positions <- MCNone
  Cues <- RoomCues
  ModeCatalogs <- RoomCatalogs
  Labels = {name}
  MaxConns = 3
  MaxQueue = 0
  MaxNow = 2
  MaxEpoch = 1
  MaxRevision = 5
INVARIANTS
  SingleOutput
  ActiveOutputsConnected
  NoDanglingReferences
  LoopDeadlines
PROPERTIES
  RevisionOrders
SYMMETRY MCSymmetry
