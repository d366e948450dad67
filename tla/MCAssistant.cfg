SPECIFICATION MCSpec
CONSTANTS
  Parts = {"evidence", "tagger", "tags", "gates", "moods", "cleanup", "vault"}
  Tracks = {t1}
  Tags = {"mellow", "tense"}
  Vocabularies <- EditedVocabularies
  Default <- Mellow
  Limit = 1
  Decisions = {"accepted", "rejected", "pending"}
  MaxSettings = 2
  MaxFiles = 1
  MaxLookups = 2
  MaxTagEdits = 2
  WithModel = TRUE
  RoleConnections = {"k1", "k2"}
  Urls = {"u1", "u2"}
  Roles = {"eq_assistant", "music_tagger", "tag_cleanup", "library_cleanup"}
  Models = {"m1", "m2"}
  RoleClients = {r1, r2}
  StartUrl = "u1"
  StartModel = "m1"
  RoleKinds = {"create", "edit", "clear", "reset", "verify", "test", "configure", "drop", "delete", "evaluation", "live"}
  RoleMaxOps = 5
  RoleMaxJobs = 2
  MaxKeys = 2
  VaultConnections = {"k1", "k2"}
  VaultSources = {"acoustid"}
  VaultClients = {v1, v2, v3}
  VaultMaxOps = 5
  VaultMaxFaults = 1
  VaultMaxCrashes = 1
INVARIANTS
  EvidenceIsCurrent
  GatesHold
  KeysServe
PROPERTIES
  AcceptedIsCurrent
SYMMETRY MCSymmetry
CHECK_DEADLOCK FALSE
