CONSTANTS
  c1 = c1
  c2 = c2
  Configs = {c1, c2}
  NoConfig = NoConfig
  NoPart = NoPart
  HeadersFirst = TRUE
  MaxParts = 3
  r1 = r1
  r2 = r2
  Rooms = {r1, r2}
  NoRoom = NoRoom
  NoManifest = NoManifest
  MaxFailures = 2
  MaxEmpty = 2
  Checks = 2
  Window = 2
  MaxConnections = 3
  MaxCrashes = 1
  MaxResumes = 1
  StopsBeforeConnecting = TRUE
SPECIFICATION Spec
CHECK_DEADLOCK FALSE
SYMMETRY MCSymmetry
INVARIANTS ManifestCurrent
