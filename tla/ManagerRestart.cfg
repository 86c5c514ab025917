CONSTANTS
  N = 2
  alice = alice
  Alice = Alice
  bob = bob
  pageA = pageA
  pageB = pageB
  clip = clip
  clipUp = clipUp
  other = other
  dirClip = dirClip
  dirOther = dirOther
  Urls = {alice, bob}
  Pages = {pageA, pageB}
  PageOf <- MCPageOf
  Outputs = {clip, other}
  Parts = {dirClip, dirOther}
  PartsOf <- MCPartsOf
  room1 = room1
  Rooms = {}
  NoRoom = NoRoom
  NoOutput = NoOutput
  NoOwner = NoOwner
  NoJob = NoJob
  Corrupt = Corrupt
  ReadFaults = {}
  StoreMayFail = TRUE
  MayCorrupt = TRUE
  MaxStarts = 3
  MaxCrashes = 1
SPECIFICATION Spec
CHECK_DEADLOCK FALSE
SYMMETRY TwoDirectoriesSymmetry
INVARIANTS ExclusivePaths
