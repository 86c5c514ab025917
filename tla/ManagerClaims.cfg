CONSTANTS
  N = 2
  alice = alice
  Alice = Alice
  bob = bob
  pageA = pageA
  pageB = pageB
  clip = clip
  clipUp = clipUp
  other = other
  dirClip = dirClip
  dirOther = dirOther
  Urls = {alice, bob}
  Pages = {pageA, pageB}
  PageOf <- MCPageOf
  Outputs = {clip, clipUp, other}
  Parts = {dirClip, dirOther}
  PartsOf <- MCPartsOf
  room1 = room1
  Rooms = {room1}
  NoRoom = NoRoom
  NoOutput = NoOutput
  NoOwner = NoOwner
  NoJob = NoJob
  Corrupt = Corrupt
  ReadFaults = {"status", "ownership"}
  StoreMayFail = FALSE
  MayCorrupt = FALSE
  MaxStarts = 2
  MaxCrashes = 0
SPECIFICATION Spec
CHECK_DEADLOCK FALSE
CONSTRAINT BeforeShutdown
SYMMETRY SharedDirectorySymmetry
INVARIANTS TypeOK ExclusiveClaims CleanScanKnowsOwners RoomReservation ClaimKept
PROPERTIES StopHitsOwner
