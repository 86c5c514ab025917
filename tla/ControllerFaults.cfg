CONSTANTS
  StoreMayFail = TRUE
  PartialsRemain = FALSE
  StopsInRecovery = TRUE
  RelockMayFail = TRUE
  MaxStarts = 2
  MaxCrashes = 2
SPECIFICATION FairSpec
CHECK_DEADLOCK FALSE
INVARIANTS OutputOnce CompletedIsProven RoomDurableFirst StopHonoured
PROPERTIES StopDurable StopEnds ShutdownEnds
