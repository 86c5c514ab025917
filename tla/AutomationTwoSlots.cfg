CONSTANTS
  Creators = {1}
  N = 2
  ManualStarts = TRUE
  StoreMayFail = TRUE
  Faults = FALSE
  MaxRooms = 1
  MaxSessions = 3
  MaxCrashes = 1
SPECIFICATION Spec
CHECK_DEADLOCK FALSE
INVARIANTS OncePerLive
