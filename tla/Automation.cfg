CONSTANTS
  Creators = {1}
  N = 2
  ManualStarts = TRUE
  StoreMayFail = TRUE
  Faults = TRUE
  MaxRooms = 2
  MaxSessions = 3
  MaxCrashes = 1
SPECIFICATION FairSpec
CHECK_DEADLOCK FALSE
INVARIANTS ConsumedWasRecorded
PROPERTIES NoRepeatOnRecord StartsClaimed 
