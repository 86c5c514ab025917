CONSTANTS
  StoreMayFail = FALSE
  PartialsRemain = TRUE
  StopsInRecovery = FALSE
  RelockMayFail = FALSE
  MaxStarts = 2
  MaxCrashes = 3
SPECIFICATION Spec
CHECK_DEADLOCK FALSE
INVARIANTS FreeSlotSettled EncoderOwned BlockedKeepsIntent EvidenceRetryable
