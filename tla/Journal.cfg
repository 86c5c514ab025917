CONSTANTS
  s1 = s1
  s2 = s2
  s3 = s3
  s4 = s4
  Sessions = {s1, s2, s3, s4}
  ann = ann
  bob = bob
  Creators = {ann, bob}
  r1 = r1
  r2 = r2
  r3 = r3
  Rooms = {r1, r2, r3}
  claim = claim
  Claims = {claim}
  IntentOf <- MCIntentOf
  Overlapping <- MCOverlapping
  t1 = t1
  t2 = t2
  Tokens = {t1, t2}
  Limit = 2
  NoRoom = NoRoom
  NoClaim = NoClaim
  NoSession = NoSession
  NoToken = NoToken
  NoTask = NoTask
  NoAttempt = NoAttempt
  NoCall = NoCall
  MaxRevision = 1
  LostCalls = {"hold_attempt"}
  MaxLost = 1
SPECIFICATION Spec
CHECK_DEADLOCK FALSE
SYMMETRY MCSymmetry
INVARIANTS AuditPasses OwnersSeparate OneFinalizer NoOvertaking CommittedOnce
PROPERTIES StopFinal
