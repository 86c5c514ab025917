CONSTANTS
  first = first
  second = second
  Runs = {first, second}
  N = 3
  Policies = {"aged", "older", "protected"}
  Authorising = {"aged", "older"}
  Worker = Worker
  NoRun = NoRun
  MaxChanges = 1
  MaxTouches = 1
  MaxStarts = 1
  MaxFaults = 1
SPECIFICATION Spec
CHECK_DEADLOCK FALSE
SYMMETRY MCSymmetry
INVARIANTS HistoryAccepted Truthful
PROPERTIES RemovalAuthorised
