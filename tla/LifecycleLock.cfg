CONSTANTS
  p1 = p1
  p2 = p2
  Processes = {p1, p2}
  a = a
  b = b
  c = c
  Threads = {a, b, c}
  ProcessOf <- MCProcessOf
  Roots = {1, 2}
  All = All
  Shared = Shared
  Platforms <- MCPlatforms
  Plans <- MCPlans
  NoThread = NoThread
  MaxCalls = 3
  MaxCrashes = 1
SPECIFICATION FairSpec
CHECK_DEADLOCK FALSE
INVARIANTS RegistryExact
PROPERTIES ImplementsRootLease CallsEnd
