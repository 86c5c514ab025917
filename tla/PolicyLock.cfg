CONSTANTS
  service = service
  cli = cli
  Processes = {service, cli}
  a = a
  b = b
  c = c
  d = d
  Threads = {a, b, c, d}
  ProcessOf <- MCProcessOf
  NoThread = NoThread
  Changes = {1, 2}
  MaxRemovals = 1
  MaxCrashes = 1
SPECIFICATION FairSpec
CHECK_DEADLOCK FALSE
PROPERTIES ImplementsPolicyRegister CallsEnd
