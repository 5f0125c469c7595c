SPECIFICATION FairSpec
CONSTANTS
  Process = {p1, p2}
  N = 3
  MaxRequests = 1
  MaxFaults = 2
  MaxStops = 1
  MaxDowns = 1
INVARIANTS TypeOK ServesMigrated NoRequestOnClosed LeakBound
PROPERTIES SchemaAtomic EventuallyServes
