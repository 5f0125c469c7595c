SPECIFICATION FairSpec
CONSTANTS
  Process = {p1, p2}
  Client = {c}
  Deleter = {d}
  MaxTasks = 2
  Task <- MCTask
  TTL = 2
  L1TTL = 1
  MaxFaults = 1
  maxExportRows = 1
  None = None
INVARIANTS TypeOK StaleExplained NothingLeft StoppedCascade
PROPERTY DeletionSucceeds
