SPECIFICATION FairSpec
CONSTANTS
  None = None
  IrHashes = {h1}
  Documents = {d1}
  Settings = {s1, s2}
  Indices = {0}
  MaxTasks = 2
  MaxRevision = 4
  MaxRequests = 3
CHECK_DEADLOCK FALSE
PROPERTIES
  OrphanedFitRetires
