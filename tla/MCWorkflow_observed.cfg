SPECIFICATION Spec
CONSTANTS
  None = None
  IrHashes = {h1, h2}
  Documents = {d1, d2}
  Settings = {s1}
  Indices = {0, 1}
  MaxTasks = 2
  MaxRevision = 400
  MaxRequests = 200
VIEW Observed
SYMMETRY Symmetric
CHECK_DEADLOCK FALSE
INVARIANT ObservedFitIsCurrent
