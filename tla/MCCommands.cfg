CONSTANTS
  Null = Null
  Other = Other
  d1 = d1
  d2 = d2
  d3 = d3
  Calls = {c1, c2, c3}
  Dirs = {d1, d2, d3}
  Files = {1, 2}
  Binary = 1
  MaxKills = 1
  Unit = 2
  MaxReportable = 30
  Bounded = TRUE
  PinnedEngine <- MCPinned
  Machines <- MCMachines
  Intents <- MCIntents
SYMMETRY CommandSymmetry
SPECIFICATION CommandsSpec
INVARIANTS
  InstalledIsVerified
  EngineRemains
  CheckedBeforeWritten
  RecordedEngineRuns
  ReplaysRunTheSameCommand
PROPERTIES
  RemovedForAReplacement
