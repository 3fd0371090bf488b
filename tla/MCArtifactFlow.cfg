CONSTANTS
  Null = Null
  Other = Other
  NaN = NaN
  NotFinite = NotFinite
  Unit = 2
  MaxSafeInteger = 9
  MaxSourceLines = 8
  MaxTreeDepth = 2
  Int32Max = 2
  Int64Max = 3
  FloatMax = 5000
  MaxGenerationCount = 2
  MaxSteps = 5
  MaxLines = 4
  Inputs <- MCInputs
  Fits <- MCFits
  Simulations <- MCSimulations
  Requests <- MCRequests
SPECIFICATION Spec
CHECK_DEADLOCK FALSE
INVARIANTS
  WrittenStreamsAreReadable
  PortableIsOneFit
  IdataIsOfTheFit
  ReadersAgreeOnData
  GeneratedParametersAreDraws
  GenerationsReload
