CONSTANTS
  Extensions = {}
  Altering = {}
  Opaque = {}
  Uses <- MCUses
INIT Init
NEXT Next
CHECK_DEADLOCK FALSE
INVARIANTS
  BoundModelsEvaluate
  ScalesStayCholesky
  PartialVectorsAreWhole
  DrawsCanBeFitted
