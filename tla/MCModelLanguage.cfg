CONSTANTS
  Extensions = {"Skew", "Incrementing"}
  Altering = {"Incrementing"}
  Opaque = {"Foreign"}
  Projects <- MCProjects
  Tags = {"Tag1", "Tag2"}
  MaxDocuments = 1
INIT Init
NEXT Next
CHECK_DEADLOCK FALSE
INVARIANTS
  ModelsStandAlone
  ComposedIsAnOrdinaryModel
  DocumentsKeepTheirMeaning
