SPECIFICATION Spec
CONSTANTS
  Statement <- Statements
  DefaultSchema = "public"
  NoSchema = ""
  NoAlias = ""
  NoName = ""
  SubSelect = SubSelect
  Node <- Nodes
  Height <- Heights
  Schema <- Schemas
INVARIANTS
  NamesLead
  VectorUnlessOverwritten
  EveryColumnHasVector
  VectorsAreTheMeaning
CHECK_DEADLOCK FALSE
