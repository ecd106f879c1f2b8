SPECIFICATION Spec
CONSTANTS
  Statement <- Returns
  DefaultSchema = "public"
  NoSchema = ""
  NoAlias = ""
  NoName = ""
  SubSelect = SubSelect
  Node <- Nodes
  Height <- Heights
  Schema <- Schemas
INVARIANTS
  RenamedColumnsCount
CHECK_DEADLOCK FALSE
