SPECIFICATION Spec
CONSTANTS
  Statement <- AliasedJoins
  DefaultSchema = "public"
  NoSchema = ""
  NoAlias = ""
  NoName = ""
  SubSelect = SubSelect
  Node <- Nodes
  Height <- Heights
  Schema <- DefaultOnly
INVARIANTS
  EveryTableIsChecked
CHECK_DEADLOCK FALSE
