SPECIFICATION FairSpec
CONSTANTS
  Instance = {i1, i2}
  MaxTroubles = 2
INVARIANTS
  ServesFullSchema
  FailsOnlyOvertaken
  ServesCheckedConfig
PROPERTIES
  RowsStay
  ComesToServe
CHECK_DEADLOCK FALSE
