SPECIFICATION FairSpec
CONSTANTS
  Request = {1, 2, 3}
  User <- Users
  Target <- Targets
  TargetName <- TargetNames
  Query <- Queries
  Parsable <- ParsableQueries
  Vectors <- QueryVectors
  Config <- Targets_Config
  TargetGrants <- Target_Grants
  QueryGrants <- Query_Grants
  Asked <- AllAsks
  Blank = ""
  MaxConns = 1
  MaxCrashes = 1
  NoPool = NoPool
  NoAsk = NoAsk
INVARIANTS
  TypeOK
  OnlyPermittedRuns
  RefusalLeavesNoTrace
  RecordsAreTrue
  AnswersAreBacked
  PoolsServeTheirTarget
PROPERTIES
  ImplementsQueryService
  NoPoolAfterTheRace
  EveryCallReturns
CHECK_DEADLOCK FALSE
