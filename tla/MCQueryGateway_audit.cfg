SPECIFICATION Spec
CONSTANTS
  Request = {1, 2}
  User <- Users
  Target <- Targets
  TargetName <- TargetNames
  Query <- Queries
  Parsable <- ParsableQueries
  Vectors <- QueryVectors
  Config <- Targets_Config
  TargetGrants <- Target_Grants
  QueryGrants <- Query_Grants
  Asked <- FewAsks
  Blank = ""
  MaxConns = 1
  MaxCrashes = 0
  NoPool = NoPool
  NoAsk = NoAsk
INVARIANTS
  WhatRanIsRecorded
CHECK_DEADLOCK FALSE
