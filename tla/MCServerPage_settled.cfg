SPECIFICATION FairSpec
CONSTANTS
  Server = {"shop", "ledger"}
  MaxRuns = 2
  MaxMoves = 2
  NoServer = NoServer
  NoResult = NoResult
INVARIANTS
  SettledShowsRoute
  LinksAreTrue
PROPERTIES
  LoadingEnds
CHECK_DEADLOCK FALSE
