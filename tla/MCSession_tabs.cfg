SPECIFICATION FairSpec
CONSTANTS
  Tab = {t1, t2}
  User = {ann, bob}
  State <- MCState
  Lives = {1, 3}
  StateAge = 1
  TicksPerSecond = 2
  MaxTime = 2
  MaxVisits = 3
  NoState = NoState
  NoUser = NoUser
  NoToken = NoToken
INVARIANTS
  RefusedHasCause
  OneUser
  CookieEnds
PROPERTIES
  GoodTokenStays
  GetsIn
CHECK_DEADLOCK FALSE
