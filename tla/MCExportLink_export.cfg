SPECIFICATION Spec
CONSTANTS
  ann = ann
  bob = bob
  r1 = r1
  r2 = r2
  g1 = g1
  g2 = g2
  Caller = {c1}
  UserID = {ann, bob}
  User <- MCUser
  Result = {r1, r2}
  Owner <- MCOwner
  Table <- MCTable
  Instance = {g1, g2}
  Ahead <- MCAhead
  MaxSkew = 1
  TicksPerSecond = 2
  MaxSecond = 5
  MaxLinks = 1
  NoUser = NoUser
  NoLink = NoLink
  NoBearer = NoBearer
  BadBearer = BadBearer
INVARIANTS
  TypeOK
  ServedIsReadable
  OverInTime
  RefusalHasCause
  PanicNeedsALoss
  FileHoldsTable
CHECK_DEADLOCK FALSE
