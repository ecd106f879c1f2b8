SPECIFICATION FairSpec
CONSTANTS
  ann = ann
  bob = bob
  orders = orders
  billing = billing
  page1 = page1
  dash1 = dash1
  User = {ann, bob}
  Target = {orders, billing}
  Grants <- MCGrants
  ServerPage = {page1}
  Dashboard = {dash1}
  Owner <- MCOwner
  Client = {bob}
  MaxRows = 2
  MaxCalls = 2
  MaxEvents = 3
  NoTab = NoTab
  NoTarget = NoTarget
INVARIANTS
  QuietTabShowsStored
  BookmarksAreOnesOwn
PROPERTIES
  OnlyOwnersDelete
  FormsComeBack
CHECK_DEADLOCK FALSE
