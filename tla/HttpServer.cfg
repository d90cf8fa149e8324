CONSTANTS
  page = page  socket = socket  root = root  live = live
  Routes = {page, socket}
  paths <- MCpaths
  WsRoutes = {socket}
  Paths = {root, live}
  Waiters = {w1}
  MaxRequests = 2
  Silent = {2}
  MaxFailures = 1
SPECIFICATION FairSpec
INVARIANTS
  NoStrayListener
  AddressNotStale
  SamePathSameRoute
PROPERTIES
  WaitersReturn
  ShutdownEnds
  ClientsSettle
CHECK_DEADLOCK FALSE
