SPECIFICATION MCSpec
CONSTANTS
  s1 = s1
  s2 = s2
  s3 = s3
  Sockets <- MCSockets
  MaxMessages = 2
  Clients = {c1, c2}
  MaxChanges = 3
INVARIANTS
  DashboardTypeOK
  LiveIsRegistered
PROPERTIES
  BroadcastReachesAll
  MessagesDrain
  Converges
\* The process may stop.
CHECK_DEADLOCK FALSE
