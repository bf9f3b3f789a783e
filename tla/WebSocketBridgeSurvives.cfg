SPECIFICATION Spec
CONSTANTS
  s1 = s1
  s2 = s2
  s3 = s3
  Sockets <- MCSockets
  MaxMessages = 2
INVARIANT BridgeSurvives
\* The process may stop.
CHECK_DEADLOCK FALSE
