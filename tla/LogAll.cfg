CONSTANTS
  reportd = reportd
  c1 = c1
  Proc <- DaemonAndChild
  MAX_LOG_BACKUPS = 3
  Faults <- AnyFault
  MaxFailures = 2
  MaxCalls = 2
  MaxFills = 1
  MaxDepth = 6
SPECIFICATION LogSpec
INVARIANTS RotatedInOrder
PROPERTIES KeepsRotated LoggingEnds
CHECK_DEADLOCK FALSE
