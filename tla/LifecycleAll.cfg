CONSTANTS
  i1 = i1
  i2 = i2
  i3 = i3
  NoInst = NoInst
  Empty = Empty
  Inst <- ThreeStarts
  Crashes = TRUE
  StopTimesOut = TRUE
  Faults <- AnyFault
SPECIFICATION LifecycleSpec
INVARIANTS LifecycleTypeOK SingleInstance DaemonIsReachable RestartOpensDirectories
PROPERTIES StopReturns
CHECK_DEADLOCK FALSE
