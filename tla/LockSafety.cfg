CONSTANTS
  d1 = d1
  d2 = d2
  d3 = d3
  NoProc = NoProc
  Proc <- ThreeDaemons
  ChmodFaults <- Dir
  FileFaults <- FileOpsFail
  Killable <- OneKillable
SPECIFICATION FairLockSpec
INVARIANTS MutualExclusion QuiescentIsOpen
PROPERTIES LockNotStolen WindowSpec LockIsReleased
