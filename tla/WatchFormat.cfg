CONSTANTS
  Name <- ExpectedReport
  Department <- TwoDepartments
  User <- OneUser
  Unset = Unset
  NoFile = NoFile
  NoScan = NoScan
  MaxTime = 1
  MaxChanges = 2
  MaxFaults = 2
SPECIFICATION WatchSpec
INVARIANT MissingWasAbsent
CHECK_DEADLOCK FALSE
