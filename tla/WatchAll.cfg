CONSTANTS
  Name <- ReportAndNote
  Department <- TwoDepartments
  User <- OneUser
  Unset = Unset
  NoFile = NoFile
  NoScan = NoScan
  MaxTime = 1
  MaxChanges = 2
  MaxFaults = 2
SPECIFICATION WatchSpec
INVARIANTS WatchTypeOK LogReplays ScanSeesSteady
PROPERTIES ModifiedWasTouched MonitorConverges
CHECK_DEADLOCK FALSE
