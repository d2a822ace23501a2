CONSTANTS
  r1 = r1
  r2 = r2
  t1 = t1
  t2 = t2
  b1 = b1
  b2 = b2
  NoFile = NoFile
  NoDir = NoDir
  Report <- OneReport
  Transfer <- OneTransfer
  Backup <- TwoBackups
  Delivered <- FirstVersion
  MaxVersion = 2
  MaxClock = 1
  MaxChanges = 1
  MaxBackupAge = 0
  Faults <- NoFaults
  UploadModes <- AnyMode
  BackupFaults <- AnyBackupFault
  SameFs <- RenameWorks
SPECIFICATION SystemSpec
INVARIANTS SystemTypeOK ModesRestored
PROPERTIES FinishedIsFrozen CompleteBackupIsCurrent
SYMMETRY Interchangeable
CHECK_DEADLOCK FALSE
