CONSTANTS
  r1 = r1
  r2 = r2
  t1 = t1
  t2 = t2
  NoFile = NoFile
  Report <- TwoReports
  Transfer <- TwoTransfers
  Delivered <- OneIsNew
  MaxVersion = 2
  Faults <- AnyFault
  SameFs <- EitherWay
SPECIFICATION TransferSpec
INVARIANTS NewestVersionKept
PROPERTIES DashboardNeverOlder OnlyValidReports ReportIsMoved
