CONSTANTS
  r1 = r1
  r2 = r2
  t1 = t1
  t2 = t2
  NoFile = NoFile
  Report <- OneReport
  Transfer <- TwoTransfers
  Delivered <- Nothing
  MaxVersion = 2
  Faults <- NoFaults
  SameFs <- RenameWorks
SPECIFICATION TransferSpec
INVARIANTS MoveNeverLoses
