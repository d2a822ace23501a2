CONSTANTS
  c1 = c1
  c2 = c2
  NoMessage = NoMessage
  Garbage = Garbage
  Message <- Reports
  RecordSize = 3
  PipeSize = 11
SPECIFICATION ScriptFifoSpec
INVARIANTS ScriptMessageUnderstood
