CONSTANTS
  reportd = reportd
  predecessor = predecessor
  c1 = c1
  c2 = c2
  client = client
  NoProc = NoProc
  NoMessage = NoMessage
  Garbage = Garbage
  Daemon = reportd
  Proc <- JustDaemon
  ChmodFaults <- Nothing
  FileFaults <- Nothing
  Killable <- Nothing
  Child <- OneChild
  ClientMessage <- Nothing
  Message <- AllMessages
  ScriptRuns = FALSE
  MaxSends = 0
  ForkFails = FALSE
  Clock <- DayAndNight
  RecordSize = 2
  PipeSize = 2
SPECIFICATION PromptSpec
PROPERTIES ScheduledTransferRuns
CHECK_DEADLOCK FALSE
