CONSTANTS
  reportd = reportd
  predecessor = predecessor
  c1 = c1
  c2 = c2
  client = client
  NoProc = NoProc
  NoMessage = NoMessage
  Garbage = Garbage
  Daemon = reportd
  Proc <- TwoProcs
  ChmodFaults <- DashboardOnly
  FileFaults <- FileOpsFail
  Killable <- Nothing
  Child <- OneChild
  ClientMessage <- UrgentRequest
  Message <- AllMessages
  ScriptRuns = TRUE
  MaxSends = 1
  ForkFails = TRUE
  Clock <- DayAndNight
  RecordSize = 2
  PipeSize = 4
SPECIFICATION DaemonSpec
INVARIANTS DaemonTypeOK OutsideIsOpen OncePerMinute
PROPERTIES WindowSpec
CHECK_DEADLOCK FALSE
