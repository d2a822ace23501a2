CONSTANTS
  reportd = reportd
  predecessor = predecessor
  c1 = c1
  c2 = c2
  client = client
  NoProc = NoProc
  NoMessage = NoMessage
  Garbage = Garbage
  Daemon = reportd
  Proc <- JustDaemon
  ChmodFaults <- Dir
  FileFaults <- AllFileOpsFail
  Killable <- Nothing
  Child <- OneChild
  ClientMessage <- UrgentRequest
  Message <- AllMessages
  ScriptRuns = FALSE
  MaxSends = 1
  ForkFails = TRUE
  Clock <- DayTime
  RecordSize = 2
  PipeSize = 5
SPECIFICATION FairDaemonSpec
INVARIANTS WindowGuarded Framed
PROPERTIES RequestIsTried TerminationIsHonoured QueueSpec AcceptedIsReceived
CHECK_DEADLOCK FALSE
