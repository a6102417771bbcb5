\* Servers one after the other: crash and restart, rejected queries, lost beats.
SPECIFICATION Spec
CONSTANTS
  Task <- TwoTasks
  Process = {p1, p2}
  Slot <- TwoSlots
  MaxLocalWorkers = 1
  Outcomes <- OneResult
  ConcurrentServers = FALSE
  LossyHeartbeats = TRUE
  DbErrors = TRUE
  CancelsAt <- FirstOnly
  None = None
INVARIANTS TypeOK AtMostOneStart AcquireNeverWaits
PROPERTIES ReportedIsFinal AbortedStaysCancelled RefinesLedger
