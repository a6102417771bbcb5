\* Two servers at a time, no query rejected, no live heartbeat lost.
CONSTANTS
  Task <- OneTask
  Process = {p1, p2}
  Slot <- TwoSlots
  MaxLocalWorkers = 1
  Outcomes <- OneResult
  ConcurrentServers = TRUE
  LossyHeartbeats = FALSE
  DbErrors = FALSE
  CancelsAt <- Anywhere
  None = None
SPECIFICATION Spec
INVARIANT AtMostOneStart
